-------------------------- MODULE PolicySyncProofs --------------------------
(* Theorems about PolicySync, for every value of its constants. *)
EXTENDS PolicySync, FiniteSetTheorems, TLAPS

(***************************************************************************)
(* Places in a sorted list: a source is found again at its place.          *)
(***************************************************************************)
LEMMA PlaceType ==
    ASSUME NEW S \in SUBSET Sources, NEW s \in S
    PROVE  /\ IsFiniteSet(S) /\ Cardinality(S) \in Nat
           /\ Place(S, s) \in 1..Cardinality(S)
<1> DEFINE upto == {t \in S : t <= s}
<1>1. IsFiniteSet(S)
    BY SourcesAssumption, FS_Subset
<1>2. IsFiniteSet(upto) /\ Cardinality(upto) <= Cardinality(S)
    BY <1>1, FS_Subset
<1>3. s \in upto
    BY SourcesAssumption
<1>4. Cardinality(upto) \in Nat /\ Cardinality(upto) # 0 /\ Cardinality(S) \in Nat
    BY <1>1, <1>2, <1>3, FS_CardinalityType, FS_EmptySet
<1> QED BY <1>1, <1>2, <1>4 DEF Place

LEMMA PlaceOrder ==
    ASSUME NEW S \in SUBSET Sources, NEW s \in S, NEW t \in S, s < t
    PROVE  Place(S, s) < Place(S, t)
<1> DEFINE low == {u \in S : u <= s}
           high == {u \in S : u <= t}
<1>1. IsFiniteSet(S)
    BY SourcesAssumption, FS_Subset
<1>2. S \subseteq Nat
    BY SourcesAssumption
<1>3. low \subseteq high /\ t \in high /\ t \notin low
    <2>1. s \in Nat /\ t \in Nat /\ \A u \in S : u \in Nat
        BY <1>2
    <2>2. t <= t /\ ~(t <= s) /\ \A u \in S : u <= s => u <= t
        BY <2>1
    <2> QED BY <2>2
<1>4. IsFiniteSet(high)
    BY <1>1, FS_Subset
<1>5. IsFiniteSet(low) /\ Cardinality(low) < Cardinality(high)
    BY <1>3, <1>4, FS_Subset, FS_CardinalityType
<1> QED BY <1>5 DEF Place

LEMMA AtPlace ==
    ASSUME NEW S \in SUBSET Sources, NEW s \in S
    PROVE  At(S, Place(S, s)) = s
<1>1. \A t \in S : Place(S, t) = Place(S, s) => t = s
    <2> SUFFICES ASSUME NEW t \in S, t # s PROVE Place(S, t) # Place(S, s)
        OBVIOUS
    <2>1. t < s \/ s < t
        BY SourcesAssumption
    <2>2. Place(S, t) < Place(S, s) \/ Place(S, s) < Place(S, t)
        BY <2>1, PlaceOrder
    <2>3. Place(S, s) \in Nat /\ Place(S, t) \in Nat
        BY PlaceType
    <2> QED BY <2>2, <2>3
<1> QED BY <1>1 DEF At

\* Every place of the list has its source.
LEMMA AtType ==
    ASSUME NEW S \in SUBSET Sources, NEW i \in 1..Cardinality(S)
    PROVE  At(S, i) \in S
<1> DEFINE n == Cardinality(S)
           place == [s \in S |-> Place(S, s)]
<1>1. IsFiniteSet(S) /\ n \in Nat
    BY SourcesAssumption, FS_Subset, FS_CardinalityType
<1>2. place \in [S -> 1..n]
    BY PlaceType
<1>3. \A s, t \in S : place[s] = place[t] => s = t
    BY AtPlace
<1>4. place \in Injection(S, 1..n)
    BY <1>2, <1>3 DEF Injection, IsInjective
<1>5. IsFiniteSet(1..n) /\ Cardinality(1..n) = n
    BY <1>1, FS_Interval
<1>6. place \in Surjection(S, 1..n)
    BY <1>4, <1>5, FS_Injection
<1>7. \E s \in S : Place(S, s) = i
    BY <1>6 DEF Surjection
<1> QED BY <1>7 DEF At

-----------------------------------------------------------------------------
(***************************************************************************)
(* Types, and what a run has behind it.                                    *)
(***************************************************************************)
Vector == [text : Contents, model : Models]

Plan(r) == Embeds(r) \union Normalizes(r) \union Removes(r)

\* A run's vectors are those of its list; what it holds it has executed a
\* planned statement for, and is sound.
Working(r) ==
    /\ pc[r] \in AtWork \union {"skipped", "complete"} => model[r] \in Models
    /\ pc[r] \in InTransaction => embeddings[r] = Vectors(r, Embeds(r))
    /\ pc[r] \notin InTransaction => done[r] = {} /\ embeddings[r] = <<>>
    /\ pc[r] = "delete" => Embeds(r) \union Normalizes(r) \subseteq done[r]
    /\ done[r] \subseteq Plan(r)
    /\ \A s \in Sources :
          /\ Holds(r, s) => s \in done[r]
          /\ Holds(r, s) /\ pending[r][s] # Absent => Coherent(pending[r][s])

SoundInv ==
    /\ PolicyTypeOK
    /\ RowsAreCoherent
    /\ \A r \in Runs : Working(r)

\* Run q does not move.
Still(q) ==
    /\ pc'[q] = pc[q] /\ documents'[q] = documents[q] /\ model'[q] = model[q]
    /\ existing'[q] = existing[q] /\ embeddings'[q] = embeddings[q]
    /\ done'[q] = done[q] /\ pending'[q] = pending[q]

LEMMA StillViews ==
    ASSUME NEW q \in Runs, documents'[q] = documents[q], model'[q] = model[q],
           existing'[q] = existing[q]
    PROVE  /\ Embeds(q)' = Embeds(q) /\ Normalizes(q)' = Normalizes(q)
           /\ Removes(q)' = Removes(q) /\ Plan(q)' = Plan(q)
           /\ Vectors(q, Embeds(q))' = Vectors(q, Embeds(q))
           /\ \A s \in Sources : Image(q, s)' = Image(q, s)
<1>1. /\ Embeds(q)' = Embeds(q) /\ Normalizes(q)' = Normalizes(q)
      /\ Removes(q)' = Removes(q)
    BY DEF Embeds, Normalizes, Removes
<1>2. Vectors(q, Embeds(q))' = Vectors(q, Embeds(q))
    BY <1>1 DEF Vectors
<1> QED BY <1>1, <1>2 DEF Plan, Image

LEMMA StillWorking ==
    ASSUME NEW q \in Runs, Working(q), Still(q)
    PROVE  Working(q)'
BY StillViews DEF Still, Working, Holds

LEMMA PlanType ==
    ASSUME NEW r \in Runs
    PROVE  /\ Embeds(r) \subseteq Sources /\ Normalizes(r) \subseteq Sources
           /\ Removes(r) \subseteq Sources
           /\ \A s \in Embeds(r) \union Normalizes(r) : documents[r][s] # Absent
           /\ \A s \in Removes(r) : documents[r][s] = Absent
           /\ Embeds(r) \intersect Normalizes(r) = {}
BY DEF Embeds, Normalizes, Removes, ToEmbed, ToNormalize, Stale, Loaded

\* The vectors of a list of documents, one for each place.
LEMMA VectorsType ==
    ASSUME NEW r \in Runs, PolicyTypeOK, model[r] \in Models
    PROVE  /\ Vectors(r, Embeds(r)) \in Seq(Vector)
           /\ DOMAIN Vectors(r, Embeds(r)) = 1..Cardinality(Embeds(r))
           /\ Len(Vectors(r, Embeds(r))) = Cardinality(Embeds(r))
           /\ \A s \in Embeds(r) :
                 Vectors(r, Embeds(r))[Place(Embeds(r), s)] = Embedding(documents[r][s], model[r])
<1> DEFINE S == Embeds(r)
           n == Cardinality(S)
<1>1. S \in SUBSET Sources /\ \A s \in S : documents[r][s] # Absent
    BY PlanType
<1>2. n \in Nat
    BY <1>1, SourcesAssumption, FS_Subset, FS_CardinalityType
<1>3. \A s \in S : documents[r][s] \in Contents
    BY <1>1 DEF PolicyTypeOK
<1>4. \A i \in 1..n : Embedding(documents[r][At(S, i)], model[r]) \in Vector
    BY <1>1, <1>3, AtType DEF Embedding, Vector
<1>5. Vectors(r, S) = [i \in 1..n |-> Embedding(documents[r][At(S, i)], model[r])]
    BY DEF Vectors
<1> HIDE DEF S
<1>6. Vectors(r, S) \in [1..n -> Vector]
    BY <1>4, <1>5
<1>7. Vectors(r, S) \in Seq(Vector)
    BY <1>2, <1>6
<1>8. \A s \in S : Vectors(r, S)[Place(S, s)] = Embedding(documents[r][s], model[r])
    BY <1>1, <1>5, PlaceType, AtPlace
<1>9. DOMAIN Vectors(r, S) = 1..n /\ Len(Vectors(r, S)) = n
    BY <1>2, <1>5, <1>7
<1> QED BY <1>7, <1>8, <1>9 DEF S

\* The vectors of some of the documents are as many as the documents.
LEMMA SomeVectors ==
    ASSUME NEW r \in Runs, PolicyTypeOK, model[r] \in Models, NEW S \in SUBSET Embeds(r)
    PROVE  /\ IsFiniteSet(Embeds(r)) /\ IsFiniteSet(S)
           /\ Len(Vectors(r, S)) = Cardinality(S)
<1> DEFINE n == Cardinality(S)
<1>1. S \in SUBSET Sources /\ Embeds(r) \subseteq Sources
    BY PlanType
<1>2. IsFiniteSet(Embeds(r)) /\ IsFiniteSet(S) /\ n \in Nat
    BY <1>1, SourcesAssumption, FS_Subset, FS_CardinalityType
<1>3. Vectors(r, S) = [i \in 1..n |-> Embedding(documents[r][At(S, i)], model[r])]
    BY DEF Vectors
<1>4. Vectors(r, S) \in Seq({Embedding(documents[r][At(S, i)], model[r]) : i \in 1..n})
    <2> HIDE DEF n
    <2> QED BY <1>2, <1>3
<1>5. DOMAIN Vectors(r, S) = 1..n
    BY <1>3
<1> QED BY <1>2, <1>4, <1>5

\* In the transaction, zip pairs every document, and a row that is written
\* carries the vector of its text.
LEMMA NewRowIsImage ==
    ASSUME SoundInv, NEW r \in Runs, pc[r] \in InTransaction
    PROVE  /\ Zipped(r) = Embeds(r) /\ ~Unequal(r)
           /\ \A s \in Embeds(r) :
                 /\ NewRow(r, s) = Image(r, s)
                 /\ NewRow(r, s) \in Policy /\ Coherent(NewRow(r, s))
<1>1. /\ embeddings[r] = Vectors(r, Embeds(r)) /\ model[r] \in Models
    BY DEF SoundInv, Working, AtWork
<1>2. Embeds(r) \in SUBSET Sources /\ \A s \in Embeds(r) : documents[r][s] # Absent
    BY PlanType
<1>3. Zipped(r) = Embeds(r) /\ ~Unequal(r)
    BY <1>1, <1>2, VectorsType, PlaceType DEF SoundInv, Zipped, Unequal
<1>4. ASSUME NEW s \in Embeds(r)
      PROVE  /\ NewRow(r, s) = Image(r, s)
             /\ NewRow(r, s) \in Policy /\ Coherent(NewRow(r, s))
    <2>1. embeddings[r][Place(Embeds(r), s)] = Embedding(documents[r][s], model[r])
        BY <1>1, VectorsType DEF SoundInv
    <2>2. documents[r][s] \in Contents
        BY <1>2 DEF SoundInv, PolicyTypeOK
    <2> QED BY <1>1, <1>2, <2>1, <2>2 DEF NewRow, Image, Policy, Coherent, Embedding
<1> QED BY <1>3, <1>4

-----------------------------------------------------------------------------
(***************************************************************************)
(* SoundInv is inductive: a lemma for each way a step changes the state.   *)
(***************************************************************************)
LEMMA NoVectors == <<>> \in Seq(Vector)
OBVIOUS

LEMMA SoundInit == SyncInit => SoundInv
<1> SUFFICES ASSUME SyncInit PROVE SoundInv
    OBVIOUS
<1>1. policies \in [Sources -> Policy \union {Absent}] /\ RowsAreCoherent
    BY TablesAssumption DEF SyncInit, RowsAreCoherent
<1>2. \A r \in Runs, s \in Sources : ~Holds(r, s)
    BY DEF SyncInit, Holds
<1>3. PolicyTypeOK
    BY <1>1, <1>2 DEF SyncInit, PolicyTypeOK
<1>4. \A r \in Runs : Working(r)
    BY <1>2 DEF SyncInit, Working, AtWork, InTransaction
<1> QED BY <1>1, <1>3, <1>4 DEF SoundInv

\* A run that fails holds nothing and has done nothing.
LEMMA SoundFail ==
    ASSUME SoundInv, NEW r \in Runs, Fail(r)
    PROVE  SoundInv'
<1>1. /\ policies' = policies /\ documents' = documents /\ model' = model
      /\ pc' = [pc EXCEPT ![r] = "failed"] /\ done' = [done EXCEPT ![r] = {}]
      /\ existing' = [existing EXCEPT ![r] = [s \in Sources |-> Absent]]
      /\ embeddings' = [embeddings EXCEPT ![r] = <<>>]
      /\ pending' = [pending EXCEPT ![r] = [s \in Sources |-> Unchanged]]
    BY DEF Fail, Forget, Become
<1>2. PolicyTypeOK
    BY DEF SoundInv
<1>3. /\ \A s \in Sources : ~Holds(r, s)'
      /\ \A q \in Runs \ {r}, s \in Sources : Holds(q, s)' <=> Holds(q, s)
    BY <1>1, <1>2 DEF Holds, PolicyTypeOK
<1>4. \A q \in Runs \ {r} : Still(q)
    BY <1>1, <1>2 DEF Still, PolicyTypeOK
<1>5. PolicyTypeOK'
    <2>1. \A q \in Runs, s \in Sources : Holds(q, s)' => pc'[q] \in InTransaction /\ ~Taken(q, s)'
        BY <1>2, <1>3, <1>4 DEF PolicyTypeOK, Taken, Still
    <2>2. /\ pc' \in [Runs -> {"idle"} \union AtWork \union Ended]
          /\ policies' \in [Sources -> Policy \union {Absent}]
          /\ documents' \in [Runs -> [Sources -> Contents \union {Absent}]]
          /\ model' \in [Runs -> Models \union {NoModel}]
          /\ done' \in [Runs -> SUBSET Sources]
        BY <1>1, <1>2 DEF PolicyTypeOK, Ended
    <2>3. existing' \in [Runs -> [Sources -> KnownPolicy \union {Absent}]]
        BY <1>1, <1>2 DEF PolicyTypeOK
    <2>5. embeddings' \in [Runs -> Seq(Vector)]
        <3>1. embeddings \in [Runs -> Seq(Vector)]
            BY <1>2, Zenon DEF PolicyTypeOK, Vector
        <3> QED BY <3>1, <1>1, NoVectors
    <2>4. pending' \in [Runs -> [Sources -> Policy \union {Absent, Unchanged}]]
        BY <1>1, <1>2 DEF PolicyTypeOK
    <2> QED BY <2>1, <2>2, <2>3, <2>4, <2>5 DEF PolicyTypeOK, Vector
<1>6. RowsAreCoherent'
    BY <1>1 DEF SoundInv, RowsAreCoherent
<1>7. Working(r)'
    BY <1>1, <1>2, <1>3 DEF Working, PolicyTypeOK, AtWork, InTransaction
<1>8. \A q \in Runs \ {r} : Working(q)'
    BY <1>4, StillWorking DEF SoundInv
<1> QED BY <1>5, <1>6, <1>7, <1>8 DEF SoundInv

\* A statement of the transaction on a row that is nobody else's.
LEMMA SoundWrote ==
    ASSUME SoundInv, NEW r \in Runs, NEW s \in Plan(r), pc[r] \in InTransaction,
           NEW p \in Policy \union {Absent, Unchanged},
           p \in Policy => Coherent(p), p # Unchanged => ~Taken(r, s),
           Wrote(r, s, p)
    PROVE  SoundInv'
<1>1. /\ policies' = policies /\ documents' = documents /\ model' = model
      /\ pc' = pc /\ existing' = existing /\ embeddings' = embeddings
      /\ done' = [done EXCEPT ![r] = @ \union {s}]
      /\ pending' = [pending EXCEPT ![r][s] = p]
    BY DEF Wrote
<1>2. PolicyTypeOK /\ s \in Sources
    BY PlanType DEF SoundInv, Plan
<1>3. /\ Holds(r, s)' => ~Taken(r, s)
      /\ \A t \in Sources \ {s} : pending'[r][t] = pending[r][t]
      /\ \A t \in Sources \ {s} : Holds(r, t)' <=> Holds(r, t)
      /\ pending'[r][s] = p
    BY <1>1, <1>2 DEF Holds, PolicyTypeOK
<1>4. \A q \in Runs \ {r} : Still(q) /\ \A t \in Sources : Holds(q, t)' <=> Holds(q, t)
    BY <1>1, <1>2 DEF Still, PolicyTypeOK, Holds
<1>5. PolicyTypeOK'
    <2>1. \A q \in Runs, t \in Sources : Holds(q, t)' => pc'[q] \in InTransaction /\ ~Taken(q, t)'
        <3> SUFFICES ASSUME NEW q \in Runs, NEW t \in Sources, Holds(q, t)'
                     PROVE  pc'[q] \in InTransaction /\ ~Taken(q, t)'
            OBVIOUS
        <3>1. CASE q = r /\ t = s
            BY <3>1, <1>1, <1>3, <1>4 DEF Taken
        <3>2. CASE ~(q = r /\ t = s)
            <4>1. Holds(q, t)
                BY <3>2, <1>3, <1>4
            <4>2. pc[q] \in InTransaction /\ ~Taken(q, t)
                BY <4>1, <1>2 DEF PolicyTypeOK
            <4>3. ASSUME NEW u \in Runs \ {q}, Holds(u, t)' PROVE FALSE
                <5>1. CASE u = r /\ t = s
                    BY <5>1, <4>1, <4>3, <1>3 DEF Taken
                <5>2. CASE ~(u = r /\ t = s)
                    BY <5>2, <4>2, <4>3, <1>3, <1>4 DEF Taken
                <5> QED BY <5>1, <5>2
            <4> QED BY <4>2, <4>3, <1>1 DEF Taken
        <3> QED BY <3>1, <3>2
    <2>2. done' \in [Runs -> SUBSET Sources]
        BY <1>1, <1>2 DEF PolicyTypeOK
    <2>3. pending' \in [Runs -> [Sources -> Policy \union {Absent, Unchanged}]]
        BY <1>1, <1>2 DEF PolicyTypeOK
    <2> QED BY <2>1, <2>2, <2>3, <1>1, <1>2 DEF PolicyTypeOK
<1>6. RowsAreCoherent'
    BY <1>1 DEF SoundInv, RowsAreCoherent
<1>7. Working(r)'
    <2>1. /\ Embeds(r)' = Embeds(r) /\ Normalizes(r)' = Normalizes(r) /\ Plan(r)' = Plan(r)
          /\ Vectors(r, Embeds(r))' = Vectors(r, Embeds(r))
        BY <1>1, StillViews
    <2>2. Working(r) /\ done'[r] = done[r] \union {s}
        BY <1>1, <1>2 DEF SoundInv, PolicyTypeOK
    <2>3. ASSUME NEW t \in Sources, Holds(r, t)'
          PROVE  t \in done'[r] /\ (pending'[r][t] # Absent => Coherent(pending'[r][t]))
        <3>1. CASE t = s
            BY <3>1, <2>2, <2>3, <1>3 DEF Holds
        <3>2. CASE t # s
            BY <3>2, <2>2, <2>3, <1>3 DEF Working
        <3> QED BY <3>1, <3>2
    <2>4. \A t \in Sources : /\ Holds(r, t)' => t \in done'[r]
                             /\ Holds(r, t)' /\ pending'[r][t] # Absent
                                    => Coherent(pending'[r][t])
        BY <2>3
    <2>5. Coherent(pending[r][s])' <=> Coherent(pending'[r][s])
        BY DEF Coherent
    <2>6. /\ pc'[r] \in AtWork \union {"skipped", "complete"} => model'[r] \in Models
          /\ pc'[r] \in InTransaction => embeddings'[r] = Vectors(r, Embeds(r))'
          /\ pc'[r] \notin InTransaction => done'[r] = {} /\ embeddings'[r] = <<>>
          /\ pc'[r] = "delete" => Embeds(r)' \union Normalizes(r)' \subseteq done'[r]
          /\ done'[r] \subseteq Plan(r)'
        BY <1>1, <2>1, <2>2 DEF Working
    <2> QED BY <2>4, <2>6 DEF Working, Coherent
<1>8. \A q \in Runs \ {r} : Working(q)'
    BY <1>4, StillWorking DEF SoundInv
<1> QED BY <1>5, <1>6, <1>7, <1>8 DEF SoundInv

\* What commits is sound, and a DELETE that waits only learns of rows it plans
\* to remove.
LEMMA SoundCommit ==
    ASSUME SoundInv, NEW r \in Runs, Commit(r)
    PROVE  SoundInv'
<1>1. /\ policies' = [s \in Sources |-> IF Holds(r, s) THEN pending[r][s] ELSE policies[s]]
      /\ documents' = documents /\ model' = model
      /\ pc' = [pc EXCEPT ![r] = "complete"]
      /\ existing' = [existing EXCEPT ![r] = [s \in Sources |-> Absent]]
      /\ embeddings' = [embeddings EXCEPT ![r] = <<>>]
      /\ pending' = [pending EXCEPT ![r] = [s \in Sources |-> Unchanged]]
      /\ done' \in [Runs -> SUBSET Sources]
      /\ pc[r] \in InTransaction
    <2>1. PolicyTypeOK
        BY DEF SoundInv
    <2>2. done' \in [Runs -> SUBSET Sources]
        <3> DEFINE learnt(q) ==
                 CASE q = r                     -> {}
                   [] q # r /\ pc[q] = "delete" ->
                         done[q] \union {s \in Removes(q) : pending[r][s] = Absent}
                   [] OTHER                     -> done[q]
        <3>1. done' = [q \in Runs |-> learnt(q)]
            BY DEF Commit
        <3>2. \A q \in Runs : learnt(q) \subseteq Sources
            <4> SUFFICES ASSUME NEW q \in Runs PROVE learnt(q) \subseteq Sources
                OBVIOUS
            <4>1. done[q] \subseteq Sources /\ Removes(q) \subseteq Sources
                BY <2>1, PlanType DEF PolicyTypeOK
            <4>2. CASE q = r
                BY <4>2
            <4>3. CASE q # r /\ pc[q] = "delete"
                BY <4>1, <4>3
            <4>4. CASE q # r /\ pc[q] # "delete"
                BY <4>1, <4>4
            <4> QED BY <4>2, <4>3, <4>4
        <3> HIDE DEF learnt
        <3> QED BY <3>1, <3>2
    <2> QED BY <2>2 DEF Commit, Become, Forget, Written, InTransaction
<1>2. PolicyTypeOK
    BY DEF SoundInv
<1>3. /\ \A s \in Sources : ~Holds(r, s)'
      /\ \A q \in Runs \ {r}, s \in Sources : Holds(q, s)' <=> Holds(q, s)
    BY <1>1, <1>2 DEF Holds, PolicyTypeOK
<1>4. \A q \in Runs \ {r} :
          /\ pc'[q] = pc[q] /\ documents'[q] = documents[q] /\ model'[q] = model[q]
          /\ existing'[q] = existing[q] /\ embeddings'[q] = embeddings[q]
          /\ pending'[q] = pending[q]
    BY <1>1, <1>2 DEF PolicyTypeOK
<1>5. PolicyTypeOK'
    <2>1. \A q \in Runs, s \in Sources : Holds(q, s)' => pc'[q] \in InTransaction /\ ~Taken(q, s)'
        BY <1>2, <1>3, <1>4 DEF PolicyTypeOK, Taken
    <2>2. policies' \in [Sources -> Policy \union {Absent}]
        BY <1>1, <1>2 DEF PolicyTypeOK, Holds
    <2>3. /\ pc' \in [Runs -> {"idle"} \union AtWork \union Ended]
          /\ documents' \in [Runs -> [Sources -> Contents \union {Absent}]]
          /\ model' \in [Runs -> Models \union {NoModel}]
        BY <1>1, <1>2 DEF PolicyTypeOK, Ended
    <2>4. existing' \in [Runs -> [Sources -> KnownPolicy \union {Absent}]]
        BY <1>1, <1>2 DEF PolicyTypeOK
    <2>5. embeddings' \in [Runs -> Seq(Vector)]
        <3>1. embeddings \in [Runs -> Seq(Vector)]
            BY <1>2, Zenon DEF PolicyTypeOK, Vector
        <3> QED BY <3>1, <1>1, NoVectors
    <2>6. pending' \in [Runs -> [Sources -> Policy \union {Absent, Unchanged}]]
        BY <1>1, <1>2 DEF PolicyTypeOK
    <2> QED BY <1>1, <2>1, <2>2, <2>3, <2>4, <2>5, <2>6 DEF PolicyTypeOK, Vector
<1>6. RowsAreCoherent'
    <2> SUFFICES ASSUME NEW s \in Sources, policies'[s] # Absent
                 PROVE  Coherent(policies'[s])
        BY DEF RowsAreCoherent, Coherent
    <2>1. CASE Holds(r, s)
        BY <2>1, <1>1 DEF SoundInv, Working
    <2>2. CASE ~Holds(r, s)
        BY <2>2, <1>1 DEF SoundInv, RowsAreCoherent
    <2> QED BY <2>1, <2>2
<1>7. Working(r)'
    <2>1. /\ done'[r] = {} /\ embeddings'[r] = <<>> /\ model'[r] = model[r]
          /\ pc'[r] = "complete"
        BY <1>1, <1>2 DEF Commit, Forget, PolicyTypeOK
    <2>2. model'[r] \in Models
        BY <1>1, <2>1 DEF SoundInv, Working, AtWork
    <2> QED BY <2>1, <2>2, <1>3 DEF Working, AtWork, InTransaction
<1>8. ASSUME NEW q \in Runs \ {r} PROVE Working(q)'
    <2>1. /\ Embeds(q)' = Embeds(q) /\ Normalizes(q)' = Normalizes(q) /\ Plan(q)' = Plan(q)
          /\ Vectors(q, Embeds(q))' = Vectors(q, Embeds(q))
        BY <1>4, StillViews
    <2>2. Working(q)
        BY DEF SoundInv
    <2>3. /\ done[q] \subseteq done'[q] /\ done'[q] \subseteq done[q] \union Removes(q)
          /\ pc[q] # "delete" => done'[q] = done[q]
        BY <1>2 DEF Commit, PolicyTypeOK
    <2>4. done'[q] \subseteq Plan(q)
        BY <2>2, <2>3 DEF Working, Plan
    <2>5. \A s \in Sources :
              /\ Holds(q, s)' => s \in done'[q]
              /\ Holds(q, s)' /\ pending'[q][s] # Absent => Coherent(pending'[q][s])
        BY <1>3, <1>4, <2>2, <2>3 DEF Working
    <2>6. /\ pc'[q] \in AtWork \union {"skipped", "complete"} => model'[q] \in Models
          /\ pc'[q] \in InTransaction => embeddings'[q] = Vectors(q, Embeds(q))'
          /\ pc'[q] \notin InTransaction => done'[q] = {} /\ embeddings'[q] = <<>>
          /\ pc'[q] = "delete" => Embeds(q)' \union Normalizes(q)' \subseteq done'[q]
        BY <1>4, <2>1, <2>2, <2>3 DEF Working, InTransaction
    <2> QED BY <2>1, <2>4, <2>5, <2>6 DEF Working, Coherent
<1> QED BY <1>5, <1>6, <1>7, <1>8 DEF SoundInv

\* A step of run r that writes no row.
LEMMA SoundLocal ==
    ASSUME SoundInv, NEW r \in Runs, policies' = policies, pending' = pending,
           \A q \in Runs \ {r} : Still(q),
           pc' \in [Runs -> {"idle"} \union AtWork \union Ended],
           documents' \in [Runs -> [Sources -> Contents \union {Absent}]],
           model' \in [Runs -> Models \union {NoModel}],
           existing' \in [Runs -> [Sources -> KnownPolicy \union {Absent}]],
           embeddings' \in [Runs -> Seq(Vector)],
           done' \in [Runs -> SUBSET Sources],
           pc[r] \in InTransaction => pc'[r] \in InTransaction,
           Working(r)'
    PROVE  SoundInv'
<1>1. PolicyTypeOK
    BY DEF SoundInv
<1>2. \A q \in Runs, s \in Sources :
          /\ Holds(q, s)' <=> Holds(q, s)
          /\ Taken(q, s)' <=> Taken(q, s)
    BY DEF Holds, Taken
<1>3. \A q \in Runs : pc[q] \in InTransaction => pc'[q] \in InTransaction
    BY DEF Still
<1>4. \A q \in Runs, s \in Sources : Holds(q, s)' => pc'[q] \in InTransaction /\ ~Taken(q, s)'
    BY <1>1, <1>2, <1>3 DEF PolicyTypeOK
<1>5. PolicyTypeOK'
    BY <1>1, <1>4, Zenon DEF PolicyTypeOK, Vector
<1>6. RowsAreCoherent'
    BY DEF SoundInv, RowsAreCoherent
<1>7. \A q \in Runs : Working(q)'
    BY StillWorking DEF SoundInv
<1> QED BY <1>5, <1>6, <1>7 DEF SoundInv

\* Nothing is held, planned or done by a run that is not in its transaction.
LEMMA Outside ==
    ASSUME SoundInv, NEW r \in Runs, pc[r] \notin InTransaction
    PROVE  done[r] = {} /\ embeddings[r] = <<>> /\ \A s \in Sources : ~Holds(r, s)
BY DEF SoundInv, Working

LEMMA SoundBegin ==
    ASSUME SoundInv, NEW r \in Runs, NEW m \in Models \union {NoModel}, NEW docs \in Checkouts,
           Begin(r, m, docs)
    PROVE  SoundInv'
<1>1. PolicyTypeOK /\ Vector = [text : Contents, model : Models]
    BY DEF SoundInv, Vector
<1>2. /\ policies' = policies /\ pending' = pending /\ existing' = existing
      /\ embeddings' = embeddings /\ done' = done
      /\ pc[r] = "idle"
    BY DEF Begin, locals
<1>3. done[r] = {} /\ embeddings[r] = <<>> /\ \A s \in Sources : ~Holds(r, s)
    BY <1>2, Outside DEF InTransaction
<1>4. \A s \in Sources : ~Holds(r, s)'
    BY <1>2, <1>3 DEF Holds
<1>5. CASE m # NoModel /\ Loaded(docs) # {} /\ \A s \in Sources : docs[s] # Blank
    <2>1. /\ pc' = [pc EXCEPT ![r] = "read"] /\ model' = [model EXCEPT ![r] = m]
          /\ documents' = [documents EXCEPT ![r] = docs]
        BY <1>5 DEF Begin, Become
    <2>2. docs \in [Sources -> Contents \union {Absent}]
        <3>1. docs \in [Sources -> Contents \union {Blank, Absent}]
            BY CheckoutsAssumption
        <3> QED BY <3>1, <1>5
    <2>3. documents' \in [Runs -> [Sources -> Contents \union {Absent}]]
        BY <2>1, <2>2, <1>1 DEF PolicyTypeOK
    <2>4. /\ pc' \in [Runs -> {"idle"} \union AtWork \union Ended]
          /\ model' \in [Runs -> Models \union {NoModel}]
        BY <2>1, <1>1 DEF PolicyTypeOK, AtWork
    <2>5. \A q \in Runs \ {r} : Still(q)
        BY <2>1, <1>1, <1>2 DEF PolicyTypeOK, Still
    <2>6. Working(r)'
        BY <2>1, <1>1, <1>2, <1>3, <1>4, <1>5 DEF PolicyTypeOK, Working, InTransaction
    <2> QED BY <2>3, <2>4, <2>5, <2>6, <1>1, <1>2, SoundLocal, Zenon DEF PolicyTypeOK, InTransaction
<1>6. CASE ~(m # NoModel /\ Loaded(docs) # {} /\ \A s \in Sources : docs[s] # Blank)
    <2>1. /\ pc' = [pc EXCEPT ![r] = "failed"] /\ model' = model /\ documents' = documents
        BY <1>6 DEF Begin, Become
    <2>2. pc' \in [Runs -> {"idle"} \union AtWork \union Ended]
        BY <2>1, <1>1 DEF PolicyTypeOK, Ended
    <2>3. \A q \in Runs \ {r} : Still(q)
        BY <2>1, <1>1, <1>2 DEF PolicyTypeOK, Still
    <2>4. Working(r)'
        BY <2>1, <1>1, <1>2, <1>3, <1>4 DEF PolicyTypeOK, Working, InTransaction, AtWork
    <2> QED BY <2>1, <2>2, <2>3, <2>4, <1>1, <1>2, SoundLocal, Zenon DEF PolicyTypeOK, InTransaction
<1> QED BY <1>5, <1>6

\* What a SELECT of the table finds.
Seen == [s \in Sources |-> IF policies[s] = Absent THEN Absent ELSE Known(policies[s])]

LEMMA SoundRead ==
    ASSUME SoundInv, NEW r \in Runs, Read(r)
    PROVE  SoundInv'
<1> DEFINE embed == ToEmbed(documents[r], model[r], Seen)
           to == IF embed = {} /\ ToNormalize(documents[r], model[r], Seen) = {}
                               /\ Stale(documents[r], Seen) = {}
                 THEN "skipped" ELSE IF embed = {} THEN "write" ELSE "embed"
<1>1. PolicyTypeOK /\ Vector = [text : Contents, model : Models]
    BY DEF SoundInv, Vector
<1>2. /\ policies' = policies /\ pending' = pending /\ documents' = documents
      /\ embeddings' = embeddings /\ done' = done /\ model' = model
      /\ pc[r] = "read" /\ pc' = [pc EXCEPT ![r] = to]
      /\ existing' = existing \/ existing' = [existing EXCEPT ![r] = Seen]
      /\ to # "skipped" => existing' = [existing EXCEPT ![r] = Seen]
    BY Zenon DEF Read, Become, Seen
<1>3. done[r] = {} /\ embeddings[r] = <<>> /\ \A s \in Sources : ~Holds(r, s)
    BY <1>2, Outside DEF InTransaction
<1>4. \A s \in Sources : ~Holds(r, s)'
    BY <1>2, <1>3 DEF Holds
<1>5. Seen \in [Sources -> KnownPolicy \union {Absent}]
    BY <1>1 DEF PolicyTypeOK, Seen, Policy, Known, KnownPolicy
<1>6. existing' \in [Runs -> [Sources -> KnownPolicy \union {Absent}]]
    BY <1>1, <1>2, <1>5 DEF PolicyTypeOK
<1>7. to \in {"skipped", "write", "embed"}
    OBVIOUS
<1>8. pc' \in [Runs -> {"idle"} \union AtWork \union Ended] /\ pc'[r] = to
    <2> HIDE DEF to
    <2> QED BY <1>1, <1>2, <1>7 DEF PolicyTypeOK, AtWork, Ended, InTransaction
<1>9. \A q \in Runs \ {r} : Still(q)
    BY <1>1, <1>2 DEF PolicyTypeOK, Still
<1>10. Working(r)'
    <2>1. model'[r] \in Models
        BY <1>2 DEF SoundInv, Working, AtWork
    <2>2. done'[r] = {} /\ embeddings'[r] = <<>> /\ pc'[r] # "delete"
        BY <1>2, <1>3, <1>7, <1>8
    <2>3. to = "write" => embeddings'[r] = Vectors(r, Embeds(r))'
        <3> SUFFICES ASSUME to = "write" PROVE embeddings'[r] = Vectors(r, Embeds(r))'
            OBVIOUS
        <3>1. embed = {}
            OBVIOUS
        <3>2. existing'[r] = Seen
            BY <1>1, <1>2 DEF PolicyTypeOK
        <3>3. Embeds(r)' = {}
            BY <3>1, <3>2, <1>2 DEF Embeds
        <3>4. Vectors(r, Embeds(r))' = <<>>
            BY <3>3, FS_EmptySet DEF Vectors
        <3> QED BY <3>4, <1>2, <1>3
    <2> QED BY <2>1, <2>2, <2>3, <1>4, <1>7, <1>8 DEF Working, InTransaction
<1> QED BY <1>1, <1>2, <1>6, <1>8, <1>9, <1>10, SoundLocal, Zenon DEF PolicyTypeOK, InTransaction

LEMMA SoundEmbed ==
    ASSUME SoundInv, NEW r \in Runs, Embed(r)
    PROVE  SoundInv'
<1>1. PICK answer \in Answers(r) :
          IF Len(answer) = Cardinality(Embeds(r))
          THEN /\ embeddings' = [embeddings EXCEPT ![r] = answer]
               /\ Become(r, "write")
               /\ UNCHANGED <<policies, documents, model, existing, done, pending>>
          ELSE Fail(r)
    BY DEF Embed
<1>2. CASE Len(answer) # Cardinality(Embeds(r))
    BY <1>1, <1>2, SoundFail
<1>3. CASE Len(answer) = Cardinality(Embeds(r))
    <2>1. /\ PolicyTypeOK /\ Vector = [text : Contents, model : Models] /\ pc[r] = "embed"
          /\ model[r] \in Models
        BY DEF SoundInv, Vector, Embed, Working, AtWork
    <2>2. answer = Vectors(r, Embeds(r))
        <3> DEFINE all == Vectors(r, Embeds(r))
        <3>1. Len(Append(all, all[1])) # Cardinality(Embeds(r))
            <4>1. all \in Seq(Vector) /\ Len(all) = Cardinality(Embeds(r))
                BY <2>1, VectorsType
            <4> HIDE DEF all
            <4> QED BY <4>1
        <3>2. PICK S \in SUBSET Embeds(r) : answer = Vectors(r, S)
            BY <1>3, <3>1 DEF Answers
        <3>3. S = Embeds(r)
            BY <1>3, <2>1, <3>2, SomeVectors, FS_Subset
        <3> QED BY <3>2, <3>3
    <2>3. /\ policies' = policies /\ pending' = pending /\ documents' = documents
          /\ existing' = existing /\ done' = done /\ model' = model
          /\ pc' = [pc EXCEPT ![r] = "write"]
          /\ embeddings' = [embeddings EXCEPT ![r] = Vectors(r, Embeds(r))]
        BY <1>1, <1>3, <2>2 DEF Become
    <2>4. model[r] \in Models
        BY <2>1
    <2>5. embeddings' \in [Runs -> Seq(Vector)]
        <3>1. embeddings \in [Runs -> Seq(Vector)]
            BY <2>1, Zenon DEF PolicyTypeOK
        <3>2. Vectors(r, Embeds(r)) \in Seq(Vector)
            BY <2>1, <2>4, VectorsType
        <3> QED BY <3>1, <3>2, <2>3
    <2>6. pc' \in [Runs -> {"idle"} \union AtWork \union Ended]
        BY <2>1, <2>3 DEF PolicyTypeOK, AtWork, InTransaction
    <2>7. \A q \in Runs \ {r} : Still(q)
        BY <2>1, <2>3 DEF PolicyTypeOK, Still
    <2>8. Working(r)'
        <3>1. done[r] = {} /\ \A s \in Sources : ~Holds(r, s)
            BY <2>1, Outside DEF InTransaction
        <3>2. \A s \in Sources : ~Holds(r, s)'
            BY <3>1, <2>3 DEF Holds
        <3>3. /\ pc'[r] = "write" /\ model'[r] \in Models /\ done'[r] = {}
              /\ embeddings'[r] = Vectors(r, Embeds(r))
            BY <2>1, <2>3, <2>4, <3>1 DEF PolicyTypeOK
        <3>4. Vectors(r, Embeds(r))' = Vectors(r, Embeds(r))
            BY <2>3, StillViews
        <3> QED BY <3>2, <3>3, <3>4 DEF Working, InTransaction
    <2> QED BY <2>1, <2>3, <2>5, <2>6, <2>7, <2>8, SoundLocal, Zenon DEF PolicyTypeOK, InTransaction
<1> QED BY <1>2, <1>3

LEMMA SoundDeleteBegin ==
    ASSUME SoundInv, NEW r \in Runs, DeleteBegin(r)
    PROVE  SoundInv'
<1> DEFINE gone == {s \in Removes(r) : policies[s] = Absent}
<1>1. PolicyTypeOK /\ Vector = [text : Contents, model : Models] /\ Working(r)
    BY DEF SoundInv, Vector
<1>2. /\ policies' = policies /\ pending' = pending /\ documents' = documents
      /\ existing' = existing /\ embeddings' = embeddings /\ model' = model
      /\ pc' = [pc EXCEPT ![r] = "delete"]
      /\ done' = [done EXCEPT ![r] = @ \union gone]
      /\ pc[r] = "write" /\ Zipped(r) \union Normalizes(r) \subseteq done[r]
    BY DEF DeleteBegin, Become, Written, Embedded
<1>3. gone \subseteq Removes(r) /\ Removes(r) \subseteq Sources
    BY PlanType
<1> HIDE DEF gone
<1>4. done' \in [Runs -> SUBSET Sources]
    BY <1>1, <1>2, <1>3 DEF PolicyTypeOK
<1>5. pc' \in [Runs -> {"idle"} \union AtWork \union Ended]
    BY <1>1, <1>2 DEF PolicyTypeOK, AtWork, InTransaction
<1>6. \A q \in Runs \ {r} : Still(q)
    BY <1>1, <1>2 DEF PolicyTypeOK, Still
<1>7. Working(r)'
    <2>1. Zipped(r) = Embeds(r)
        BY <1>2, NewRowIsImage DEF InTransaction
    <2>2. done'[r] = done[r] \union gone /\ pc'[r] = "delete"
        BY <1>1, <1>2 DEF PolicyTypeOK
    <2>3. /\ Embeds(r)' = Embeds(r) /\ Normalizes(r)' = Normalizes(r) /\ Plan(r)' = Plan(r)
          /\ Vectors(r, Embeds(r))' = Vectors(r, Embeds(r))
        BY <1>2, StillViews
    <2>4. done'[r] \subseteq Plan(r)
        BY <1>1, <1>3, <2>2 DEF Working, Plan
    <2>5. model[r] \in Models /\ embeddings[r] = Vectors(r, Embeds(r))
        BY <1>1, <1>2 DEF Working, AtWork, InTransaction
    <2>6. \A s \in Sources :
              /\ Holds(r, s)' => s \in done'[r]
              /\ Holds(r, s)' /\ pending'[r][s] # Absent => Coherent(pending'[r][s])
        BY <1>1, <1>2, <2>2 DEF Working, Holds
    <2> QED BY <1>2, <2>1, <2>2, <2>3, <2>4, <2>5, <2>6 DEF Working, InTransaction, Coherent
<1> QED BY <1>1, <1>2, <1>4, <1>5, <1>6, <1>7, SoundLocal, Zenon DEF PolicyTypeOK, InTransaction

\* What each statement of the transaction writes, and that it may.
LEMMA WriteEmbeddedWrites ==
    ASSUME SoundInv, NEW r \in Runs, WriteEmbedded(r)
    PROVE  \/ Fail(r)
           \/ \E s \in Embeds(r) :
                 /\ pc[r] = "write" /\ s \notin done[r]
                 /\ \/ existing[r][s] # Absent /\ policies[s] = Absent /\ Wrote(r, s, Unchanged)
                    \/ Wrote(r, s, Image(r, s)) /\ ~Taken(r, s)
                       /\ Image(r, s) \in Policy /\ Coherent(Image(r, s))
<1>1. pc[r] = "write"
    BY DEF WriteEmbedded
<1>2. /\ Zipped(r) = Embeds(r) /\ ~Unequal(r)
      /\ \A s \in Embeds(r) :
            NewRow(r, s) = Image(r, s) /\ NewRow(r, s) \in Policy /\ Coherent(NewRow(r, s))
    BY <1>1, NewRowIsImage DEF InTransaction
<1>3. PICK s \in Sources :
          /\ First(Zipped(r) \ done[r], s)
          /\ IF existing[r][s] # Absent
             THEN IF policies[s] = Absent
                  THEN Wrote(r, s, Unchanged)
                  ELSE ~Taken(r, s) /\ Wrote(r, s, NewRow(r, s))
             ELSE /\ ~Taken(r, s)
                  /\ IF policies[s] = Absent THEN Wrote(r, s, NewRow(r, s)) ELSE Fail(r)
    BY <1>2 DEF WriteEmbedded
<1>4. s \in Embeds(r) /\ s \notin done[r]
    BY <1>2, <1>3 DEF First
<1>5. NewRow(r, s) = Image(r, s) /\ Image(r, s) \in Policy /\ Coherent(Image(r, s))
    BY <1>2, <1>4
<1> QED BY <1>1, <1>3, <1>4, <1>5

LEMMA NormalizeWrites ==
    ASSUME SoundInv, NEW r \in Runs, Normalize(r)
    PROVE  \E s \in Normalizes(r) :
              /\ pc[r] = "write" /\ s \notin done[r]
              /\ \/ policies[s] = Absent /\ Wrote(r, s, Unchanged)
                 \/ /\ policies[s] # Absent /\ ~Taken(r, s)
                    /\ Wrote(r, s, [policies[s] EXCEPT !.id = "stable"])
                    /\ [policies[s] EXCEPT !.id = "stable"] \in Policy
                    /\ Coherent([policies[s] EXCEPT !.id = "stable"])
<1>1. PICK s \in Sources :
          /\ First(Normalizes(r) \ done[r], s)
          /\ IF policies[s] = Absent
             THEN Wrote(r, s, Unchanged)
             ELSE ~Taken(r, s) /\ Wrote(r, s, [policies[s] EXCEPT !.id = "stable"])
    BY DEF Normalize
<1>2. s \in Normalizes(r) /\ s \notin done[r] /\ pc[r] = "write"
    BY <1>1 DEF First, Normalize
<1>3. ASSUME policies[s] # Absent
      PROVE  /\ [policies[s] EXCEPT !.id = "stable"] \in Policy
             /\ Coherent([policies[s] EXCEPT !.id = "stable"])
    <2>1. policies[s] \in Policy /\ Coherent(policies[s])
        BY <1>3 DEF SoundInv, PolicyTypeOK, RowsAreCoherent
    <2> QED BY <2>1 DEF Policy, Coherent
<1> QED BY <1>1, <1>2, <1>3

LEMMA DeleteRowWrites ==
    ASSUME NEW r \in Runs, DeleteRow(r)
    PROVE  \E s \in Removes(r) :
              pc[r] = "delete" /\ s \notin done[r] /\ ~Taken(r, s) /\ Wrote(r, s, Absent)
BY DEF DeleteRow

LEMMA SoundNext == SoundInv /\ [SyncNext]_syncVars => SoundInv'
<1> SUFFICES ASSUME SoundInv, [SyncNext]_syncVars PROVE SoundInv'
    OBVIOUS
<1>1. ASSUME NEW r \in Runs, NEW m \in Models \union {NoModel}, NEW docs \in Checkouts,
             Begin(r, m, docs)
      PROVE  SoundInv'
    BY <1>1, SoundBegin
<1>2. ASSUME NEW r \in Runs, Read(r) PROVE SoundInv'
    BY <1>2, SoundRead
<1>3. ASSUME NEW r \in Runs, Embed(r) PROVE SoundInv'
    BY <1>3, SoundEmbed
<1>4. ASSUME NEW r \in Runs, WriteEmbedded(r) PROVE SoundInv'
    <2>1. CASE Fail(r)
        BY <2>1, SoundFail
    <2>2. ASSUME NEW s \in Embeds(r), pc[r] = "write", Wrote(r, s, Unchanged) PROVE SoundInv'
        BY <2>2, SoundWrote, NamesAssumption DEF InTransaction, Plan
    <2>3. ASSUME NEW s \in Embeds(r), pc[r] = "write", Wrote(r, s, Image(r, s)), ~Taken(r, s),
                 Image(r, s) \in Policy, Coherent(Image(r, s))
          PROVE  SoundInv'
        BY <2>3, SoundWrote DEF InTransaction, Plan
    <2> QED BY <1>4, <2>1, <2>2, <2>3, WriteEmbeddedWrites
<1>5. ASSUME NEW r \in Runs, Normalize(r) PROVE SoundInv'
    <2>1. ASSUME NEW s \in Normalizes(r), pc[r] = "write", Wrote(r, s, Unchanged)
          PROVE  SoundInv'
        BY <2>1, SoundWrote, NamesAssumption DEF InTransaction, Plan
    <2>2. ASSUME NEW s \in Normalizes(r), NEW p \in Policy, pc[r] = "write", Wrote(r, s, p),
                 ~Taken(r, s), Coherent(p)
          PROVE  SoundInv'
        BY <2>2, SoundWrote DEF InTransaction, Plan
    <2> QED BY <1>5, <2>1, <2>2, NormalizeWrites
<1>6. ASSUME NEW r \in Runs, DeleteBegin(r) PROVE SoundInv'
    BY <1>6, SoundDeleteBegin
<1>7. ASSUME NEW r \in Runs, DeleteRow(r) PROVE SoundInv'
    <2>1. ASSUME NEW s \in Removes(r), pc[r] = "delete", Wrote(r, s, Absent), ~Taken(r, s)
          PROVE  SoundInv'
        BY <2>1, SoundWrote, NamesAssumption DEF InTransaction, Plan
    <2> QED BY <1>7, <2>1, DeleteRowWrites
<1>8. ASSUME NEW r \in Runs, Commit(r) PROVE SoundInv'
    BY <1>8, SoundCommit
<1>9. ASSUME NEW r \in Runs, Fail(r) PROVE SoundInv'
    BY <1>9, SoundFail
<1>10. CASE UNCHANGED syncVars
    <2>1. /\ policies' = policies /\ pc' = pc /\ documents' = documents /\ model' = model
          /\ existing' = existing /\ embeddings' = embeddings /\ done' = done /\ pending' = pending
        BY <1>10 DEF syncVars, locals
    <2>2. \A r \in Runs : Still(r)
        BY <2>1 DEF Still
    <2>3. PolicyTypeOK' /\ RowsAreCoherent'
        BY <2>1 DEF SoundInv, PolicyTypeOK, RowsAreCoherent, Holds, Taken, Coherent
    <2> QED BY <2>2, <2>3, StillWorking DEF SoundInv
<1> QED
    BY <1>1, <1>2, <1>3, <1>4, <1>5, <1>6, <1>7, <1>8, <1>9, <1>10
    DEF SyncNext, RunStep, Fault, BreakDeadlock

LEMMA SoundAlways == SyncSpec => []SoundInv
BY SoundInit, SoundNext, PTL DEF SyncSpec

\* A run outside its transaction holds no row, and no row has two holders,
\* whatever runs overlap, wait, deadlock or fail.
THEOREM SyncTypeCorrect == SyncSpec => []PolicyTypeOK
<1>1. SoundInv => PolicyTypeOK
    BY DEF SoundInv
<1> QED BY <1>1, SoundAlways, PTL

\* Every committed row carries the embedding of its own text by its own model
\* (seed_policy_documents.py:94-125), for any runs, documents and models.
THEOREM CoherentTable == SyncSpec => []RowsAreCoherent
<1>1. SoundInv => RowsAreCoherent
    BY DEF SoundInv
<1> QED BY <1>1, SoundAlways, PTL

-----------------------------------------------------------------------------
(***************************************************************************)
(* What a run believes of a source is true of the table as long as nothing *)
(* that opposes it has been committed: a commit that agrees leaves the row *)
(* that the run itself would leave.                                        *)
(***************************************************************************)
Planned(r) == pc[r] \in {"embed"} \union InTransaction

\* A row but for its id, which a normalisation makes stable.
Stabilized(p) == [p EXCEPT !.id = "stable"]

\* What the plan, and the part of it that is executed, has to do with the row.
PlanFits(r, s) ==
    /\ s \notin Plan(r) => policies[s] = Image(r, s)
    /\ s \in Embeds(r) /\ existing[r][s] # Absent => policies[s] # Absent
    /\ s \in Normalizes(r) => policies[s] # Absent /\ Stabilized(policies[s]) = Image(r, s)
    /\ s \in Embeds(r) \union Normalizes(r) /\ s \in done[r] => pending[r][s] = Image(r, s)
    /\ s \in Removes(r) => pending[r][s] \in {Unchanged, Absent}
    /\ s \in Removes(r) /\ s \in done[r] => pending[r][s] = Absent \/ policies[s] = Absent

Facts(r, s) ==
    Unopposed(r, s) =>
        /\ Successful(r) => policies[s] = Image(r, s)
        /\ Planned(r) => PlanFits(r, s)

MirrorInv == SoundInv /\ \A r \in Runs, s \in Sources : Facts(r, s)

LEMMA MirrorInit == SyncInit => MirrorInv
<1>1. SyncInit => \A r \in Runs, s \in Sources : Facts(r, s)
    BY DEF SyncInit, Facts, Successful, Planned, InTransaction
<1> QED BY <1>1, SoundInit DEF MirrorInv

\* An image is a sound row with the stable id, or no row.
LEMMA ImageType ==
    ASSUME SoundInv, NEW r \in Runs, NEW s \in Sources, model[r] \in Models
    PROVE  /\ documents[r][s] = Absent => Image(r, s) = Absent
           /\ documents[r][s] # Absent =>
                 /\ Image(r, s) \in Policy /\ Image(r, s) # Absent /\ Image(r, s) # Unchanged
                 /\ Stabilized(Image(r, s)) = Image(r, s)
<1>1. SUFFICES ASSUME documents[r][s] # Absent
               PROVE  /\ Image(r, s) \in Policy /\ Stabilized(Image(r, s)) = Image(r, s)
    BY NamesAssumption DEF Image
<1>2. documents[r][s] \in Contents
    BY <1>1 DEF SoundInv, PolicyTypeOK
<1>3. Image(r, s) = [id |-> "stable", content |-> documents[r][s],
                     embedding |-> Embedding(documents[r][s], model[r]),
                     embedding_model |-> model[r]]
    BY <1>1 DEF Image
<1> QED BY <1>2, <1>3 DEF Policy, Embedding, Stabilized

\* A step of run r that commits nothing.
Quiet(r) ==
    /\ policies' = policies /\ pc[r] # "complete" /\ pc'[r] # "complete"
    /\ \A q \in Runs \ {r} : Still(q)

LEMMA QuietViews ==
    ASSUME NEW r \in Runs, Quiet(r), NEW q \in Runs, NEW s \in Sources,
           documents'[q] = documents[q], model'[q] = model[q]
    PROVE  /\ Image(q, s)' = Image(q, s)
           /\ Unopposed(q, s)' => Unopposed(q, s)
<1>1. Image(q, s)' = Image(q, s)
    BY DEF Image
<1>2. ASSUME Unopposed(q, s)', NEW u \in Runs, pc[u] = "complete"
      PROVE  Image(u, s) = Image(q, s)
    <2>1. Still(u)
        BY <1>2 DEF Quiet
    <2>2. Image(u, s)' = Image(u, s) /\ pc'[u] = "complete"
        BY <1>2, <2>1 DEF Still, Image
    <2> QED BY <1>1, <1>2, <2>2 DEF Unopposed
<1> QED BY <1>1, <1>2 DEF Unopposed

LEMMA QuietFacts ==
    ASSUME MirrorInv, NEW r \in Runs, Quiet(r), NEW q \in Runs \ {r}, NEW s \in Sources
    PROVE  Facts(q, s)'
<1>1. Still(q) /\ policies' = policies
    BY DEF Quiet
<1>2. Image(q, s)' = Image(q, s) /\ (Unopposed(q, s)' => Unopposed(q, s))
    BY <1>1, QuietViews DEF Still
<1>3. /\ Embeds(q)' = Embeds(q) /\ Normalizes(q)' = Normalizes(q)
      /\ Removes(q)' = Removes(q) /\ Plan(q)' = Plan(q)
    BY <1>1, StillViews DEF Still
<1>4. (Successful(q)' <=> Successful(q)) /\ (Planned(q)' <=> Planned(q))
    BY <1>1 DEF Still, Successful, Planned
<1>5. PlanFits(q, s) => PlanFits(q, s)'
    BY <1>1, <1>2, <1>3 DEF PlanFits, Still, Stabilized
<1>6. Facts(q, s)
    BY DEF MirrorInv
<1> QED BY <1>1, <1>2, <1>4, <1>5, <1>6 DEF Facts

\* A run that begins, or fails, believes nothing.
LEMMA QuietReset ==
    ASSUME MirrorInv, NEW r \in Runs, Quiet(r), pc'[r] \in {"read", "failed"}
    PROVE  \A q \in Runs, s \in Sources : Facts(q, s)'
<1>1. \A s \in Sources : Facts(r, s)'
    BY DEF Facts, Successful, Planned, InTransaction
<1> QED BY <1>1, QuietFacts

LEMMA MirrorFail ==
    ASSUME MirrorInv, NEW r \in Runs, pc[r] \in AtWork, Fail(r)
    PROVE  \A q \in Runs, s \in Sources : Facts(q, s)'
<1>1. PolicyTypeOK
    BY DEF MirrorInv, SoundInv
<1>2. Quiet(r) /\ pc'[r] = "failed"
    BY <1>1 DEF Fail, Forget, Become, Quiet, Still, PolicyTypeOK, AtWork, InTransaction
<1> QED BY <1>2, QuietReset

LEMMA MirrorBegin ==
    ASSUME MirrorInv, NEW r \in Runs, NEW m \in Models \union {NoModel}, NEW docs \in Checkouts,
           Begin(r, m, docs)
    PROVE  \A q \in Runs, s \in Sources : Facts(q, s)'
<1>1. PolicyTypeOK
    BY DEF MirrorInv, SoundInv
<1>2. CASE m # NoModel /\ Loaded(docs) # {} /\ \A s \in Sources : docs[s] # Blank
    <2>1. Quiet(r) /\ pc'[r] = "read"
        BY <1>1, <1>2 DEF Begin, Become, locals, Quiet, Still, PolicyTypeOK
    <2> QED BY <2>1, QuietReset
<1>3. CASE ~(m # NoModel /\ Loaded(docs) # {} /\ \A s \in Sources : docs[s] # Blank)
    <2>1. Quiet(r) /\ pc'[r] = "failed"
        BY <1>1, <1>3 DEF Begin, Become, locals, Quiet, Still, PolicyTypeOK
    <2> QED BY <2>1, QuietReset
<1> QED BY <1>2, <1>3

\* What the plan of a run says of a row that it has just seen.
LEMMA SeenFits ==
    ASSUME SoundInv, NEW r \in Runs, NEW s \in Sources, model[r] \in Models
    PROVE  /\ s \notin ToEmbed(documents[r], model[r], Seen)
                       \union ToNormalize(documents[r], model[r], Seen)
                       \union Stale(documents[r], Seen) => policies[s] = Image(r, s)
           /\ Seen[s] # Absent => policies[s] # Absent
           /\ s \in ToNormalize(documents[r], model[r], Seen) =>
                 policies[s] # Absent /\ Stabilized(policies[s]) = Image(r, s)
<1>1. policies[s] \in Policy \union {Absent} /\ (policies[s] # Absent => Coherent(policies[s]))
    BY DEF SoundInv, PolicyTypeOK, RowsAreCoherent
<1>2. Seen[s] = IF policies[s] = Absent THEN Absent ELSE Known(policies[s])
    BY DEF Seen
<1>3. policies[s] # Absent => Seen[s] = Known(policies[s]) /\ Seen[s] # Absent
    BY <1>1, <1>2, NamesAssumption DEF Known, Policy, KnownPolicy
<1>4. ASSUME policies[s] # Absent, documents[r][s] # Absent,
             policies[s].content = documents[r][s], policies[s].embedding_model = model[r]
      PROVE  /\ Stabilized(policies[s]) = Image(r, s)
             /\ policies[s].id = "stable" => policies[s] = Image(r, s)
    BY <1>1, <1>4 DEF Stabilized, Image, Coherent, Embedding, Policy
<1>5. /\ policies[s] # Absent => /\ Seen[s].id = policies[s].id
                                 /\ Seen[s].content = policies[s].content
                                 /\ Seen[s].embedding_model = policies[s].embedding_model
    BY <1>3 DEF Known
<1>6. ASSUME s \in ToNormalize(documents[r], model[r], Seen)
      PROVE  policies[s] # Absent /\ Stabilized(policies[s]) = Image(r, s)
    BY <1>2, <1>4, <1>5, <1>6 DEF ToNormalize, ToEmbed, Loaded
<1>7. ASSUME s \notin ToEmbed(documents[r], model[r], Seen)
                       \union ToNormalize(documents[r], model[r], Seen)
                       \union Stale(documents[r], Seen)
      PROVE  policies[s] = Image(r, s)
    <2>1. CASE documents[r][s] = Absent
        BY <1>3, <1>7, <2>1 DEF Stale, Loaded, Image
    <2>2. CASE documents[r][s] # Absent
        BY <1>2, <1>4, <1>5, <1>7, <2>2 DEF ToNormalize, ToEmbed, Loaded
    <2> QED BY <2>1, <2>2
<1> QED BY <1>2, <1>6, <1>7

\* A run that finds nothing to do finds its image; any other makes a plan that
\* fits what it has seen.
LEMMA ReadFits ==
    ASSUME SoundInv, NEW r \in Runs, Read(r)
    PROVE  /\ pc[r] = "read" /\ pc'[r] \in {"skipped", "write", "embed"}
           /\ policies' = policies /\ \A q \in Runs \ {r} : Still(q)
           /\ documents' = documents /\ model' = model
           /\ \A s \in Sources : IF pc'[r] = "skipped"
                                 THEN policies[s] = Image(r, s)
                                 ELSE PlanFits(r, s)'
<1> DEFINE embed == ToEmbed(documents[r], model[r], Seen)
           normalize == ToNormalize(documents[r], model[r], Seen)
           stale == Stale(documents[r], Seen)
           to == IF embed = {} /\ normalize = {} /\ stale = {}
                 THEN "skipped" ELSE IF embed = {} THEN "write" ELSE "embed"
<1>1. PolicyTypeOK /\ Working(r)
    BY DEF SoundInv
<1>2. /\ policies' = policies /\ pending' = pending /\ documents' = documents
      /\ embeddings' = embeddings /\ done' = done /\ model' = model
      /\ pc[r] = "read" /\ pc' = [pc EXCEPT ![r] = to]
      /\ existing' = existing \/ existing' = [existing EXCEPT ![r] = Seen]
      /\ to # "skipped" => existing' = [existing EXCEPT ![r] = Seen]
    BY Zenon DEF Read, Become, Seen
<1>3. /\ to \in {"skipped", "write", "embed"}
      /\ to = "skipped" => embed = {} /\ normalize = {} /\ stale = {}
    OBVIOUS
<1>4. pc'[r] = to /\ \A q \in Runs \ {r} : Still(q)
    <2> HIDE DEF to
    <2> QED BY <1>1, <1>2 DEF PolicyTypeOK, Still
<1>5. done[r] = {} /\ \A s \in Sources : pending[r][s] = Unchanged
    BY <1>2, Outside DEF InTransaction, Holds
<1>6. model[r] \in Models
    BY <1>1, <1>2 DEF Working, AtWork
<1>7. ASSUME NEW s \in Sources, to = "skipped" PROVE policies[s] = Image(r, s)
    BY <1>3, <1>6, <1>7, SeenFits
<1>8. ASSUME NEW s \in Sources, to # "skipped" PROVE PlanFits(r, s)'
    <2>1. existing'[r] = Seen
        BY <1>1, <1>2, <1>8 DEF PolicyTypeOK
    <2>2. /\ Embeds(r)' = embed /\ Normalizes(r)' = normalize /\ Removes(r)' = stale
          /\ Plan(r)' = embed \union normalize \union stale
        BY <1>2, <2>1 DEF Embeds, Normalizes, Removes, Plan
    <2>3. Image(r, s)' = Image(r, s)
        BY <1>2 DEF Image
    <2> HIDE DEF embed, normalize, stale
    <2>4. /\ s \notin embed \union normalize \union stale => policies[s] = Image(r, s)
          /\ Seen[s] # Absent => policies[s] # Absent
          /\ s \in normalize =>
                policies[s] # Absent /\ Stabilized(policies[s]) = Image(r, s)
        BY <1>6, SeenFits DEF embed, normalize, stale
    <2> QED BY <1>2, <1>5, <2>1, <2>2, <2>3, <2>4 DEF PlanFits, Stabilized
<1> HIDE DEF to
<1> QED BY <1>2, <1>3, <1>4, <1>7, <1>8

LEMMA MirrorRead ==
    ASSUME MirrorInv, NEW r \in Runs, Read(r)
    PROVE  \A q \in Runs, s \in Sources : Facts(q, s)'
<1>1. /\ pc[r] = "read" /\ pc'[r] \in {"skipped", "write", "embed"}
      /\ policies' = policies /\ \A q \in Runs \ {r} : Still(q)
      /\ documents' = documents
      /\ \A s \in Sources : IF pc'[r] = "skipped"
                            THEN policies[s] = Image(r, s)
                            ELSE PlanFits(r, s)'
    BY ReadFits DEF MirrorInv
<1>2. Quiet(r)
    BY <1>1 DEF Quiet
<1>3. ASSUME NEW s \in Sources PROVE Facts(r, s)'
    <2>1. Image(r, s)' = Image(r, s)
        BY ReadFits DEF MirrorInv, Image
    <2>2. CASE pc'[r] = "skipped"
        BY <1>1, <2>1, <2>2 DEF Facts, Planned, InTransaction
    <2>3. CASE pc'[r] # "skipped"
        BY <1>1, <2>3 DEF Facts, Successful
    <2> QED BY <2>2, <2>3
<1> QED BY <1>2, <1>3, QuietFacts

LEMMA MirrorEmbed ==
    ASSUME MirrorInv, NEW r \in Runs, Embed(r)
    PROVE  \A q \in Runs, s \in Sources : Facts(q, s)'
<1>1. PolicyTypeOK /\ pc[r] = "embed"
    BY DEF MirrorInv, SoundInv, Embed
<1>2. CASE Fail(r)
    BY <1>1, <1>2, MirrorFail DEF AtWork
<1>3. ASSUME NEW v, embeddings' = [embeddings EXCEPT ![r] = v], Become(r, "write"),
             UNCHANGED <<policies, documents, model, existing, done, pending>>
      PROVE  \A q \in Runs, s \in Sources : Facts(q, s)'
    <2>1. Quiet(r) /\ pc'[r] = "write"
        BY <1>1, <1>3 DEF Quiet, Still, Become, PolicyTypeOK
    <2>2. ASSUME NEW s \in Sources PROVE Facts(r, s)'
        <3>1. Image(r, s)' = Image(r, s) /\ (Unopposed(r, s)' => Unopposed(r, s))
            BY <1>3, <2>1, QuietViews
        <3>2. /\ Embeds(r)' = Embeds(r) /\ Normalizes(r)' = Normalizes(r)
              /\ Removes(r)' = Removes(r) /\ Plan(r)' = Plan(r)
            BY <1>3, StillViews
        <3>3. PlanFits(r, s) => PlanFits(r, s)'
            BY <1>3, <3>1, <3>2 DEF PlanFits, Stabilized
        <3>4. Facts(r, s) /\ Planned(r) /\ ~Successful(r)'
            BY <1>1, <2>1 DEF MirrorInv, Planned, Successful
        <3> QED BY <3>1, <3>3, <3>4 DEF Facts
    <2> QED BY <2>1, <2>2, QuietFacts
<1> QED BY <1>2, <1>3 DEF Embed

\* A statement that writes the run's image leaves its plan as it was.
LEMMA WroteFits ==
    ASSUME PolicyTypeOK, NEW r \in Runs, NEW s \in Plan(r), NEW p, Wrote(r, s, p),
           NEW t \in Sources, PlanFits(r, t), t = s => p = Image(r, s)
    PROVE  PlanFits(r, t)'
<1>1. /\ policies' = policies /\ documents' = documents /\ model' = model
      /\ existing' = existing
      /\ done' = [done EXCEPT ![r] = @ \union {s}]
      /\ pending' = [pending EXCEPT ![r][s] = p]
    BY DEF Wrote
<1>2. s \in Sources
    BY PlanType DEF Plan
<1>3. /\ done'[r] = done[r] \union {s} /\ pending'[r][s] = p
      /\ \A u \in Sources \ {s} : pending'[r][u] = pending[r][u]
    BY <1>1, <1>2 DEF PolicyTypeOK
<1>4. /\ Embeds(r)' = Embeds(r) /\ Normalizes(r)' = Normalizes(r)
      /\ Removes(r)' = Removes(r) /\ Plan(r)' = Plan(r)
      /\ Image(r, t)' = Image(r, t)
    BY <1>1, StillViews
<1>5. CASE t = s
    <2>1. t \in Removes(r) => pending'[r][t] = Absent
        BY <1>3, <1>5, PlanType DEF Image
    <2>2. pending'[r][t] = Image(r, t)
        BY <1>3, <1>5
    <2> QED BY <1>1, <1>4, <2>1, <2>2 DEF PlanFits, Stabilized
<1>6. CASE t # s
    BY <1>1, <1>3, <1>4, <1>6 DEF PlanFits, Stabilized
<1> QED BY <1>5, <1>6

LEMMA MirrorWrote ==
    ASSUME MirrorInv, NEW r \in Runs, NEW s \in Plan(r), pc[r] \in InTransaction, NEW p,
           Wrote(r, s, p),
           Unopposed(r, s) => p = Image(r, s)
    PROVE  \A q \in Runs, t \in Sources : Facts(q, t)'
<1>1. PolicyTypeOK
    BY DEF MirrorInv, SoundInv
<1>2. /\ policies' = policies /\ documents' = documents /\ model' = model
      /\ pc' = pc /\ existing' = existing /\ embeddings' = embeddings
      /\ done' = [done EXCEPT ![r] = @ \union {s}]
      /\ pending' = [pending EXCEPT ![r][s] = p]
    BY DEF Wrote
<1>3. Quiet(r)
    BY <1>1, <1>2 DEF Quiet, Still, PolicyTypeOK, InTransaction
<1>4. ASSUME NEW t \in Sources PROVE Facts(r, t)'
    <2>1. Image(r, t)' = Image(r, t) /\ (Unopposed(r, t)' => Unopposed(r, t))
        BY <1>2, <1>3, QuietViews
    <2>2. Facts(r, t) /\ Planned(r) /\ ~Successful(r)'
        BY <1>2 DEF MirrorInv, Planned, Successful, InTransaction
    <2>3. ASSUME Unopposed(r, t) PROVE PlanFits(r, t)'
        <3>1. PlanFits(r, t)
            BY <2>2, <2>3 DEF Facts
        <3> QED BY <1>1, <2>3, <3>1, WroteFits
    <2> QED BY <2>1, <2>2, <2>3 DEF Facts
<1> QED BY <1>3, <1>4, QuietFacts

\* The rows that are gone when the DELETE begins are as the plan wants them.
LEMMA DeleteBeginFits ==
    ASSUME PolicyTypeOK, NEW r \in Runs, DeleteBegin(r), NEW s \in Sources, PlanFits(r, s)
    PROVE  PlanFits(r, s)'
<1> DEFINE gone == {u \in Removes(r) : policies[u] = Absent}
<1>1. /\ policies' = policies /\ pending' = pending /\ documents' = documents
      /\ existing' = existing /\ model' = model
      /\ done' = [done EXCEPT ![r] = @ \union gone]
    BY DEF DeleteBegin
<1>2. s \in gone => s \notin Embeds(r) \union Normalizes(r) /\ policies[s] = Absent
    BY PlanType
<1> HIDE DEF gone
<1>3. done'[r] = done[r] \union gone
    BY <1>1 DEF PolicyTypeOK
<1>4. /\ Embeds(r)' = Embeds(r) /\ Normalizes(r)' = Normalizes(r)
      /\ Removes(r)' = Removes(r) /\ Plan(r)' = Plan(r)
      /\ Image(r, s)' = Image(r, s)
    BY <1>1, StillViews
<1> QED BY <1>1, <1>2, <1>3, <1>4 DEF PlanFits, Stabilized

LEMMA MirrorDeleteBegin ==
    ASSUME MirrorInv, NEW r \in Runs, DeleteBegin(r)
    PROVE  \A q \in Runs, s \in Sources : Facts(q, s)'
<1>1. PolicyTypeOK
    BY DEF MirrorInv, SoundInv
<1>2. /\ policies' = policies /\ documents' = documents /\ model' = model
      /\ pc[r] = "write" /\ pc'[r] = "delete"
    BY <1>1 DEF DeleteBegin, Become, Written, PolicyTypeOK
<1>3. Quiet(r)
    BY <1>1, <1>2 DEF DeleteBegin, Become, Quiet, Still, PolicyTypeOK
<1>4. ASSUME NEW s \in Sources PROVE Facts(r, s)'
    <2>1. Unopposed(r, s)' => Unopposed(r, s)
        BY <1>2, <1>3, QuietViews
    <2>2. Facts(r, s) /\ Planned(r) /\ ~Successful(r)'
        BY <1>2 DEF MirrorInv, Planned, Successful, InTransaction
    <2>3. PlanFits(r, s) => PlanFits(r, s)'
        BY <1>1, DeleteBeginFits
    <2> QED BY <2>1, <2>2, <2>3 DEF Facts
<1> QED BY <1>3, <1>4, QuietFacts

\* A plan that fits to the end leaves the run's image.
LEMMA CommitFits ==
    ASSUME SoundInv, NEW r \in Runs, Commit(r), NEW s \in Sources, PlanFits(r, s)
    PROVE  policies'[s] = Image(r, s)
<1>1. PolicyTypeOK /\ Working(r)
    BY DEF SoundInv
<1>2. /\ policies'[s] = IF Holds(r, s) THEN pending[r][s] ELSE policies[s]
      /\ pc[r] \in InTransaction
      /\ \/ Written(r) /\ Removes(r) = {}
         \/ pc[r] = "delete" /\ Removes(r) \subseteq done[r]
    BY DEF Commit, Written, InTransaction
<1>3. Plan(r) \subseteq done[r]
    <2>1. CASE Written(r) /\ Removes(r) = {}
        BY <1>2, <2>1, NewRowIsImage DEF Written, Embedded, Plan
    <2>2. CASE pc[r] = "delete" /\ Removes(r) \subseteq done[r]
        BY <1>1, <2>2 DEF Working, Plan
    <2> QED BY <1>2, <2>1, <2>2
<1>4. model[r] \in Models
    BY <1>1, <1>2 DEF Working, AtWork
<1>5. CASE s \notin Plan(r)
    <2>1. ~Holds(r, s)
        BY <1>1, <1>5 DEF Working
    <2> QED BY <1>2, <1>5, <2>1 DEF PlanFits
<1>6. CASE s \in Embeds(r) \union Normalizes(r)
    <2>1. pending[r][s] = Image(r, s)
        BY <1>3, <1>6 DEF PlanFits, Plan
    <2>2. Image(r, s) # Unchanged
        BY <1>1, <1>4, <1>6, PlanType, ImageType
    <2> QED BY <1>2, <2>1, <2>2 DEF Holds
<1>7. CASE s \in Removes(r)
    <2>1. Image(r, s) = Absent
        BY <1>7, PlanType DEF Image
    <2>2. /\ pending[r][s] \in {Unchanged, Absent}
          /\ pending[r][s] = Absent \/ policies[s] = Absent
        BY <1>3, <1>7 DEF PlanFits, Plan
    <2> QED BY <1>2, <2>1, <2>2, NamesAssumption DEF Holds
<1> QED BY <1>5, <1>6, <1>7 DEF Plan

\* A run that commits, with nothing committed that opposes it, leaves its image.
LEMMA CommitLeavesImage ==
    ASSUME MirrorInv, NEW r \in Runs, Commit(r), NEW s \in Sources, Unopposed(r, s)
    PROVE  policies'[s] = Image(r, s)
<1>1. SoundInv /\ PlanFits(r, s)
    BY DEF MirrorInv, Facts, Planned, Commit, Written, InTransaction
<1> QED BY <1>1, CommitFits

LEMMA MirrorCommit ==
    ASSUME MirrorInv, NEW r \in Runs, Commit(r)
    PROVE  \A q \in Runs, s \in Sources : Facts(q, s)'
<1>1. SoundInv /\ PolicyTypeOK
    BY DEF MirrorInv, SoundInv
<1>2. /\ documents' = documents /\ model' = model
      /\ pc' = [pc EXCEPT ![r] = "complete"]
      /\ existing' = [existing EXCEPT ![r] = [s \in Sources |-> Absent]]
      /\ pending' = [pending EXCEPT ![r] = [s \in Sources |-> Unchanged]]
    BY DEF Commit, Become, Forget
<1>3. \A q \in Runs : pc[q] = "complete" => pc'[q] = "complete"
    BY <1>1, <1>2 DEF PolicyTypeOK
<1>4. pc'[r] = "complete"
    BY <1>1, <1>2 DEF PolicyTypeOK
<1>5. \A q \in Runs, s \in Sources : Image(q, s)' = Image(q, s)
    BY <1>2 DEF Image
<1> SUFFICES ASSUME NEW q \in Runs, NEW s \in Sources, Unopposed(q, s)'
             PROVE  /\ Successful(q)' => policies'[s] = Image(q, s)
                    /\ Planned(q)' => PlanFits(q, s)'
    BY <1>5 DEF Facts
<1>6. Unopposed(q, s) /\ Unopposed(r, s) /\ Image(r, s) = Image(q, s)
    <2>1. Image(r, s) = Image(q, s)
        BY <1>4, <1>5 DEF Unopposed
    <2>2. \A u \in Runs : pc[u] = "complete" => Image(u, s) = Image(q, s)
        BY <1>3, <1>5 DEF Unopposed
    <2> QED BY <2>1, <2>2 DEF Unopposed
<1>7. policies'[s] = Image(q, s)
    BY <1>6, CommitLeavesImage
<1>8. CASE q = r
    BY <1>4, <1>7, <1>8 DEF Planned, InTransaction
<1>9. CASE q # r
    <2> SUFFICES ASSUME Planned(q)' PROVE PlanFits(q, s)'
        BY <1>7
    <2>1. /\ pc'[q] = pc[q] /\ existing'[q] = existing[q] /\ pending'[q] = pending[q]
        BY <1>1, <1>2, <1>9 DEF PolicyTypeOK
    <2>2. Planned(q) /\ PlanFits(q, s)
        BY <1>6, <2>1 DEF Planned, MirrorInv, Facts
    <2>3. /\ Embeds(q)' = Embeds(q) /\ Normalizes(q)' = Normalizes(q)
          /\ Removes(q)' = Removes(q) /\ Plan(q)' = Plan(q)
        BY <1>2, <2>1, StillViews
    <2>4. done'[q] \subseteq done[q] \union Removes(q)
        BY <1>1, <1>9 DEF Commit, PolicyTypeOK
    <2>5. model[q] \in Models
        BY <1>1, <2>2 DEF SoundInv, Working, AtWork, Planned, InTransaction
    <2>6. s \in Embeds(q) \union Normalizes(q) =>
             /\ s \notin Removes(q) /\ Image(q, s) # Absent
             /\ Stabilized(Image(q, s)) = Image(q, s)
        BY <1>1, <2>5, PlanType, ImageType
    <2>7. s \in Removes(q) => Image(q, s) = Absent
        BY PlanType DEF Image
    <2>8. s \in Embeds(q) \union Normalizes(q) /\ s \in done'[q] => pending'[q][s] = Image(q, s)
        BY <2>1, <2>2, <2>4, <2>6 DEF PlanFits
    <2>9. s \in Removes(q) => pending'[q][s] \in {Unchanged, Absent} /\ policies'[s] = Absent
        BY <1>7, <2>1, <2>2, <2>7 DEF PlanFits
    <2>10. Image(q, s)' = Image(q, s)
        BY <1>5
    <2> QED
        BY <1>7, <2>1, <2>3, <2>6, <2>8, <2>9, <2>10 DEF PlanFits, Stabilized
<1> QED BY <1>8, <1>9

\* A statement under an unopposed plan writes the run's image, or passes over
\* a row that the plan holds for gone and that is gone.
LEMMA MirrorWriteEmbedded ==
    ASSUME MirrorInv, NEW r \in Runs, WriteEmbedded(r)
    PROVE  \A q \in Runs, s \in Sources : Facts(q, s)'
<1>1. SoundInv /\ pc[r] = "write"
    BY DEF MirrorInv, WriteEmbedded
<1>2. CASE Fail(r)
    BY <1>1, <1>2, MirrorFail DEF AtWork, InTransaction
<1>3. ASSUME NEW s \in Embeds(r), existing[r][s] # Absent, policies[s] = Absent,
             Wrote(r, s, Unchanged)
      PROVE  \A q \in Runs, t \in Sources : Facts(q, t)'
    <2>1. s \in Sources /\ s \in Plan(r)
        BY PlanType DEF Plan
    <2>2. ~Unopposed(r, s)
        BY <1>1, <1>3, <2>1 DEF MirrorInv, Facts, Planned, PlanFits, InTransaction
    <2> QED BY <1>1, <1>3, <2>1, <2>2, MirrorWrote DEF InTransaction
<1>4. ASSUME NEW s \in Embeds(r), Wrote(r, s, Image(r, s))
      PROVE  \A q \in Runs, t \in Sources : Facts(q, t)'
    BY <1>1, <1>4, MirrorWrote DEF InTransaction, Plan
<1> QED BY <1>1, <1>2, <1>3, <1>4, WriteEmbeddedWrites

LEMMA MirrorNormalize ==
    ASSUME MirrorInv, NEW r \in Runs, Normalize(r)
    PROVE  \A q \in Runs, s \in Sources : Facts(q, s)'
<1>1. SoundInv
    BY DEF MirrorInv
<1>2. PICK s \in Normalizes(r) :
          /\ pc[r] = "write"
          /\ \/ policies[s] = Absent /\ Wrote(r, s, Unchanged)
             \/ policies[s] # Absent /\ Wrote(r, s, Stabilized(policies[s]))
    BY <1>1, NormalizeWrites DEF Stabilized
<1>3. s \in Sources /\ s \in Plan(r)
    BY PlanType DEF Plan
<1>4. Unopposed(r, s) => policies[s] # Absent /\ Stabilized(policies[s]) = Image(r, s)
    BY <1>2, <1>3 DEF MirrorInv, Facts, Planned, PlanFits, InTransaction
<1>5. CASE policies[s] = Absent /\ Wrote(r, s, Unchanged)
    BY <1>2, <1>3, <1>4, <1>5, MirrorWrote DEF InTransaction
<1>6. CASE policies[s] # Absent /\ Wrote(r, s, Stabilized(policies[s]))
    <2> DEFINE p == Stabilized(policies[s])
    <2>1. Wrote(r, s, p) /\ (Unopposed(r, s) => p = Image(r, s))
        BY <1>4, <1>6
    <2> HIDE DEF p
    <2> QED BY <1>2, <1>3, <2>1, MirrorWrote DEF InTransaction
<1> QED BY <1>2, <1>5, <1>6

LEMMA MirrorDeleteRow ==
    ASSUME MirrorInv, NEW r \in Runs, DeleteRow(r)
    PROVE  \A q \in Runs, s \in Sources : Facts(q, s)'
<1>1. PICK s \in Removes(r) : pc[r] = "delete" /\ Wrote(r, s, Absent)
    BY DeleteRowWrites
<1>2. s \in Plan(r) /\ Image(r, s) = Absent
    BY PlanType DEF Plan, Image
<1> QED BY <1>1, <1>2, MirrorWrote DEF InTransaction

LEMMA MirrorNext == MirrorInv /\ [SyncNext]_syncVars => MirrorInv'
<1> SUFFICES ASSUME MirrorInv, [SyncNext]_syncVars
             PROVE  \A q \in Runs, s \in Sources : Facts(q, s)'
    BY SoundNext DEF MirrorInv
<1>1. ASSUME NEW r \in Runs, NEW m \in Models \union {NoModel}, NEW docs \in Checkouts,
             Begin(r, m, docs)
      PROVE  \A q \in Runs, s \in Sources : Facts(q, s)'
    BY <1>1, MirrorBegin
<1>2. ASSUME NEW r \in Runs, RunStep(r)
      PROVE  \A q \in Runs, s \in Sources : Facts(q, s)'
    BY <1>2, MirrorRead, MirrorEmbed, MirrorWriteEmbedded, MirrorNormalize, MirrorDeleteBegin,
       MirrorDeleteRow, MirrorCommit DEF RunStep
<1>3. ASSUME NEW r \in Runs, Fault(r)
      PROVE  \A q \in Runs, s \in Sources : Facts(q, s)'
    BY <1>3, MirrorFail DEF Fault
<1>4. ASSUME BreakDeadlock
      PROVE  \A q \in Runs, s \in Sources : Facts(q, s)'
    <2>1. PICK D \in SUBSET Runs \ {{}} : Deadlocked(D) /\ \E r \in D : Fail(r)
        BY <1>4 DEF BreakDeadlock
    <2>2. PICK r \in D : Fail(r)
        BY <2>1
    <2>3. pc[r] \in AtWork
        BY <2>1 DEF Deadlocked, Needs, AtWork, InTransaction
    <2> QED BY <2>1, <2>2, <2>3, MirrorFail
<1>5. CASE UNCHANGED syncVars
    <2>1. /\ policies' = policies /\ pc' = pc /\ documents' = documents /\ model' = model
          /\ existing' = existing /\ embeddings' = embeddings /\ done' = done /\ pending' = pending
        BY <1>5 DEF syncVars, locals
    <2> SUFFICES ASSUME NEW q \in Runs, NEW s \in Sources PROVE Facts(q, s)'
        OBVIOUS
    <2>2. \A u \in Runs : Image(u, s)' = Image(u, s)
        BY <2>1 DEF Image
    <2>3. /\ Embeds(q)' = Embeds(q) /\ Normalizes(q)' = Normalizes(q)
          /\ Removes(q)' = Removes(q) /\ Plan(q)' = Plan(q)
        BY <2>1, StillViews
    <2>4. Unopposed(q, s)' <=> Unopposed(q, s)
        BY <2>1, <2>2 DEF Unopposed
    <2>5. PlanFits(q, s) => PlanFits(q, s)'
        BY <2>1, <2>2, <2>3 DEF PlanFits, Stabilized
    <2> QED BY <2>1, <2>2, <2>4, <2>5 DEF MirrorInv, Facts, Planned, Successful
<1> QED BY <1>1, <1>2, <1>3, <1>4, <1>5 DEF SyncNext

LEMMA MirrorAlways == SyncSpec => []MirrorInv
BY MirrorInit, MirrorNext, PTL DEF SyncSpec

\* "Company policy seed complete" (seed_policy_documents.py:132-139) and
\* "already up to date" (:78-80) are true of every source about which no run
\* that has written disagrees, at every later moment.
THEOREM MirroredAfterSuccess == SyncSpec => []SuccessIsMirrored
<1>1. MirrorInv => SuccessIsMirrored
    BY DEF MirrorInv, Facts, SuccessIsMirrored
<1> QED BY <1>1, MirrorAlways, PTL

\* A run after a successful one of the same documents and model finds nothing
\* to do: no model is paid and no row written (:63-80, README.md:19).
THEOREM RepeatsAreSkipped == SyncSpec => LaterRunsSkip
<1> DEFINE repeats(q, r) ==
        /\ Successful(q)
        /\ \A s \in Sources : Image(q, s) = Image(r, s) /\ Unopposed(r, s)
<1>1. ASSUME MirrorInv, NEW q \in Runs, NEW r \in Runs, Read(r), repeats(q, r)
      PROVE  pc'[r] = "skipped"
    <2> DEFINE embed == ToEmbed(documents[r], model[r], Seen)
               normalize == ToNormalize(documents[r], model[r], Seen)
               stale == Stale(documents[r], Seen)
    <2>1. SoundInv /\ PolicyTypeOK
        BY <1>1 DEF MirrorInv, SoundInv
    <2>2. pc[r] = "read" /\ (embed = {} /\ normalize = {} /\ stale = {} => Become(r, "skipped"))
        BY <1>1, Zenon DEF Read, Seen
    <2>3. model[r] \in Models
        BY <2>1, <2>2 DEF SoundInv, Working, AtWork
    <2>4. ASSUME NEW s \in Sources PROVE policies[s] = Image(r, s)
        <3>1. Unopposed(q, s)
            BY <1>1 DEF Unopposed
        <3> QED BY <1>1, <3>1 DEF MirrorInv, Facts
    <2>5. ASSUME NEW s \in Sources PROVE s \notin embed \union normalize \union stale
        <3>1. Seen[s] = IF Image(r, s) = Absent THEN Absent ELSE Known(Image(r, s))
            BY <2>4 DEF Seen
        <3>2. CASE documents[r][s] = Absent
            <4>1. Seen[s] = Absent
                BY <3>1, <3>2 DEF Image
            <4> QED BY <3>2, <4>1 DEF ToEmbed, ToNormalize, Stale, Loaded
        <3>3. CASE documents[r][s] # Absent
            <4>1. Image(r, s) \in Policy /\ Image(r, s) # Absent
                BY <2>1, <2>3, <3>3, ImageType
            <4>2. Known(Image(r, s)) = [id |-> "stable", content |-> documents[r][s],
                                        embedding_model |-> model[r]]
                BY <3>3 DEF Known, Image
            <4>3. Known(Image(r, s)) \in KnownPolicy
                BY <4>1 DEF Known, Policy, KnownPolicy
            <4>4. /\ Seen[s] # Absent /\ Seen[s].id = "stable"
                  /\ Seen[s].content = documents[r][s] /\ Seen[s].embedding_model = model[r]
                BY <3>1, <4>1, <4>2, <4>3, NamesAssumption
            <4> QED BY <3>3, <4>4 DEF ToEmbed, ToNormalize, Stale, Loaded
        <3> QED BY <3>2, <3>3
    <2>6. embed \subseteq Sources /\ normalize \subseteq Sources /\ stale \subseteq Sources
        BY DEF ToEmbed, ToNormalize, Stale, Loaded
    <2>7. embed = {} /\ normalize = {} /\ stale = {}
        <3> HIDE DEF embed, normalize, stale
        <3> QED BY <2>5, <2>6
    <2> QED BY <2>1, <2>2, <2>7 DEF Become, PolicyTypeOK
<1>2. MirrorInv =>
        [\A q, r \in Runs :
          /\ Read(r)
          /\ Successful(q)
          /\ \A s \in Sources : Image(q, s) = Image(r, s) /\ Unopposed(r, s)
          => pc'[r] = "skipped"]_syncVars
    BY <1>1
<1> QED BY <1>2, MirrorAlways, PTL DEF LaterRunsSkip

-----------------------------------------------------------------------------
(***************************************************************************)
(* The plan of a run fits the table from its SELECT to its COMMIT, for     *)
(* every source and whatever earlier runs have written, as long as no      *)
(* other run commits in between.                                           *)
(***************************************************************************)
Fits(r) == Planned(r) => \A s \in Sources : PlanFits(r, s)

LEMMA StillFits ==
    ASSUME NEW r \in Runs, Fits(r), Still(r), policies' = policies
    PROVE  Fits(r)'
<1>1. /\ Embeds(r)' = Embeds(r) /\ Normalizes(r)' = Normalizes(r)
      /\ Removes(r)' = Removes(r) /\ Plan(r)' = Plan(r)
      /\ \A s \in Sources : Image(r, s)' = Image(r, s)
    BY StillViews DEF Still
<1>2. ASSUME NEW s \in Sources, PlanFits(r, s) PROVE PlanFits(r, s)'
    BY <1>1, <1>2 DEF Still, PlanFits, Stabilized
<1>3. Planned(r)' <=> Planned(r)
    BY DEF Still, Planned
<1> QED BY <1>2, <1>3 DEF Fits

LEMMA FailQuiet ==
    ASSUME PolicyTypeOK, NEW r \in Runs, Fail(r), pc[r] \in AtWork
    PROVE  Quiet(r) /\ pc'[r] = "failed"
BY DEF Fail, Forget, Become, Quiet, Still, PolicyTypeOK, AtWork, InTransaction

\* What fails in a deadlock was at work.
LEMMA DeadlockQuiet ==
    ASSUME PolicyTypeOK, BreakDeadlock
    PROVE  \E r \in Runs : Quiet(r) /\ pc[r] \in AtWork /\ pc'[r] = "failed"
<1>1. PICK D \in SUBSET Runs \ {{}} : Deadlocked(D) /\ \E r \in D : Fail(r)
    BY DEF BreakDeadlock
<1>2. PICK r \in D : Fail(r)
    BY <1>1
<1>3. pc[r] \in AtWork
    BY <1>1 DEF Deadlocked, Needs, AtWork, InTransaction
<1> QED BY <1>1, <1>2, <1>3, FailQuiet

LEMMA BeginQuiet ==
    ASSUME PolicyTypeOK, NEW r \in Runs, NEW m \in Models \union {NoModel},
           NEW docs \in Checkouts, Begin(r, m, docs)
    PROVE  Quiet(r) /\ pc[r] = "idle" /\ pc'[r] \in {"read", "failed"}
<1>1. CASE m # NoModel /\ Loaded(docs) # {} /\ \A s \in Sources : docs[s] # Blank
    BY <1>1 DEF Begin, Become, locals, Quiet, Still, PolicyTypeOK
<1>2. CASE ~(m # NoModel /\ Loaded(docs) # {} /\ \A s \in Sources : docs[s] # Blank)
    BY <1>2 DEF Begin, Become, locals, Quiet, Still, PolicyTypeOK
<1> QED BY <1>1, <1>2

LEMMA WroteQuiet ==
    ASSUME PolicyTypeOK, NEW r \in Runs, NEW s, NEW p, Wrote(r, s, p), pc[r] \in InTransaction
    PROVE  Quiet(r) /\ pc' = pc
BY DEF Wrote, Quiet, Still, PolicyTypeOK, InTransaction

\* Only a commit changes the table; a run that succeeds without one has read
\* a table that already is its image.
LEMMA StepQuiet ==
    ASSUME SoundInv, NEW r \in Runs, RunStep(r), ~Commit(r)
    PROVE  /\ Quiet(r) /\ ~Successful(r)
           /\ Successful(r)' => \A s \in Sources : policies[s] = Image(r, s)'
<1>1. PolicyTypeOK
    BY DEF SoundInv
<1>2. CASE Read(r)
    <2>1. /\ pc[r] = "read" /\ pc'[r] \in {"skipped", "write", "embed"}
          /\ policies' = policies /\ \A q \in Runs \ {r} : Still(q)
          /\ documents' = documents /\ model' = model
          /\ pc'[r] = "skipped" => \A s \in Sources : policies[s] = Image(r, s)
        BY <1>2, ReadFits
    <2> QED BY <2>1 DEF Quiet, Successful, Image
<1>3. CASE Embed(r)
    <2>1. pc[r] = "embed"
        BY <1>3 DEF Embed
    <2>2. ASSUME Fail(r) PROVE Quiet(r) /\ pc'[r] = "failed"
        BY <1>1, <2>1, <2>2, FailQuiet DEF AtWork
    <2>3. ASSUME NEW v, embeddings' = [embeddings EXCEPT ![r] = v], Become(r, "write"),
                 UNCHANGED <<policies, documents, model, existing, done, pending>>
          PROVE  Quiet(r) /\ pc'[r] = "write"
        BY <1>1, <2>1, <2>3 DEF Quiet, Still, Become, PolicyTypeOK
    <2>4. Quiet(r) /\ pc'[r] \in {"write", "failed"}
        BY <1>3, <2>2, <2>3 DEF Embed
    <2> QED BY <2>1, <2>4 DEF Successful
<1>4. CASE WriteEmbedded(r) \/ Normalize(r) \/ DeleteRow(r)
    <2>1. pc[r] \in InTransaction
        BY <1>4 DEF WriteEmbedded, Normalize, DeleteRow, InTransaction
    <2>2. Fail(r) \/ \E s \in Sources, p \in Policy \union {Absent, Unchanged} : Wrote(r, s, p)
        BY <1>1, <1>4, WriteEmbeddedWrites, NormalizeWrites, DeleteRowWrites, PlanType
    <2>3. Quiet(r) /\ (pc' = pc \/ pc'[r] = "failed")
        BY <1>1, <2>1, <2>2, FailQuiet, WroteQuiet DEF AtWork
    <2> QED BY <2>1, <2>3 DEF Successful, InTransaction
<1>5. CASE DeleteBegin(r)
    BY <1>1, <1>5 DEF DeleteBegin, Written, Become, Quiet, Still, PolicyTypeOK, Successful
<1> QED BY <1>2, <1>3, <1>4, <1>5 DEF RunStep

\* A statement under a plan that fits writes the run's image.
LEMMA StatementFits ==
    ASSUME SoundInv, NEW r \in Runs, Fits(r), WriteEmbedded(r) \/ Normalize(r) \/ DeleteRow(r)
    PROVE  Fits(r)'
<1>1. PolicyTypeOK
    BY DEF SoundInv
<1>2. pc[r] \in InTransaction /\ Planned(r)
    BY DEF WriteEmbedded, Normalize, DeleteRow, Planned, InTransaction
<1>3. \A s \in Sources : PlanFits(r, s)
    BY <1>2 DEF Fits
<1>4. ASSUME NEW s \in Plan(r), Wrote(r, s, Image(r, s)) PROVE Fits(r)'
    <2>1. ASSUME NEW t \in Sources PROVE PlanFits(r, t)'
        BY <1>1, <1>3, <1>4, WroteFits
    <2> QED BY <2>1 DEF Fits
<1>5. ASSUME Fail(r) PROVE Fits(r)'
    BY <1>1, <1>2, <1>5, FailQuiet DEF Fits, Planned, AtWork, InTransaction
<1>6. CASE WriteEmbedded(r)
    <2>1. ASSUME NEW s \in Embeds(r), existing[r][s] # Absent, policies[s] = Absent
          PROVE  FALSE
        BY <1>3, <2>1, PlanType DEF PlanFits
    <2>2. ASSUME NEW s \in Embeds(r), Wrote(r, s, Image(r, s)) PROVE Fits(r)'
        BY <1>4, <2>2 DEF Plan
    <2> QED BY <1>5, <1>6, <2>1, <2>2, WriteEmbeddedWrites
<1>7. CASE Normalize(r)
    <2>1. PICK s \in Normalizes(r) :
              \/ policies[s] = Absent /\ Wrote(r, s, Unchanged)
              \/ policies[s] # Absent /\ Wrote(r, s, Stabilized(policies[s]))
        BY <1>7, NormalizeWrites DEF Stabilized
    <2>2. Wrote(r, s, Stabilized(policies[s])) /\ Stabilized(policies[s]) = Image(r, s)
        BY <1>3, <2>1, PlanType DEF PlanFits
    <2> QED BY <1>4, <2>2 DEF Plan
<1>8. CASE DeleteRow(r)
    <2>1. PICK s \in Removes(r) : Wrote(r, s, Absent)
        BY <1>8, DeleteRowWrites
    <2>2. s \in Plan(r) /\ Image(r, s) = Absent
        BY PlanType DEF Plan, Image
    <2> QED BY <1>4, <2>1, <2>2
<1> QED BY <1>6, <1>7, <1>8

LEMMA OwnFits ==
    ASSUME SoundInv, NEW r \in Runs, Fits(r), RunStep(r)
    PROVE  Fits(r)'
<1>1. PolicyTypeOK
    BY DEF SoundInv
<1>2. CASE Read(r)
    BY <1>2, ReadFits DEF Fits, Planned, InTransaction
<1>3. CASE Embed(r)
    <2>1. pc[r] = "embed" /\ \A s \in Sources : PlanFits(r, s)
        BY <1>3 DEF Embed, Fits, Planned
    <2>2. CASE Fail(r)
        BY <1>1, <2>1, <2>2, FailQuiet DEF Fits, Planned, AtWork, InTransaction
    <2>3. ASSUME UNCHANGED <<policies, documents, model, existing, done, pending>>
          PROVE  Fits(r)'
        <3>1. /\ Embeds(r)' = Embeds(r) /\ Normalizes(r)' = Normalizes(r)
              /\ Removes(r)' = Removes(r) /\ Plan(r)' = Plan(r)
              /\ \A s \in Sources : Image(r, s)' = Image(r, s)
            BY <2>3, StillViews
        <3> QED BY <2>1, <2>3, <3>1 DEF Fits, PlanFits, Stabilized
    <2> QED BY <1>3, <2>2, <2>3 DEF Embed
<1>4. CASE WriteEmbedded(r) \/ Normalize(r) \/ DeleteRow(r)
    BY <1>4, StatementFits
<1>5. CASE DeleteBegin(r)
    <2>1. Planned(r)
        BY <1>5 DEF DeleteBegin, Written, Planned, InTransaction
    <2> QED BY <1>1, <1>5, <2>1, DeleteBeginFits DEF Fits
<1>6. CASE Commit(r)
    BY <1>1, <1>6 DEF Commit, Become, PolicyTypeOK, Fits, Planned, InTransaction
<1> QED BY <1>2, <1>3, <1>4, <1>5, <1>6 DEF RunStep

\* No other run commits while r has a plan.
Undisturbed(r) == \A q \in Runs \ {r} : Commit(q) => ~Planned(r)

LEMMA FitsNext ==
    ASSUME SoundInv, NEW r \in Runs, Fits(r), [SyncNext /\ Undisturbed(r)]_syncVars
    PROVE  Fits(r)'
<1>1. PolicyTypeOK
    BY DEF SoundInv
<1>2. CASE UNCHANGED syncVars
    BY <1>2, StillFits DEF syncVars, locals, Still
<1>3. ASSUME NEW q \in Runs, Quiet(q), q = r => pc'[q] \in {"read", "failed"}
      PROVE  Fits(r)'
    <2>1. CASE q = r
        BY <1>3, <2>1 DEF Fits, Planned, InTransaction
    <2>2. CASE q # r
        BY <1>3, <2>2, StillFits DEF Quiet
    <2> QED BY <2>1, <2>2
<1>4. ASSUME NEW q \in Runs, RunStep(q), Undisturbed(r) PROVE Fits(r)'
    <2>1. CASE q = r
        BY <1>4, <2>1, OwnFits
    <2>2. CASE q # r /\ ~Commit(q)
        BY <1>4, <2>2, StepQuiet, StillFits DEF Quiet
    <2>3. CASE q # r /\ Commit(q)
        <3>1. ~Planned(r) /\ pc'[r] = pc[r]
            BY <1>1, <1>4, <2>3 DEF Undisturbed, Commit, Become, PolicyTypeOK
        <3> QED BY <3>1 DEF Fits, Planned
    <2> QED BY <2>1, <2>2, <2>3
<1>5. ASSUME NEW q \in Runs, NEW m \in Models \union {NoModel}, NEW docs \in Checkouts,
             Begin(q, m, docs)
      PROVE  Fits(r)'
    BY <1>1, <1>3, <1>5, BeginQuiet
<1>6. ASSUME NEW q \in Runs, Fault(q) PROVE Fits(r)'
    BY <1>1, <1>3, <1>6, FailQuiet DEF Fault
<1>7. ASSUME BreakDeadlock PROVE Fits(r)'
    BY <1>1, <1>3, <1>7, DeadlockQuiet
<1> QED BY <1>2, <1>4, <1>5, <1>6, <1>7 DEF SyncNext

UndisturbedSpec(r) == SyncInit /\ [][SyncNext /\ Undisturbed(r)]_syncVars

\* A run beside which no other commits between its SELECT and its COMMIT
\* (seed_policy_documents.py:50-130) replaces the whole table by its image,
\* also the rows its plan left alone, whatever overlaps, failures and
\* disagreeing runs came before.
THEOREM CommitReplacesTable ==
    ASSUME NEW r \in Runs
    PROVE  UndisturbedSpec(r) =>
              [][Commit(r) => \A s \in Sources : policies'[s] = Image(r, s)]_syncVars
<1>1. SyncInit => SoundInv /\ Fits(r)
    BY SoundInit DEF SyncInit, Fits, Planned, InTransaction
<1>2. SoundInv /\ Fits(r) /\ [SyncNext /\ Undisturbed(r)]_syncVars => (SoundInv /\ Fits(r))'
    BY SoundNext, FitsNext
<1>3. SoundInv /\ Fits(r) =>
          [Commit(r) => \A s \in Sources : policies'[s] = Image(r, s)]_syncVars
    BY CommitFits DEF Fits, Commit, Written, Planned, InTransaction
<1> QED BY <1>1, <1>2, <1>3, PTL DEF UndisturbedSpec

-----------------------------------------------------------------------------
(***************************************************************************)
(* Runs that do not overlap.                                               *)
(***************************************************************************)

\* The table is the image of the documents of one run that succeeded.
Mirrors(r) == Successful(r) /\ \A s \in Sources : policies[s] = Image(r, s)

SerialMirrorInv ==
    /\ SoundInv
    /\ Alone
    /\ \A r \in Runs : Fits(r)
    /\ (\E r \in Runs : Successful(r)) => \E r \in Runs : Mirrors(r)

LEMMA SerialMirrorInit == SyncInit => SerialMirrorInv
<1> SUFFICES ASSUME SyncInit PROVE SerialMirrorInv
    OBVIOUS
<1>1. \A r \in Runs : pc[r] = "idle"
    BY DEF SyncInit
<1> QED
    BY <1>1, SoundInit
    DEF SerialMirrorInv, Alone, AtWork, InTransaction, Fits, Planned, Successful

\* A step that commits nothing leaves the run that is mirrored, or has its own
\* run find the table mirrored.
LEMMA QuietMirrors ==
    ASSUME SerialMirrorInv, NEW r \in Runs, Quiet(r), ~Successful(r),
           Successful(r)' => \A s \in Sources : policies[s] = Image(r, s)',
           NEW q \in Runs, Successful(q)'
    PROVE  \E u \in Runs : Mirrors(u)'
<1>1. ASSUME NEW u \in Runs \ {r}
      PROVE  (Successful(u)' <=> Successful(u)) /\ (Mirrors(u) => Mirrors(u)')
    BY DEF Quiet, Still, Successful, Mirrors, Image
<1>2. CASE Successful(r)'
    BY <1>2 DEF Mirrors, Quiet
<1>3. CASE ~Successful(r)'
    <2>1. Successful(q)
        BY <1>1, <1>3
    <2>2. PICK u \in Runs : Mirrors(u)
        BY <2>1 DEF SerialMirrorInv
    <2>3. u # r
        BY <2>2 DEF Mirrors
    <2> QED BY <1>1, <2>2, <2>3
<1> QED BY <1>2, <1>3

LEMMA SerialMirrorNext == SerialMirrorInv /\ [SyncNext /\ Alone']_syncVars => SerialMirrorInv'
<1> SUFFICES ASSUME SerialMirrorInv, [SyncNext /\ Alone']_syncVars PROVE SerialMirrorInv'
    OBVIOUS
<1>1. SoundInv /\ PolicyTypeOK /\ SoundInv'
    BY SoundNext DEF SerialMirrorInv, SoundInv
<1>2. Alone'
    BY DEF SerialMirrorInv, Alone, syncVars
<1>3. ASSUME NEW r \in Runs PROVE Fits(r)'
    <2>1. Undisturbed(r)
        BY DEF SerialMirrorInv, Alone, Undisturbed, Commit, Written, Planned, AtWork, InTransaction
    <2> QED BY <1>1, <2>1, FitsNext DEF SerialMirrorInv
<1>4. ASSUME NEW q \in Runs, Successful(q)' PROVE \E u \in Runs : Mirrors(u)'
    <2>1. CASE UNCHANGED syncVars
        <3>1. \A u \in Runs : (Successful(u)' <=> Successful(u)) /\ (Mirrors(u) => Mirrors(u)')
            BY <2>1 DEF syncVars, locals, Successful, Mirrors, Image
        <3> QED BY <1>4, <3>1 DEF SerialMirrorInv
    <2>2. ASSUME NEW r \in Runs, Quiet(r), ~Successful(r), ~Successful(r)'
          PROVE  \E u \in Runs : Mirrors(u)'
        BY <1>4, <2>2, QuietMirrors
    <2>3. ASSUME NEW r \in Runs, NEW m \in Models \union {NoModel}, NEW docs \in Checkouts,
                 Begin(r, m, docs)
          PROVE  \E u \in Runs : Mirrors(u)'
        BY <1>1, <2>2, <2>3, BeginQuiet DEF Successful
    <2>4. ASSUME NEW r \in Runs, Fault(r) PROVE \E u \in Runs : Mirrors(u)'
        BY <1>1, <2>2, <2>4, FailQuiet DEF Fault, Successful, AtWork, InTransaction
    <2>5. ASSUME BreakDeadlock PROVE \E u \in Runs : Mirrors(u)'
        BY <1>1, <2>2, <2>5, DeadlockQuiet DEF Successful, AtWork, InTransaction
    <2>6. ASSUME NEW r \in Runs, RunStep(r), ~Commit(r) PROVE \E u \in Runs : Mirrors(u)'
        BY <1>1, <1>4, <2>6, StepQuiet, QuietMirrors
    <2>7. ASSUME NEW r \in Runs, Commit(r) PROVE Mirrors(r)'
        <3>1. ASSUME NEW s \in Sources PROVE policies'[s] = Image(r, s)
            BY <1>1, <2>7, CommitFits
            DEF SerialMirrorInv, Fits, Commit, Written, Planned, InTransaction
        <3>2. pc'[r] = "complete" /\ documents' = documents /\ model' = model
            BY <1>1, <2>7 DEF Commit, Become, PolicyTypeOK
        <3> QED BY <3>1, <3>2 DEF Mirrors, Successful, Image
    <2> QED BY <2>1, <2>3, <2>4, <2>5, <2>6, <2>7 DEF SyncNext
<1> QED BY <1>1, <1>2, <1>3, <1>4 DEF SerialMirrorInv

LEMMA SerialMirrorAlways == SerialSyncSpec => []SerialMirrorInv
BY SerialMirrorInit, SerialMirrorNext, PTL DEF SerialSyncSpec

\* Runs that do not overlap keep the promise of README.md:61: once one has
\* succeeded the table is the image of the documents of a run that did,
\* whatever fails before, between or after them.  What refutes the promise in
\* general is the overlap alone.
THEOREM MirroredWithoutOverlap == SerialSyncSpec => []TableMirrorsSomeRun
<1>1. SerialMirrorInv => TableMirrorsSomeRun
    BY DEF SerialMirrorInv, Mirrors, TableMirrorsSomeRun
<1> QED BY <1>1, SerialMirrorAlways, PTL
=============================================================================
