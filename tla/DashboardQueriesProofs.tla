------------------------ MODULE DashboardQueriesProofs ----------------------
(***************************************************************************)
(* What the dashboard's two queries answer, for every finite table, every  *)
(* way to assign departments and types, every window and every page size:  *)
(* the breakdowns add up to the totals, turning pages reads the window     *)
(* once, in order, and a preset window is what the status rule calls       *)
(* expiring.                                                               *)
(*                                                                         *)
(* The first two are about recursive functions: the fold that adds up a breakdown,  *)
(* and the reader who presses Next.  The pattern is the same for the two.  *)
(* A closed form of the function is named first (the number of records in  *)
(* the parts added so far; the rows from an offset on), shown to satisfy   *)
(* the recursive equation, so that a function satisfying it exists, and    *)
(* then to agree with any function that does, by the argument of the       *)
(* minimal counterexample (LeastNumber, LeastSubset).                      *)
(***************************************************************************)
EXTENDS DashboardQueries, FiniteSetTheorems, SequenceTheorems, TLAPS

(* Every nonempty set of natural numbers has a least element.              *)
LEMMA LeastNumber ==
  ASSUME NEW T \in SUBSET Nat, T # {}
  PROVE  \E m \in T : \A n \in T : m <= n
<1> DEFINE R == OpToRel(<, Nat)
<1>1. IsWellFoundedOn(R, Nat)
  BY NatLessThanWellFounded
<1>2. \A x, y \in Nat : x < y => <<x, y>> \in R
  BY DEF OpToRel
<1> HIDE DEF R
<1>3. \E x \in T : \A y \in T : <<y, x>> \notin R
  BY <1>1, WFMin
<1>4. PICK m \in T : \A n \in T : <<n, m>> \notin R
  BY <1>3
<1>5. \A n \in T : ~(n < m)
  BY <1>2, <1>4
<1>6. \A n \in T : n \in Nat /\ m \in Nat
  OBVIOUS
<1>7. QED
  BY <1>5, <1>6

(* Among some subsets of a finite set there is one that contains no other. *)
LEMMA LeastSubset ==
  ASSUME NEW S, IsFiniteSet(S), NEW F \in SUBSET (SUBSET S), F # {}
  PROVE  \E T \in F : \A U \in F : U \subseteq T => U = T
<1> DEFINE R == StrictSubsetOrdering(S)
<1>1. IsWellFoundedOn(R, SUBSET S)
  BY FS_StrictSubsetOrderingWellFounded, FS_FiniteSubsetsOfFinite
<1>2. \A U, T \in SUBSET S : U \subseteq T /\ U # T => <<U, T>> \in R
  BY DEF StrictSubsetOrdering
<1> HIDE DEF R
<1>3. \E T \in F : \A U \in F : <<U, T>> \notin R
  BY <1>1, WFMin
<1>4. QED
  BY <1>2, <1>3

-----------------------------------------------------------------------------
(* getMetrics.                                                             *)

(* The records of status s among some.                                     *)
WithStatus(rows, some, s) == {r \in some : rows[r].status = s}

(* An answer counts the records of each status, and 0 where there is none. *)
LEMMA TotalsCount ==
  ASSUME NEW rows, NEW some \in SUBSET RecordId, NEW s \in EvaluableStatus
  PROVE  MetricsTotals(CountRows(rows, some))[s] =
           Cardinality(WithStatus(rows, some, s))
<1> DEFINE raw    == CountRows(rows, some)
           count(t) == Cardinality(WithStatus(rows, some, t))
           found  == {rows[r].status : r \in some} \intersect EvaluableStatus
<1>1. raw = {[status |-> t, count |-> count(t)] : t \in found}
  BY DEF CountRows, WithStatus
<1>2. s \in found <=> WithStatus(rows, some, s) # {}
  BY DEF WithStatus
<1>3. MetricsTotals(raw)[s] =
        IF \E row \in raw : row.status = s
          THEN (CHOOSE row \in raw : row.status = s).count ELSE 0
  BY DEF MetricsTotals
<1> HIDE DEF raw, found, count
<1>4. \A row \in raw : row.status \in found /\ row.count = count(row.status)
  BY <1>1
<1>5. CASE s \in found
  <2>1. [status |-> s, count |-> count(s)] \in raw
    BY <1>1, <1>5
  <2>2. \E row \in raw : row.status = s
    BY <2>1
  <2>3. (CHOOSE row \in raw : row.status = s).count = count(s)
    BY <1>4, <2>2
  <2>4. QED
    BY <1>3, <2>2, <2>3 DEF raw, count
<1>6. CASE s \notin found
  <2>1. ~\E row \in raw : row.status = s
    BY <1>4, <1>6
  <2>2. count(s) = 0
    BY <1>2, <1>6, FS_EmptySet DEF count
  <2>3. QED
    BY <1>3, <2>1, <2>2 DEF raw, count
<1>7. QED
  BY <1>5, <1>6

(* The fold over a breakdown whose parts are disjoint yields the number of *)
(* records in all of them.                                                 *)
LEMMA SumOfParts ==
  ASSUME NEW S, IsFiniteSet(S), NEW part, NEW counts, NEW s,
         DOMAIN counts = S,
         \A k \in S : part[k] \subseteq RecordId
                      /\ counts[k][s] = Cardinality(part[k]),
         \A k, l \in S : k # l => part[k] \cap part[l] = {}
  PROVE  SumOf(counts, s) = Cardinality(UNION {part[k] : k \in S})
<1> DEFINE Within(T) == UNION {part[k] : k \in T}
           Rest(T)   == T \ {CHOOSE x \in T : TRUE}
           Def(g)    == [T \in SUBSET S |->
                           IF T = {} THEN 0
                           ELSE counts[CHOOSE x \in T : TRUE][s] + g[Rest(T)]]
           closed    == [T \in SUBSET S |-> Cardinality(Within(T))]
<1>1. ASSUME NEW T \in SUBSET S, T # {}
      PROVE  /\ (CHOOSE x \in T : TRUE) \in T
             /\ Rest(T) \in SUBSET S /\ Rest(T) \subseteq T /\ Rest(T) # T
             /\ Cardinality(Within(T)) =
                  counts[CHOOSE x \in T : TRUE][s] + Cardinality(Within(Rest(T)))
  <2> DEFINE x == CHOOSE x \in T : TRUE
  <2>1. x \in T
    BY <1>1
  <2> HIDE DEF x
  <2>2. Within(T) = part[x] \cup Within(T \ {x})
    BY <2>1
  <2>3. part[x] \cap Within(T \ {x}) = {}
    BY <2>1
  <2>4. IsFiniteSet(part[x]) /\ IsFiniteSet(Within(T \ {x}))
    <3>1. part[x] \in SUBSET RecordId /\ Within(T \ {x}) \in SUBSET RecordId
      BY <2>1
    <3> HIDE DEF Within
    <3>2. QED
      BY <3>1, FS_Subset, QueryConstantsOK
  <2>5. Cardinality(Within(T)) =
          Cardinality(part[x]) + Cardinality(Within(T \ {x}))
    <3> HIDE DEF Within
    <3>1. Cardinality(part[x]) \in Nat /\ Cardinality(Within(T \ {x})) \in Nat
      BY <2>4, FS_CardinalityType
    <3>2. Cardinality(part[x] \cap Within(T \ {x})) = 0
      BY <2>3, FS_EmptySet
    <3>3. Cardinality(part[x] \cup Within(T \ {x})) =
            Cardinality(part[x]) + Cardinality(Within(T \ {x}))
            - Cardinality(part[x] \cap Within(T \ {x}))
      BY <2>4, FS_Union
    <3>4. QED
      BY <2>2, <3>1, <3>2, <3>3
  <2>6. counts[x][s] = Cardinality(part[x])
    BY <2>1
  <2> HIDE DEF Within
  <2>7. QED
    BY <2>1, <2>5, <2>6 DEF x
<1>2. Cardinality(Within({})) = 0
  BY FS_EmptySet
<1> HIDE DEF Within, Rest
<1>3. closed = Def(closed)
  <2>1. ASSUME NEW T \in SUBSET S
        PROVE  closed[T] = IF T = {} THEN 0
                           ELSE counts[CHOOSE x \in T : TRUE][s]
                                + closed[Rest(T)]
    BY <1>1, <1>2
  <2> HIDE DEF closed
  <2>2. closed = [T \in SUBSET S |-> closed[T]]
    BY DEF closed
  <2>3. QED
    BY <2>1, <2>2
<1>4. ASSUME NEW g, g = Def(g)
      PROVE  g[S] = Cardinality(Within(S))
  <2> DEFINE Wrong == {T \in SUBSET S : g[T] # Cardinality(Within(T))}
  <2>1. ASSUME NEW T \in SUBSET S
        PROVE  g[T] = IF T = {} THEN 0
                      ELSE counts[CHOOSE x \in T : TRUE][s] + g[Rest(T)]
    BY <1>4
  <2>2. SUFFICES ASSUME Wrong # {}
                 PROVE  FALSE
    OBVIOUS
  <2>3. PICK T \in Wrong : \A U \in Wrong : U \subseteq T => U = T
    <3>1. Wrong \in SUBSET (SUBSET S)
      OBVIOUS
    <3> HIDE DEF Wrong
    <3>2. QED
      BY <2>2, <3>1, LeastSubset
  <2>4. T # {}
    BY <1>2, <2>1, <2>3
  <2>5. Rest(T) \in SUBSET S /\ Rest(T) \notin Wrong
    BY <1>1, <2>3, <2>4
  <2>6. g[T] = Cardinality(Within(T))
    BY <1>1, <2>1, <2>3, <2>4, <2>5
  <2>7. QED
    BY <2>3, <2>6
<1> DEFINE iter == CHOOSE g : g = Def(g)
<1>5. SumOf(counts, s) = iter[S]
  BY DEF SumOf, FoldFunction, FoldFunctionOnSet, MapThenFoldSet, Rest
<1>6. iter = Def(iter)
  <2> HIDE DEF closed, Def
  <2>1. \E g : g = Def(g)
    BY <1>3
  <2>2. QED
    BY <2>1
<1> HIDE DEF iter, Def
<1>7. iter[S] = Cardinality(Within(S))
  BY <1>4, <1>6
<1>8. QED
  BY <1>5, <1>7 DEF Within

(* Every record has one type, so the types add up to the totals.           *)
LEMMA TypesSum == TypesAddUp
<1> SUFFICES ASSUME NEW rows \in Tables, NEW s \in EvaluableStatus
             PROVE  SumOf(mapTypeCounts(rows), s) =
                      MetricsTotals(CountRows(rows, RecordId))[s]
  BY DEF TypesAddUp, getMetrics
<1> DEFINE counts  == mapTypeCounts(rows)
           some(t) == {r \in RecordId : TypeOf[r] = t}
           part    == [t \in Types |-> WithStatus(rows, some(t), s)]
<1>1. IsFiniteSet(Types)
  <2> DEFINE f == [r \in RecordId |-> TypeOf[r]]
  <2>1. f \in Surjection(RecordId, Types)
    BY DEF Surjection, Types
  <2> HIDE DEF f
  <2>2. QED
    BY <2>1, FS_Surjection, QueryConstantsOK
<1>2. DOMAIN counts = Types
  BY DEF mapTypeCounts
<1>3. ASSUME NEW t \in Types
      PROVE  part[t] \subseteq RecordId /\ counts[t][s] = Cardinality(part[t])
  <2>1. counts[t] = MetricsTotals(CountRows(rows, some(t)))
    BY DEF mapTypeCounts
  <2>2. some(t) \in SUBSET RecordId
    OBVIOUS
  <2> HIDE DEF counts, some
  <2>3. QED
    BY <2>1, <2>2, TotalsCount DEF WithStatus
<1>4. \A t, u \in Types : t # u => part[t] \cap part[u] = {}
  BY DEF WithStatus
<1>5. UNION {part[t] : t \in Types} = WithStatus(rows, RecordId, s)
  <2>1. \A t \in Types : part[t] \subseteq WithStatus(rows, RecordId, s)
    BY DEF WithStatus
  <2>2. \A r \in WithStatus(rows, RecordId, s) :
          TypeOf[r] \in Types /\ r \in part[TypeOf[r]]
    BY DEF WithStatus, Types
  <2> HIDE DEF part
  <2>3. QED
    BY <2>1, <2>2
<1> HIDE DEF counts, part
<1>6. SumOf(counts, s) = Cardinality(WithStatus(rows, RecordId, s))
  BY <1>1, <1>2, <1>3, <1>4, <1>5, SumOfParts
<1>7. QED
  BY <1>6, TotalsCount DEF counts

(* The employee of every record that is not an orphan has one department,  *)
(* so departments and orphans add up to the totals.                        *)
LEMMA DepartmentsSum == DepartmentsAddUp
<1> SUFFICES ASSUME NEW rows \in Tables, NEW s \in EvaluableStatus
             PROVE  SumOf(mapDepartmentCounts(rows), s)
                      + MetricsTotals(CountRows(rows, Orphans))[s] =
                        MetricsTotals(CountRows(rows, RecordId))[s]
  BY DEF DepartmentsAddUp, getMetrics
<1> DEFINE counts  == mapDepartmentCounts(rows)
           some(d) == {r \in Joined : Department[r] = d}
           part    == [d \in Departments |-> WithStatus(rows, some(d), s)]
<1>1. IsFiniteSet(Departments)
  <2> DEFINE f == [r \in RecordId |-> Department[r]]
  <2>1. f \in Surjection(RecordId, Departments)
    BY DEF Surjection, Departments
  <2> HIDE DEF f
  <2>2. QED
    BY <2>1, FS_Surjection, QueryConstantsOK
<1>2. DOMAIN counts = Departments
  BY DEF mapDepartmentCounts
<1>3. ASSUME NEW d \in Departments
      PROVE  part[d] \subseteq RecordId /\ counts[d][s] = Cardinality(part[d])
  <2>1. counts[d] = MetricsTotals(CountRows(rows, some(d)))
    BY DEF mapDepartmentCounts
  <2>2. some(d) \in SUBSET RecordId
    BY DEF Joined
  <2> HIDE DEF counts, some
  <2>3. QED
    BY <2>1, <2>2, TotalsCount DEF WithStatus
<1>4. \A d, e \in Departments : d # e => part[d] \cap part[e] = {}
  BY DEF WithStatus
<1>5. UNION {part[d] : d \in Departments} = WithStatus(rows, Joined, s)
  <2>1. \A d \in Departments : part[d] \subseteq WithStatus(rows, Joined, s)
    BY DEF WithStatus
  <2>2. \A r \in WithStatus(rows, Joined, s) :
          Department[r] \in Departments /\ r \in part[Department[r]]
    BY DEF WithStatus, Departments, Joined
  <2> HIDE DEF part
  <2>3. QED
    BY <2>1, <2>2
<1> HIDE DEF counts, part
<1>6. SumOf(counts, s) = Cardinality(WithStatus(rows, Joined, s))
  BY <1>1, <1>2, <1>3, <1>4, <1>5, SumOfParts
<1> DEFINE joined  == WithStatus(rows, Joined, s)
           orphans == WithStatus(rows, Orphans, s)
<1>7. /\ joined \in SUBSET RecordId /\ orphans \in SUBSET RecordId
      /\ joined \cap orphans = {}
      /\ joined \cup orphans = WithStatus(rows, RecordId, s)
  BY QueryConstantsOK DEF WithStatus, Joined
<1>8. /\ MetricsTotals(CountRows(rows, Orphans))[s] = Cardinality(orphans)
      /\ MetricsTotals(CountRows(rows, RecordId))[s] =
           Cardinality(WithStatus(rows, RecordId, s))
  BY TotalsCount, QueryConstantsOK
<1> HIDE DEF joined, orphans
<1>9. IsFiniteSet(joined) /\ IsFiniteSet(orphans)
  BY <1>7, FS_Subset, QueryConstantsOK
<1>10. /\ Cardinality(joined) \in Nat /\ Cardinality(orphans) \in Nat
       /\ Cardinality(joined \cap orphans) = 0
  BY <1>7, <1>9, FS_CardinalityType, FS_EmptySet
<1>11. Cardinality(joined \cup orphans) =
         Cardinality(joined) + Cardinality(orphans)
         - Cardinality(joined \cap orphans)
  BY <1>9, FS_Union
<1>12. Cardinality(joined) + Cardinality(orphans) =
         Cardinality(WithStatus(rows, RecordId, s))
  <2>1. Cardinality(joined) + Cardinality(orphans) =
          Cardinality(joined \cup orphans)
    BY <1>10, <1>11
  <2>2. QED
    BY <1>7, <2>1
<1>13. SumOf(counts, s) = Cardinality(joined)
  BY <1>6 DEF joined
<1>14. QED
  BY <1>8, <1>12, <1>13 DEF counts

-----------------------------------------------------------------------------
(* getExpiring.                                                            *)

(* The order by expiry and id is a strict total order of the records.      *)
LEMMA InOrderTotal ==
  ASSUME NEW rows \in Tables
  PROVE  \A a, b, c \in RecordId :
           /\ ~InOrder(rows, a, a)
           /\ InOrder(rows, a, b) /\ InOrder(rows, b, c) => InOrder(rows, a, c)
           /\ a # b => InOrder(rows, a, b) \/ InOrder(rows, b, a)
<1> SUFFICES ASSUME NEW a \in RecordId, NEW b \in RecordId, NEW c \in RecordId
             PROVE  /\ ~InOrder(rows, a, a)
                    /\ InOrder(rows, a, b) /\ InOrder(rows, b, c)
                         => InOrder(rows, a, c)
                    /\ a # b => InOrder(rows, a, b) \/ InOrder(rows, b, a)
  OBVIOUS
<1>1. /\ rows[a].expiry \in Nat /\ rows[b].expiry \in Nat
      /\ rows[c].expiry \in Nat
      /\ a \in Nat /\ b \in Nat /\ c \in Nat
  BY QueryConstantsOK DEF Tables
<1>2. QED
  BY <1>1 DEF InOrder

(* Records can be put in order: each at the place that the number of those *)
(* before it gives.                                                        *)
LEMMA SortedExists ==
  ASSUME NEW rows \in Tables, NEW ids \in SUBSET RecordId
  PROVE  \E s \in [1..Cardinality(ids) -> ids] :
           \A i, j \in DOMAIN s : i < j => InOrder(rows, s[i], s[j])
<1> DEFINE n         == Cardinality(ids)
           before(x) == {y \in ids : InOrder(rows, y, x)}
           rank      == [x \in ids |-> Cardinality(before(x)) + 1]
<1>1. IsFiniteSet(ids) /\ n \in Nat
  BY FS_Subset, FS_CardinalityType, QueryConstantsOK
<1>2. ASSUME NEW x \in ids
      PROVE  Cardinality(before(x)) \in Nat /\ Cardinality(before(x)) < n
  <2>1. before(x) \in SUBSET ids /\ before(x) # ids
    BY InOrderTotal
  <2> HIDE DEF before
  <2>2. /\ IsFiniteSet(before(x)) /\ Cardinality(before(x)) <= n
        /\ n # Cardinality(before(x))
    BY <1>1, <2>1, FS_Subset
  <2>3. QED
    BY <1>1, <2>2, FS_CardinalityType
<1>3. ASSUME NEW x \in ids, NEW y \in ids, InOrder(rows, x, y)
      PROVE  rank[x] < rank[y]
  <2>1. before(x) \in SUBSET before(y) /\ x \in before(y) /\ x \notin before(x)
    BY <1>3, InOrderTotal
  <2>2. before(y) \in SUBSET ids
    OBVIOUS
  <2> HIDE DEF before
  <2>3. IsFiniteSet(before(y))
    BY <1>1, <2>2, FS_Subset
  <2>4. /\ Cardinality(before(x)) <= Cardinality(before(y))
        /\ Cardinality(before(x)) # Cardinality(before(y))
    BY <2>1, <2>3, FS_Subset
  <2>5. QED
    BY <1>2, <2>4
<1>4. rank \in [ids -> 1..n]
  BY <1>1, <1>2
<1>5. \A x \in ids : rank[x] \in Nat
  BY <1>4
<1> HIDE DEF rank
<1>6. rank \in Injection(ids, 1..n)
  <2>1. \A x, y \in ids : x # y => rank[x] # rank[y]
    BY <1>3, <1>5, InOrderTotal
  <2>2. QED
    BY <1>4, <2>1 DEF Injection, IsInjective
<1>7. rank \in Surjection(ids, 1..n)
  <2>1. IsFiniteSet(1..n) /\ Cardinality(1..n) = n
    BY <1>1, FS_Interval
  <2>2. QED
    BY <1>6, <2>1, FS_Injection
<1>8. \A k \in 1..n : \E x \in ids : rank[x] = k
  BY <1>7 DEF Surjection
<1> DEFINE s == [k \in 1..n |-> CHOOSE x \in ids : rank[x] = k]
<1>9. \A k \in 1..n : s[k] \in ids /\ rank[s[k]] = k
  BY <1>8
<1>10. s \in [1..n -> ids] /\ DOMAIN s = 1..n
  BY <1>9
<1> HIDE DEF s
<1>11. ASSUME NEW i \in 1..n, NEW j \in 1..n, i < j
       PROVE  InOrder(rows, s[i], s[j])
  <2>1. /\ s[i] \in ids /\ s[j] \in ids
        /\ rank[s[i]] = i /\ rank[s[j]] = j
    BY <1>9
  <2>2. s[i] # s[j] /\ ~InOrder(rows, s[j], s[i])
    BY <1>3, <1>11, <2>1
  <2>3. QED
    BY <2>1, <2>2, InOrderTotal
<1>12. QED
  BY <1>10, <1>11

(* The answer before it is cut into pages: every record listed, once.      *)
LEMMA SortedRows ==
  ASSUME NEW rows \in Tables, NEW ids \in SUBSET RecordId
  PROVE  LET s == Sorted(rows, ids)
         IN  /\ s \in Seq(ids)
             /\ Len(s) \in Nat
             /\ DOMAIN s = 1..Len(s)
             /\ {s[i] : i \in DOMAIN s} = ids
             /\ \A i, j \in DOMAIN s : i < j => InOrder(rows, s[i], s[j])
<1> DEFINE n == Cardinality(ids)
           s == Sorted(rows, ids)
<1>1. /\ s \in [1..n -> ids]
      /\ \A i, j \in DOMAIN s : i < j => InOrder(rows, s[i], s[j])
  BY SortedExists DEF Sorted
<1> HIDE DEF s
<1>2. IsFiniteSet(ids) /\ n \in Nat
  BY FS_Subset, FS_CardinalityType, QueryConstantsOK
<1>3. s \in Seq(ids)
  BY <1>1, <1>2, SeqDef
<1>4. Len(s) = n /\ DOMAIN s = 1..n
  BY <1>1, <1>2, <1>3, LenProperties
<1>5. s \in Injection(1..n, ids)
  <2>1. ASSUME NEW i \in 1..n, NEW j \in 1..n, s[i] = s[j]
        PROVE  i = j
    <3>1. s[i] \in RecordId
      BY <1>1
    <3>2. ~(i < j) /\ ~(j < i)
      BY <1>1, <1>4, <2>1, <3>1, InOrderTotal
    <3>3. QED
      BY <3>2
  <2>2. QED
    BY <1>1, <2>1 DEF Injection, IsInjective
<1>6. s \in Surjection(1..n, ids)
  <2>1. IsFiniteSet(1..n) /\ Cardinality(1..n) = n
    BY <1>2, FS_Interval
  <2>2. QED
    BY <1>2, <1>5, <2>1, FS_Injection
<1>7. {s[i] : i \in DOMAIN s} = ids
  BY <1>1, <1>4, <1>6 DEF Surjection
<1>8. QED
  BY <1>1, <1>2, <1>3, <1>4, <1>7 DEF s

(* Whoever presses Next until there is no next page has read the answer.   *)
LEMMA PagesRead ==
  ASSUME NEW rows \in Tables, NEW window, NEW limit \in Nat \ {0}
  PROVE  goNext(rows, window, limit) = Sorted(rows, Listed(rows, window))
<1> DEFINE ids    == Listed(rows, window)
           s      == Sorted(rows, ids)
           n      == Len(s)
           last(o) == IF o + limit < n THEN o + limit ELSE n
           Def(g) == [o \in Nat |->
                        IF o + limit < n
                          THEN SubSeq(s, o + 1, last(o)) \o g[o + limit]
                          ELSE SubSeq(s, o + 1, last(o))]
           closed == [o \in Nat |-> SubSeq(s, o + 1, n)]
           read   == CHOOSE g : g = Def(g)
<1>1. goNext(rows, window, limit) = read[0]
  BY DEF goNext, getExpiring, hasNext
<1>2. ids \in SUBSET RecordId
  BY DEF Listed, Joined
<1> HIDE DEF ids
<1>3. s \in Seq(ids) /\ n \in Nat
  BY <1>2, SortedRows
<1> HIDE DEF s, n
<1>4. ASSUME NEW o \in Nat, o + limit < n
      PROVE  SubSeq(s, o + 1, last(o)) \o SubSeq(s, o + limit + 1, n) =
               SubSeq(s, o + 1, n)
  <2>1. /\ o + 1 \in 1..(Len(s) + 1)
        /\ o + limit \in ((o + 1) - 1)..Len(s)
        /\ n \in (o + limit)..Len(s)
    BY <1>3, <1>4 DEF n
  <2>2. SubSeq(s, o + 1, o + limit) \o SubSeq(s, o + limit + 1, n) =
          SubSeq(s, o + 1, n)
    BY <1>3, <2>1, ConcatAdjacentSubSeq
  <2>3. QED
    BY <1>4, <2>2
<1>5. closed = Def(closed)
  <2>1. ASSUME NEW o \in Nat
        PROVE  closed[o] = Def(closed)[o]
    <3>1. CASE o + limit < n
      <4>1. o + limit \in Nat
        OBVIOUS
      <4>2. closed[o] = SubSeq(s, o + 1, n)
              /\ closed[o + limit] = SubSeq(s, o + limit + 1, n)
        BY <4>1
      <4> HIDE DEF closed
      <4>3. QED
        BY <1>4, <3>1, <4>2
    <3>2. CASE ~(o + limit < n)
      BY <3>2
    <3>3. QED
      BY <3>1, <3>2
  <2>2. closed = [o \in Nat |-> closed[o]]
    OBVIOUS
  <2> HIDE DEF closed
  <2>3. Def(closed) = [o \in Nat |-> Def(closed)[o]]
    OBVIOUS
  <2> HIDE DEF Def
  <2>4. QED
    BY <2>1, <2>2, <2>3
<1>6. ASSUME NEW g, g = Def(g)
      PROVE  g[0] = closed[0]
  <2> DEFINE Wrong == {k \in Nat : \E o \in Nat : k + o = n /\ g[o] # closed[o]}
  <2>1. ASSUME NEW o \in Nat
        PROVE  g[o] = IF o + limit < n
                        THEN SubSeq(s, o + 1, last(o)) \o g[o + limit]
                        ELSE SubSeq(s, o + 1, n)
    BY <1>6
  <2>2. ASSUME NEW o \in Nat, g[o] # closed[o]
        PROVE  o + limit < n /\ g[o + limit] # closed[o + limit]
    <3>1. o + limit \in Nat
      OBVIOUS
    <3>2. /\ closed[o] = SubSeq(s, o + 1, n)
          /\ closed[o + limit] = SubSeq(s, o + limit + 1, n)
      BY <3>1
    <3> HIDE DEF closed, last, Def
    <3>3. CASE o + limit < n
      BY <1>4, <2>1, <2>2, <3>2, <3>3
    <3>4. CASE ~(o + limit < n)
      BY <2>1, <2>2, <3>2, <3>4
    <3>5. QED
      BY <3>3, <3>4
  <2>3. Wrong = {}
    <3> SUFFICES ASSUME Wrong # {}
                 PROVE  FALSE
      OBVIOUS
    <3>1. PICK k \in Wrong : \A m \in Wrong : k <= m
      <4>1. Wrong \in SUBSET Nat
        OBVIOUS
      <4> HIDE DEF Wrong
      <4>2. QED
        BY <4>1, LeastNumber
    <3>2. PICK o \in Nat : k + o = n /\ g[o] # closed[o]
      BY <3>1
    <3> HIDE DEF closed
    <3>3. o + limit < n /\ g[o + limit] # closed[o + limit]
      BY <2>2, <3>2
    <3>4. /\ k \in Nat /\ o + limit \in Nat
          /\ k - limit \in Nat /\ (k - limit) + (o + limit) = n
      BY <1>3, <3>1, <3>2, <3>3
    <3>5. k - limit \in Wrong
      BY <3>3, <3>4
    <3>6. k <= k - limit
      BY <3>1, <3>5
    <3> HIDE DEF Wrong
    <3>7. QED
      BY <3>4, <3>6
  <2>4. n \notin Wrong
    BY <2>3
  <2> HIDE DEF closed
  <2>5. QED
    BY <1>3, <2>4
<1>7. read = Def(read)
  <2> HIDE DEF closed, Def
  <2>1. \E g : g = Def(g)
    BY <1>5
  <2>2. QED
    BY <2>1
<1>8. closed[0] = s
  BY <1>3, SubSeqFull DEF n
<1> HIDE DEF read, Def, closed
<1>9. QED
  BY <1>1, <1>6, <1>7, <1>8 DEF s, ids

(* Turning pages shows every record of a window once, the soonest first.   *)
LEMMA PagesAll == PagesCoverWindow
<1> SUFFICES ASSUME NEW rows \in Tables, NEW from \in Day, NEW to \in Day,
                    NEW limit \in Limit
             PROVE  LET window == ExpiringWindow(CustomFilter(from, to), from)
                        read   == goNext(rows, window, limit)
                    IN  /\ ToSet(read) = Listed(rows, window)
                        /\ \A i, j \in DOMAIN read :
                             i < j => InOrder(rows, read[i], read[j])
  BY DEF PagesCoverWindow
<1> DEFINE window == ExpiringWindow(CustomFilter(from, to), from)
<1>1. limit \in Nat \ {0}
  BY QueryConstantsOK
<1>2. Listed(rows, window) \in SUBSET RecordId
  BY DEF Listed, Joined
<1> HIDE DEF window
<1>3. goNext(rows, window, limit) = Sorted(rows, Listed(rows, window))
  BY <1>1, PagesRead
<1>4. QED
  BY <1>2, <1>3, SortedRows DEF window, ToSet

(* A preset window of as many days as the buffer lists the records that    *)
(* the status rule calls expiring, for every table, day and buffer.        *)
LEMMA PresetWindow ==
  PresetIsStatusRule
<1> SUFFICES ASSUME NEW rows \in Tables, NEW today \in Day,
                    NEW buffer \in Limit,
                    \A r \in RecordId :
                      rows[r].status =
                        computeComplianceStatus(rows[r].expiry, today, buffer)
             PROVE  Listed(rows, ExpiringWindow(PresetFilter(buffer), today))
                      = {r \in Joined : rows[r].status = "expiring"}
  BY DEF PresetIsStatusRule
<1> DEFINE window == ExpiringWindow(PresetFilter(buffer), today)
<1>1. window.from = today /\ window.to = today + buffer
  BY DEF ExpiringWindow, PresetFilter, addDaysToDateString
<1> HIDE DEF window
<1>2. ASSUME NEW r \in Joined
      PROVE  /\ rows[r].status \in EvaluableStatus
             /\ rows[r].expiry >= window.from /\ rows[r].expiry <= window.to
             <=> rows[r].status = "expiring"
  <2>1. r \in RecordId
    BY DEF Joined
  <2>2. rows[r].expiry \in Nat /\ today \in Nat /\ buffer \in Nat
    BY <2>1, QueryConstantsOK DEF Tables
  <2> DEFINE expiry == rows[r].expiry
             status == rows[r].status
  <2>3. status = IF expiry < today THEN "expired"
                 ELSE IF expiry <= today + buffer THEN "expiring"
                 ELSE "active"
    BY <2>1 DEF computeComplianceStatus, addDaysToDateString
  <2> HIDE DEF expiry, status
  <2>4. expiry \in Nat
    BY <2>2 DEF expiry
  <2>5. /\ status \in EvaluableStatus
        /\ expiry >= window.from /\ expiry <= window.to
        <=> status = "expiring"
    BY <1>1, <2>2, <2>3, <2>4 DEF EvaluableStatus
  <2>6. QED
    BY <2>5 DEF expiry, status
<1>3. Listed(rows, window) = {r \in Joined : rows[r].status = "expiring"}
  BY <1>2 DEF Listed
<1>4. QED
  BY <1>3 DEF window
=============================================================================
