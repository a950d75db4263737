--------------------------- MODULE AnalysisProofs ---------------------------
(***************************************************************************)
(* Theorems about the analysis engine of the worker, for all values of the *)
(* constants: FrameComparison (the comparisons of a date), AgendaEvents    *)
(* (the events of a day) and ArticleProfile (the profile of an article).   *)
(***************************************************************************)
EXTENDS FrameComparison, AgendaEvents, ArticleProfile,
        FiniteSetTheorems, WellFoundedInduction, TLAPS

----------------------------------------------------------------------------
(* Finite sets, orders on them, and functions defined by recursion *)

\* Of subsets of a finite set one has no other below it.
LEMMA SmallestSubset ==
  ASSUME NEW S, IsFiniteSet(S), NEW Bad \in SUBSET SUBSET S, Bad # {}
  PROVE  \E T \in Bad : \A U \in Bad : U \subseteq T => U = T
<1>1. FiniteSubsetsOf(S) = SUBSET S
  BY FS_FiniteSubsetsOfFinite
<1>2. IsWellFoundedOn(StrictSubsetOrdering(S), FiniteSubsetsOf(S))
  BY FS_StrictSubsetOrderingWellFounded
<1>3. PICK T \in Bad : \A U \in Bad : ~(<<U, T>> \in StrictSubsetOrdering(S))
  BY <1>1, <1>2, WFMin
<1>4. ASSUME NEW U \in Bad, U \subseteq T PROVE U = T
  <2>1. SUFFICES ASSUME U # T PROVE <<U, T>> \in StrictSubsetOrdering(S)
    BY <1>3
  <2>2. U \in SUBSET S /\ T \in SUBSET S
    OBVIOUS
  <2>. QED
    BY <2>1, <2>2, <1>4 DEF StrictSubsetOrdering
<1>. QED
  BY <1>4

\* A finite set that is not empty has a first element in any total order.
LEMMA TopOf ==
  ASSUME NEW S, IsFiniteSet(S), S # {}, NEW R,
         \A x, y \in S : <<x, y>> \in R \/ <<y, x>> \in R,
         \A x, y, z \in S : <<x, y>> \in R /\ <<y, z>> \in R => <<x, z>> \in R
  PROVE  \E x \in S : \A y \in S : <<x, y>> \in R
<1> DEFINE above(x) == {y \in S : ~(<<x, y>> \in R)}
           aboves == {above(x) : x \in S}
<1>1. aboves \in SUBSET SUBSET S /\ aboves # {}
  <2>1. \A x \in S : above(x) \in SUBSET S
    OBVIOUS
  <2> HIDE DEF above
  <2>2. aboves # {}
    OBVIOUS
  <2>3. \A T \in aboves : T \in SUBSET S
    BY <2>1
  <2> HIDE DEF aboves
  <2>. QED
    BY <2>2, <2>3
<1>2. PICK T \in aboves : \A U \in aboves : U \subseteq T => U = T
  <2> HIDE DEF aboves
  <2>. QED
    BY <1>1, SmallestSubset
<1>3. PICK x \in S : T = above(x)
  BY <1>2
<1>4. ASSUME NEW y \in S, ~(<<x, y>> \in R) PROVE FALSE
  <2>1. <<y, x>> \in R /\ <<y, y>> \in R
    BY <1>4
  <2>2. above(y) \subseteq above(x)
    BY <2>1
  <2>3. y \in above(x) /\ y \notin above(y)
    BY <1>4, <2>1
  <2>4. above(y) \in aboves
    OBVIOUS
  <2> HIDE DEF above, aboves
  <2>. QED
    BY <1>2, <1>3, <2>2, <2>3, <2>4
<1>. QED
  BY <1>4

\* In a strict total order no more than k elements have fewer than k before them.
LEMMA FirstFew ==
  ASSUME NEW S, IsFiniteSet(S), NEW R, NEW k \in Nat,
         \A x \in S : ~(<<x, x>> \in R),
         \A x, y \in S : x = y \/ <<x, y>> \in R \/ <<y, x>> \in R,
         \A x, y, z \in S : <<x, y>> \in R /\ <<y, z>> \in R => <<x, z>> \in R
  PROVE  LET few == {x \in S : Cardinality({y \in S : <<y, x>> \in R}) < k}
         IN  IsFiniteSet(few) /\ Cardinality(few) <= k
<1> DEFINE before(x) == {y \in S : <<y, x>> \in R}
           few == {x \in S : Cardinality(before(x)) < k}
           rank == [x \in few |-> Cardinality(before(x))]
<1>1. \A x \in S : IsFiniteSet(before(x)) /\ Cardinality(before(x)) \in Nat
  BY FS_Subset, FS_CardinalityType
<1>2. ASSUME NEW x \in S, NEW y \in S, <<x, y>> \in R PROVE Cardinality(before(x)) < Cardinality(before(y))
  <2>1. before(x) \subseteq before(y) /\ x \in before(y) /\ x \notin before(x)
    BY <1>2
  <2>2. before(x) \in SUBSET before(y) /\ before(x) # before(y) /\ IsFiniteSet(before(y))
    BY <2>1, <1>1
  <2>3. Cardinality(before(x)) <= Cardinality(before(y)) /\ Cardinality(before(x)) # Cardinality(before(y))
    <3> HIDE DEF before
    <3>. QED
      BY <2>2, FS_Subset
  <2>4. Cardinality(before(x)) \in Nat /\ Cardinality(before(y)) \in Nat
    BY <1>1
  <2> HIDE DEF before
  <2>. QED
    BY <2>3, <2>4
<1>3. rank \in [few -> 0 .. k - 1]
  <2>1. SUFFICES ASSUME NEW x \in few PROVE Cardinality(before(x)) \in 0 .. k - 1
    OBVIOUS
  <2>2. Cardinality(before(x)) \in Nat /\ Cardinality(before(x)) < k
    BY <1>1
  <2> HIDE DEF before, few
  <2>. QED
    BY <2>2
<1>4. rank \in Injection(few, 0 .. k - 1)
  <2>1. ASSUME NEW x \in few, NEW y \in few, rank[x] = rank[y] PROVE x = y
    <3>1. ASSUME NEW u \in few, NEW v \in few, <<u, v>> \in R PROVE rank[u] # rank[v]
      <4>0. u \in S /\ v \in S
        OBVIOUS
      <4>1. Cardinality(before(u)) < Cardinality(before(v)) /\ Cardinality(before(u)) \in Nat /\ Cardinality(before(v)) \in Nat
        <5> HIDE DEF before, few, rank
        <5>. QED
          BY <4>0, <3>1, <1>1, <1>2
      <4>2. rank[u] = Cardinality(before(u)) /\ rank[v] = Cardinality(before(v))
        OBVIOUS
      <4> HIDE DEF rank, before
      <4>. QED
        BY <4>1, <4>2
    <3> HIDE DEF rank
    <3>. QED
      BY <2>1, <3>1
  <2> HIDE DEF rank, few
  <2>. QED
    BY <1>3, <2>1 DEF Injection, IsInjective
<1>5. IsFiniteSet(0 .. k - 1) /\ Cardinality(0 .. k - 1) = k
  BY FS_Interval
<1> HIDE DEF rank, few
<1>6. IsFiniteSet(few) /\ Cardinality(few) <= k
  BY <1>4, <1>5, FS_Injection
<1>. QED
  BY <1>6 DEF few

\* What a function makes of a finite set is finite.
LEMMA ImageOf ==
  ASSUME NEW S, IsFiniteSet(S), NEW f
  PROVE  IsFiniteSet({f[x] : x \in S}) /\ Cardinality({f[x] : x \in S}) <= Cardinality(S)
<1> DEFINE T == {f[x] : x \in S}
           g == [x \in S |-> f[x]]
<1>1. g \in Surjection(S, T)
  BY DEF Surjection
<1> HIDE DEF T, g
<1>. QED
  BY <1>1, FS_Surjection DEF T

\* Two elements
LEMMA TwoOf ==
  ASSUME NEW S, IsFiniteSet(S)
  PROVE  /\ Cardinality(S) \in Nat
         /\ Cardinality(S) >= 1 <=> S # {}
         /\ Cardinality(S) >= 2 <=> \E x, y \in S : x # y
<1>1. Cardinality(S) \in Nat /\ (Cardinality(S) = 0 <=> S = {})
  BY FS_CardinalityType, FS_EmptySet
<1>2. Cardinality(S) = 1 <=> \E x : S = {x}
  BY FS_Singleton
<1>3. S # {} /\ ~(\E x : S = {x}) <=> \E x, y \in S : x # y
  <2>1. ASSUME S # {}, ~(\E x : S = {x}) PROVE \E x, y \in S : x # y
    <3>1. PICK x \in S : TRUE
      BY <2>1
    <3>2. S # {x}
      BY <2>1
    <3>. QED
      BY <3>1, <3>2
  <2>. QED
    BY <2>1
<1>. QED
  BY <1>1, <1>2, <1>3

\* Every finite set of numbers that is not empty has a least and a greatest one.
LEMMA EndsOf ==
  ASSUME NEW S \in SUBSET Nat, IsFiniteSet(S), S # {}
  PROVE  (\E x \in S : \A y \in S : x <= y) /\ (\E x \in S : \A y \in S : y <= x)
<1> DEFINE up == {p \in Nat \X Nat : p[1] <= p[2]}
           down == {p \in Nat \X Nat : p[2] <= p[1]}
<1>1. \A x, y \in S : x \in Nat /\ y \in Nat /\ (<<x, y>> \in up <=> x <= y) /\ (<<x, y>> \in down <=> y <= x)
  OBVIOUS
<1> HIDE DEF up, down
<1>2. /\ \A x, y \in S : <<x, y>> \in up \/ <<y, x>> \in up
      /\ \A x, y, z \in S : <<x, y>> \in up /\ <<y, z>> \in up => <<x, z>> \in up
  BY <1>1
<1>3. /\ \A x, y \in S : <<x, y>> \in down \/ <<y, x>> \in down
      /\ \A x, y, z \in S : <<x, y>> \in down /\ <<y, z>> \in down => <<x, z>> \in down
  BY <1>1
<1>4. \E x \in S : \A y \in S : <<x, y>> \in up
  BY <1>2, TopOf
<1>5. \E x \in S : \A y \in S : <<x, y>> \in down
  BY <1>3, TopOf
<1>. QED
  BY <1>1, <1>4, <1>5

\* A function of the subsets of a set that takes their elements one after the other, as pick says
Grows(f, T, base, pick, step) ==
  \A r \in SUBSET T : f[r] = IF r = {} THEN base ELSE step[<<f[r \ {pick[r]}], pick[r]>>]

LEMMA GrownUnique ==
  ASSUME NEW S, IsFiniteSet(S), NEW base, NEW pick, \A r \in SUBSET S : r # {} => pick[r] \in r, NEW step,
         NEW f, NEW g, Grows(f, S, base, pick, step), Grows(g, S, base, pick, step)
  PROVE  \A r \in SUBSET S : f[r] = g[r]
<1> DEFINE Bad == {r \in SUBSET S : f[r] # g[r]}
<1>0. Bad \in SUBSET SUBSET S
  OBVIOUS
<1>1. SUFFICES ASSUME Bad # {} PROVE FALSE
  OBVIOUS
<1>2. PICK r \in Bad : \A U \in Bad : U \subseteq r => U = r
  <2> HIDE DEF Bad
  <2>. QED
    BY <1>0, <1>1, SmallestSubset
<1>3. r \in SUBSET S /\ f[r] # g[r]
  OBVIOUS
<1>4. r # {}
  BY <1>3 DEF Grows
<1> DEFINE rest == r \ {pick[r]}
<1>5. rest \in SUBSET S /\ rest \subseteq r /\ rest # r
  BY <1>3, <1>4
<1> HIDE DEF rest
<1>6. f[rest] = g[rest]
  BY <1>2, <1>5
<1>7. f[r] = step[<<f[rest], pick[r]>>] /\ g[r] = step[<<g[rest], pick[r]>>]
  BY <1>3, <1>4 DEF Grows, rest
<1>. QED
  BY <1>3, <1>6, <1>7

LEMMA GrownExists ==
  ASSUME NEW S, IsFiniteSet(S), NEW V, NEW base \in V,
         NEW pick, \A r \in SUBSET S : r # {} => pick[r] \in r, NEW step \in [V \X S -> V]
  PROVE  \E f \in [SUBSET S -> V] : Grows(f, S, base, pick, step)
<1> DEFINE good(T, f) == f \in [SUBSET T -> V] /\ Grows(f, T, base, pick, step)
           Bad == {T \in SUBSET S : ~(\E f : good(T, f))}
<1>0. Bad \in SUBSET SUBSET S
  OBVIOUS
<1>1. SUFFICES ASSUME Bad # {} PROVE FALSE
  OBVIOUS
<1>2. PICK T \in Bad : \A U \in Bad : U \subseteq T => U = T
  <2> HIDE DEF Bad, good
  <2>. QED
    BY <1>0, <1>1, SmallestSubset
<1> DEFINE of(r) == CHOOSE f : good(r, f)
           p == pick[T]
           h == [r \in SUBSET T |-> IF r = T THEN (IF T = {} THEN base ELSE step[<<of(T \ {p})[T \ {p}], p>>])
                                    ELSE of(r)[r]]
<1>3. T \in SUBSET S /\ ~(\E f : good(T, f))
  OBVIOUS
<1>4. ASSUME NEW r \in SUBSET T, r # T PROVE good(r, of(r))
  <2>1. r \notin Bad
    BY <1>2, <1>4
  <2>2. \E f : good(r, f)
    BY <2>1, <1>3
  <2> HIDE DEF good
  <2>. QED
    BY <2>2
<1>5. T # {} => p \in T /\ T \ {p} \in SUBSET T /\ T \ {p} # T
  BY <1>3
<1>6. \A r \in SUBSET T : r # T => of(r)[r] \in V
  BY <1>4
<1>7. h \in [SUBSET T -> V]
  <2>1. T # {} => step[<<of(T \ {p})[T \ {p}], p>>] \in V
    BY <1>3, <1>5, <1>6
  <2> HIDE DEF of, p
  <2>. QED
    BY <1>6, <2>1
<1>8. ASSUME NEW r \in SUBSET T
      PROVE  h[r] = IF r = {} THEN base ELSE step[<<h[r \ {pick[r]}], pick[r]>>]
  <2>1. CASE r = {}
    <3>1. CASE T = {}
      BY <2>1, <3>1
    <3>2. CASE T # {}
      <4>1. h[r] = of(r)[r] /\ Grows(of(r), r, base, pick, step)
        BY <2>1, <3>2, <1>4
      <4>. QED
        BY <2>1, <4>1 DEF Grows
    <3>. QED
      BY <3>1, <3>2
  <2>2. CASE r # {} /\ r = T
    <3>1. h[T] = step[<<of(T \ {p})[T \ {p}], p>>] /\ h[T \ {p}] = of(T \ {p})[T \ {p}]
      BY <2>2, <1>5
    <3> HIDE DEF h
    <3>. QED
      BY <2>2, <3>1
  <2>3. CASE r # {} /\ r # T
    <3> DEFINE rest == r \ {pick[r]}
    <3>1. pick[r] \in r /\ rest \in SUBSET T /\ rest # T /\ rest \in SUBSET r
      BY <2>3, <1>3
    <3>2. h[r] = of(r)[r] /\ h[rest] = of(rest)[rest]
      BY <2>3, <3>1
    <3>3. Grows(of(r), r, base, pick, step) /\ Grows(of(rest), rest, base, pick, step)
      BY <2>3, <3>1, <1>4
    <3> HIDE DEF h, of, rest, good
    <3>4. Grows(of(r), rest, base, pick, step)
      BY <3>1, <3>3 DEF Grows
    <3>5. IsFiniteSet(rest) /\ \A u \in SUBSET rest : u # {} => pick[u] \in u
      <4>1. rest \in SUBSET S
        BY <3>1, <1>3
      <4>. QED
        BY <4>1, FS_Subset
    <3>6. of(r)[rest] = of(rest)[rest]
      BY <3>3, <3>4, <3>5, GrownUnique
    <3>7. of(r)[r] = step[<<of(r)[rest], pick[r]>>]
      BY <2>3, <3>3 DEF Grows, rest
    <3>. QED
      BY <2>3, <3>2, <3>6, <3>7 DEF rest
  <2>. QED
    BY <2>1, <2>2, <2>3
<1> HIDE DEF h
<1>9. good(T, h)
  BY <1>7, <1>8 DEF Grows
<1>. QED
  BY <1>3, <1>9

----------------------------------------------------------------------------
(* FrameComparison: the clusters of an issue's articles *)

\* The last of a finite set of numbers
LEMMA FinalOf ==
  ASSUME NEW S \in SUBSET Nat, IsFiniteSet(S), S # {}
  PROVE  Final(S) \in S /\ \A y \in S : y <= Final(S)
<1>1. \E x \in S : \A y \in S : y <= x
  BY EndsOf
<1>. QED
  BY <1>1 DEF Final

LEMMA FirstOfSet ==
  ASSUME NEW S \in SUBSET Nat, IsFiniteSet(S), S # {}
  PROVE  First(S) \in S /\ \A y \in S : First(S) <= y
<1>1. \E x \in S : \A y \in S : x <= y
  BY EndsOf
<1>. QED
  BY <1>1 DEF First

\* The clusters that can be: sets of articles, none of them empty
ClusterSets(ps) == SUBSET ((SUBSET ps) \ {{}})

\* The largest of some clusters, of equals the one that begins first
LEMMA HomeOf ==
  ASSUME NEW ps \in SUBSET Nat, IsFiniteSet(ps), NEW fitting \in ClusterSets(ps), fitting # {}
  PROVE  \E c \in fitting : \A e \in fitting : \/ Cardinality(c) > Cardinality(e)
                                               \/ Cardinality(c) = Cardinality(e) /\ First(c) <= First(e)
<1> DEFINE R == {p \in fitting \X fitting : \/ Cardinality(p[1]) > Cardinality(p[2])
                                            \/ Cardinality(p[1]) = Cardinality(p[2]) /\ First(p[1]) <= First(p[2])}
<1>1. \A c \in fitting : Cardinality(c) \in Nat /\ First(c) \in Nat
  <2>1. SUFFICES ASSUME NEW c \in fitting PROVE Cardinality(c) \in Nat /\ First(c) \in Nat
    OBVIOUS
  <2>2. c \in SUBSET ps /\ c # {} /\ c \in SUBSET Nat
    <3>1. fitting \subseteq (SUBSET ps) \ {{}}
      BY DEF ClusterSets
    <3>2. c \in SUBSET ps /\ c # {}
      BY <3>1
    <3>. QED
      BY <3>2
  <2>3. IsFiniteSet(c)
    BY <2>2, FS_Subset
  <2>. QED
    BY <2>2, <2>3, FirstOfSet, FS_CardinalityType
<1>2. \A c, e \in fitting : <<c, e>> \in R <=> \/ Cardinality(c) > Cardinality(e)
                                               \/ Cardinality(c) = Cardinality(e) /\ First(c) <= First(e)
  OBVIOUS
<1> HIDE DEF R
<1>3. \A c, e \in fitting : <<c, e>> \in R \/ <<e, c>> \in R
  <2>1. SUFFICES ASSUME NEW c \in fitting, NEW e \in fitting PROVE <<c, e>> \in R \/ <<e, c>> \in R
    OBVIOUS
  <2>2. Cardinality(c) \in Nat /\ Cardinality(e) \in Nat /\ First(c) \in Nat /\ First(e) \in Nat
    BY <1>1
  <2>. QED
    BY <2>2, <1>2
<1>4. \A c, e, g \in fitting : <<c, e>> \in R /\ <<e, g>> \in R => <<c, g>> \in R
  <2>1. SUFFICES ASSUME NEW c \in fitting, NEW e \in fitting, NEW g \in fitting, <<c, e>> \in R, <<e, g>> \in R
                 PROVE  <<c, g>> \in R
    OBVIOUS
  <2>2. /\ Cardinality(c) \in Nat /\ Cardinality(e) \in Nat /\ Cardinality(g) \in Nat
        /\ First(c) \in Nat /\ First(e) \in Nat /\ First(g) \in Nat
    BY <1>1
  <2>. QED
    BY <2>1, <2>2, <1>2
<1>5. IsFiniteSet(fitting)
  BY FS_SUBSET, FS_Subset DEF ClusterSets
<1>6. PICK c \in fitting : \A e \in fitting : <<c, e>> \in R
  BY <1>3, <1>4, <1>5, TopOf
<1>. QED
  BY <1>2, <1>6

----------------------------------------------------------------------------
(* FrameComparison: what is read of a day stays while the run decides *)

LEMMA DayKept ==
  ASSUME day' = day
  PROVE  /\ \A a, d : Said(a, d)' = Said(a, d)
         /\ \A a, d : Narrated(a, d)' = Narrated(a, d)
         /\ \A a : Lineage(a)' = Lineage(a) /\ Telling(a)' = Telling(a)
         /\ \A ps, d, x : Saying(ps, d, x)' = Saying(ps, d, x)
         /\ \A ps, d, f : Narrating(ps, d, f)' = Narrating(ps, d, f)
         /\ \A ps, d : Patterns(ps, d)' = Patterns(ps, d) /\ Shown(ps, d)' = Shown(ps, d)
         /\ \A ps, d, x : Passages(ps, d, x)' = Passages(ps, d, x)
         /\ \A a, d : NarrativeSignature(a, d)' = NarrativeSignature(a, d)
         /\ \A ps : Roles(ps)' = Roles(ps)
         /\ \A ps : OneEngine(ps)' <=> OneEngine(ps)
         /\ \A n : Issue(n)' = Issue(n) /\ Profiled(n)' = Profiled(n)
         /\ \A n : ApprovalOf(n)' = ApprovalOf(n)
         /\ \A n : Resolves(n)' <=> Resolves(n)
<1>1. \A a, d : Said(a, d)' = Said(a, d)
  BY DEF Said
<1>2. \A a, d : Narrated(a, d)' = Narrated(a, d)
  BY <1>1 DEF Narrated
<1>3. \A a : Lineage(a)' = Lineage(a)
  BY DEF Lineage
<1>13. \A a, d : NarrativeSignature(a, d)' = NarrativeSignature(a, d)
  BY <1>2 DEF NarrativeSignature
<1>4. \A a : Telling(a)' = Telling(a)
  BY <1>13 DEF Telling
<1>5. \A ps, d, x : Saying(ps, d, x)' = Saying(ps, d, x)
  BY <1>1 DEF Saying
<1>6. \A ps, d, f : Narrating(ps, d, f)' = Narrating(ps, d, f)
  BY <1>5 DEF Narrating
<1>7. \A ps, d : Patterns(ps, d)' = Patterns(ps, d)
  BY <1>1 DEF Patterns
<1>14. \A ps, d : Shown(ps, d)' = Shown(ps, d)
  <2>1. \A ps, d, x, y : Before(ps, d, x, y)' <=> Before(ps, d, x, y)
    BY <1>5 DEF Before
  <2>. QED
    BY <2>1, <1>7 DEF Shown
<1>15. \A ps, d, x : Passages(ps, d, x)' = Passages(ps, d, x)
  BY DEF Passages
<1>8. \A ps : Roles(ps)' = Roles(ps)
  BY DEF Roles
<1>9. \A ps : OneEngine(ps)' <=> OneEngine(ps)
  BY <1>3 DEF OneEngine
<1>10. \A n : Issue(n)' = Issue(n) /\ Profiled(n)' = Profiled(n)
  BY DEF Issue, Profiled
<1>11. \A n : ApprovalOf(n)' = ApprovalOf(n)
  <2>1. SUFFICES ASSUME NEW n PROVE ApprovalOf(n)' = ApprovalOf(n)
    OBVIOUS
  <2> DEFINE chosen(ps, I) == CHOOSE p \in ps : p.articles = I.articles
             exists(ps, I) == \E p \in ps : p.articles = I.articles /\ Cardinality(p.articles) >= 2
  <2>2. ApprovalOf(n) = IF exists(day.approvals, Issue(n)) THEN chosen(day.approvals, Issue(n)) ELSE NoApproval
    BY DEF ApprovalOf
  <2>3. ApprovalOf(n)' = IF exists(day'.approvals, Issue(n)') THEN chosen(day'.approvals, Issue(n)') ELSE NoApproval
    BY DEF ApprovalOf
  <2>4. Issue(n)' = Issue(n)
    BY <1>10
  <2> HIDE DEF chosen, exists
  <2>. QED
    BY <2>2, <2>3, <2>4
<1>12. \A n : Resolves(n)' <=> Resolves(n)
  BY <1>3, <1>10, <1>11 DEF Resolves, Approved
<1>. QED
  BY <1>1, <1>2, <1>3, <1>4, <1>5, <1>6, <1>7, <1>8, <1>9, <1>10, <1>11, <1>12, <1>13, <1>14, <1>15

\* Articles of a day that was read: what they say is finite.
LEMMA SayingsOf ==
  ASSUME DayRead(day), NEW ps, ps \subseteq DOMAIN day.profile
  PROVE  /\ IsFiniteSet(ps) /\ ps \in SUBSET Nat
         /\ \A a \in ps, d \in Dimensions : IsFiniteSet(Said(a, d)) /\ Said(a, d) \subseteq Nat \X Voices
         /\ \A a \in ps, d \in Dimensions : Narrated(a, d) = {f \in Nat : <<f, "narration">> \in Said(a, d)}
         /\ \A d, x : IsFiniteSet(Saying(ps, d, x)) /\ Saying(ps, d, x) \subseteq ps
         /\ \A d, f : /\ IsFiniteSet(Narrating(ps, d, f)) /\ Narrating(ps, d, f) \subseteq ps
                      /\ Cardinality(Narrating(ps, d, f)) \in Nat
<1>1. IsFiniteSet(ps) /\ ps \in SUBSET Nat
  BY FS_Subset DEF DayRead
<1>2. ASSUME NEW a \in ps, NEW d \in Dimensions PROVE IsFiniteSet(Said(a, d)) /\ Said(a, d) \subseteq Nat \X Voices
  <2> DEFINE items == day.profile[a].items[d]
             pair == [i \in items |-> <<i[1], i[2]>>]
  <2>1. IsFiniteSet(items) /\ items \subseteq Nat \X Voices \X Nat
    BY <1>2 DEF DayRead
  <2>2. Said(a, d) = {pair[i] : i \in items}
    BY DEF Said
  <2>3. Said(a, d) \subseteq Nat \X Voices
    BY <2>1 DEF Said
  <2> HIDE DEF items, pair
  <2>. QED
    BY <2>1, <2>2, <2>3, ImageOf
<1>3. ASSUME NEW a \in ps, NEW d \in Dimensions PROVE Narrated(a, d) = {f \in Nat : <<f, "narration">> \in Said(a, d)}
  <2>1. \A x \in Said(a, d) : x[1] \in Nat /\ x = <<x[1], x[2]>>
    BY <1>2
  <2>. QED
    BY <2>1 DEF Narrated
<1>4. \A d, x : IsFiniteSet(Saying(ps, d, x)) /\ Saying(ps, d, x) \subseteq ps
  <2>1. SUFFICES ASSUME NEW d, NEW x PROVE IsFiniteSet(Saying(ps, d, x)) /\ Saying(ps, d, x) \subseteq ps
    OBVIOUS
  <2>2. Saying(ps, d, x) \subseteq ps
    BY DEF Saying
  <2>. QED
    BY <2>2, <1>1, FS_Subset
<1>5. \A d, f : /\ IsFiniteSet(Narrating(ps, d, f)) /\ Narrating(ps, d, f) \subseteq ps
                /\ Cardinality(Narrating(ps, d, f)) \in Nat
  BY <1>4, FS_CardinalityType DEF Narrating
<1>. QED
  BY <1>1, <1>2, <1>3, <1>4, <1>5

\* Groups that narrate apart are a difference of the outlets' own.
LEMMA DifferenceFound ==
  ASSUME DayRead(day), NEW ps, ps \subseteq DOMAIN day.profile, NEW approval
  PROVE  DifferenceOwn(PublicForm(ps, approval))
<1> DEFINE c == PublicForm(ps, approval)
<1>1. c.articles = ps /\ c.detected = Detected(ps)
  BY DEF PublicForm
<1> HIDE DEF c
<1>2. SUFFICES ASSUME Detected(ps)
               PROVE  /\ \A a \in ps : Lineage(a).semantic => Lineage(a).reviewed
                      /\ \E a, b \in ps, d \in Dimensions :
                           /\ \E f \in Narrated(a, d) : \A e \in ps : GroupsOf({e}) = GroupsOf({b}) => f \notin Narrated(e, d)
                           /\ \E g \in Narrated(b, d) : \A e \in ps : GroupsOf({e}) = GroupsOf({a}) => g \notin Narrated(e, d)
  BY <1>1 DEF DifferenceOwn, c
<1>3. \A a \in ps : Lineage(a).semantic => Lineage(a).reviewed
  BY <1>2 DEF Detected, Draft
<1>0. PICK d \in Dimensions : \E f, g \in Frames(ps, d) : Exclusive(ps, d, f, g)
  BY <1>2 DEF Detected, Divergent
<1>4. PICK f \in Frames(ps, d), g \in Frames(ps, d) : Exclusive(ps, d, f, g)
  BY <1>0
<1>5. PICK a \in Narrating(ps, d, f) : GroupOf[OutletOf[a]] \notin GroupsOf(Narrating(ps, d, g))
  BY <1>4 DEF Exclusive, GroupsOf
<1>6. PICK b \in Narrating(ps, d, g) : GroupOf[OutletOf[b]] \notin GroupsOf(Narrating(ps, d, f))
  BY <1>4 DEF Exclusive, GroupsOf
<1>7. \A e \in ps : \A h : h \in Narrated(e, d) <=> h \in Nat /\ e \in Narrating(ps, d, h)
  <2>1. SUFFICES ASSUME NEW e \in ps, NEW h PROVE h \in Narrated(e, d) <=> h \in Nat /\ e \in Narrating(ps, d, h)
    OBVIOUS
  <2>2. Narrated(e, d) = {x \in Nat : <<x, "narration">> \in Said(e, d)}
    BY SayingsOf
  <2>3. e \in Narrating(ps, d, h) <=> <<h, "narration">> \in Said(e, d)
    BY DEF Narrating, Saying
  <2>. QED
    BY <2>2, <2>3
<1>8. f \in Nat /\ g \in Nat
  BY <1>7, SayingsOf DEF Frames
<1>9. \A e \in ps : GroupsOf({e}) = {GroupOf[OutletOf[e]]}
  BY DEF GroupsOf
<1>10. \A h, e : e \in Narrating(ps, d, h) => GroupOf[OutletOf[e]] \in GroupsOf(Narrating(ps, d, h))
  BY DEF GroupsOf
<1>11. a \in ps /\ b \in ps /\ f \in Narrated(a, d) /\ g \in Narrated(b, d)
  BY <1>5, <1>6, <1>7, <1>8 DEF Narrating, Saying
<1>12. \A e \in ps : GroupsOf({e}) = GroupsOf({b}) => f \notin Narrated(e, d)
  <2>1. SUFFICES ASSUME NEW e \in ps, GroupsOf({e}) = GroupsOf({b}), f \in Narrated(e, d) PROVE FALSE
    OBVIOUS
  <2>2. e \in Narrating(ps, d, f)
    BY <2>1, <1>7
  <2>3. GroupOf[OutletOf[e]] = GroupOf[OutletOf[b]]
    BY <2>1, <1>9, <1>11
  <2>. QED
    BY <2>2, <2>3, <1>6, <1>10
<1>13. \A e \in ps : GroupsOf({e}) = GroupsOf({a}) => g \notin Narrated(e, d)
  <2>1. SUFFICES ASSUME NEW e \in ps, GroupsOf({e}) = GroupsOf({a}), g \in Narrated(e, d) PROVE FALSE
    OBVIOUS
  <2>2. e \in Narrating(ps, d, g)
    BY <2>1, <1>7
  <2>3. GroupOf[OutletOf[e]] = GroupOf[OutletOf[a]]
    BY <2>1, <1>9, <1>11
  <2>. QED
    BY <2>2, <2>3, <1>5, <1>10
<1>. QED
  BY <1>3, <1>11, <1>12, <1>13

\* A rounded share has the sign of what it is a share of.
LEMMA SignKept ==
  ASSUME NEW p \in Int, NEW q \in Nat, q > 0
  PROVE  /\ Thousandths(p, q) \in Int
         /\ p >= 0 => Thousandths(p, q) >= 0
         /\ p <= 0 => Thousandths(p, q) <= 0
<1> DEFINE n == 2000 * p + q
           m == 2 * q
           t == n \div m
<1>1. n \in Int /\ m \in Nat /\ m > 0
  OBVIOUS
<1>2. (p >= 0 => n >= 0) /\ (p <= 0 => n < m)
  OBVIOUS
<1>3. Thousandths(p, q) = t
  BY DEF Thousandths
<1> HIDE DEF n, m
<1>4. t \in Int /\ (n >= 0 => t >= 0) /\ (n < m => t <= 0)
  BY <1>1
<1> HIDE DEF t
<1>. QED
  BY <1>2, <1>3, <1>4

----------------------------------------------------------------------------
(* FrameComparison: the issue map *)

\* The first difference decides.
LEMMA AboveMeans ==
  ASSUME NEW x, NEW y
  PROVE  Above(x, y) <=> \/ x[1] > y[1]
                         \/ x[1] = y[1] /\ x[2] > y[2]
                         \/ x[1] = y[1] /\ x[2] = y[2] /\ x[3] > y[3]
<1>1. 1 .. 3 = {1, 2, 3} /\ 1 .. 1 - 1 = {} /\ 1 .. 2 - 1 = {1} /\ 1 .. 3 - 1 = {1, 2}
  OBVIOUS
<1>2. Above(x, y) <=> \E i \in {1, 2, 3} : x[i] > y[i] /\ \A j \in 1 .. i - 1 : x[j] = y[j]
  BY <1>1 DEF Above
<1>. QED
  BY <1>1, <1>2

\* The frames that are narrated in a dimension
LEMMA FramesOf ==
  ASSUME DayRead(day), NEW ps, ps \subseteq DOMAIN day.profile, NEW d \in Dimensions
  PROVE  Frames(ps, d) \in SUBSET Nat /\ IsFiniteSet(Frames(ps, d))
<1>1. \A a \in ps : Narrated(a, d) \in SUBSET Nat /\ IsFiniteSet(Narrated(a, d))
  <2>1. SUFFICES ASSUME NEW a \in ps PROVE Narrated(a, d) \in SUBSET Nat /\ IsFiniteSet(Narrated(a, d))
    OBVIOUS
  <2>1a. Narrated(a, d) = {f \in Nat : <<f, "narration">> \in Said(a, d)}
    BY SayingsOf
  <2>2. Narrated(a, d) \in SUBSET Nat
    BY <2>1a
  <2>3. IsFiniteSet({y \in Said(a, d) : y[2] = "narration"})
    BY SayingsOf, FS_Subset
  <2> DEFINE T == {y \in Said(a, d) : y[2] = "narration"}
             first == [y \in T |-> y[1]]
  <2>4. Narrated(a, d) = {first[y] : y \in T}
    BY DEF Narrated
  <2> HIDE DEF T, first
  <2>5. IsFiniteSet({first[y] : y \in T})
    BY <2>3, ImageOf DEF T
  <2>. QED
    BY <2>2, <2>4, <2>5
<1>2. IsFiniteSet({Narrated(a, d) : a \in ps})
  <2> DEFINE said == [a \in ps |-> Narrated(a, d)]
  <2>1. {Narrated(a, d) : a \in ps} = {said[a] : a \in ps}
    OBVIOUS
  <2>2. IsFiniteSet(ps)
    BY SayingsOf
  <2> HIDE DEF said
  <2>3. IsFiniteSet({said[a] : a \in ps})
    BY <2>2, ImageOf
  <2>. QED
    BY <2>1, <2>3
<1>3. IsFiniteSet(UNION {Narrated(a, d) : a \in ps})
  <2>1. \A T \in {Narrated(a, d) : a \in ps} : IsFiniteSet(T)
    BY <1>1
  <2>. QED
    BY <1>2, <2>1, FS_UNION
<1>. QED
  BY <1>1, <1>3 DEF Frames

\* Two frames with the articles that narrate them, and the ranks of such pairs
LEMMA PairsOf ==
  ASSUME DayRead(day), NEW ps, ps \subseteq DOMAIN day.profile
  PROVE  /\ IsFiniteSet(Pairs(ps))
         /\ \A p \in Pairs(ps) : /\ p = <<p[1], p[2]>> /\ p[1] \in Nat /\ p[2] \in Nat
                                 /\ p[1] \in Anchors(ps) /\ p[2] \in Anchors(ps)
                                 /\ \E r1, r2, r3 \in Int : PairRank(ps, p) = <<r1, r2, r3>>
<1>1. Frames(ps, Problem) \in SUBSET Nat /\ IsFiniteSet(Frames(ps, Problem))
  BY FramesOf DEF Problem, Dimensions
<1>2. Anchors(ps) \in SUBSET Nat /\ IsFiniteSet(Anchors(ps))
  BY <1>1, FS_Subset DEF Anchors
<1>3. IsFiniteSet(Pairs(ps))
  <2>1. IsFiniteSet(Anchors(ps) \X Anchors(ps))
    BY <1>2, FS_Product
  <2>. QED
    BY <2>1, FS_Subset DEF Pairs
<1>4. ASSUME NEW p \in Pairs(ps)
      PROVE  /\ p = <<p[1], p[2]>> /\ p[1] \in Nat /\ p[2] \in Nat
             /\ p[1] \in Anchors(ps) /\ p[2] \in Anchors(ps)
             /\ \E r1, r2, r3 \in Int : PairRank(ps, p) = <<r1, r2, r3>>
  <2>1. p = <<p[1], p[2]>> /\ p[1] \in Anchors(ps) /\ p[2] \in Anchors(ps)
    BY DEF Pairs
  <2> DEFINE left == Narrating(ps, Problem, p[1])
             right == Narrating(ps, Problem, p[2])
             l == Cardinality(left)
             r == Cardinality(right)
             k == Cardinality(left \cap right)
             n == Cardinality(ps)
             both == Cardinality(left \cup right)
             above == 2 * l * r * (both - k)
             below == n * (l + r) * both
  <2>2. PairRank(ps, p) = <<Thousandths(above, below), IF l < r THEN l ELSE r, both>>
    BY DEF PairRank
  <2>3. left \subseteq ps /\ right \subseteq ps /\ IsFiniteSet(ps) /\ IsFiniteSet(left) /\ IsFiniteSet(right)
    BY SayingsOf
  <2>4. l >= 2 /\ r >= 2
    BY <2>1 DEF Anchors
  <2> HIDE DEF left, right
  <2>5. IsFiniteSet(left \cup right) /\ IsFiniteSet(left \cap right) /\ left \in SUBSET (left \cup right) /\ left \in SUBSET ps
    BY <2>3, FS_Subset, FS_Union
  <2>6. l \in Nat /\ r \in Nat /\ k \in Nat /\ n \in Nat /\ both \in Nat
    BY <2>3, <2>5, FS_CardinalityType
  <2>7. n >= l /\ both >= l
    BY <2>3, <2>5, FS_Subset
  <2> HIDE DEF l, r, k, n, both
  <2>8. above \in Int
    BY <2>6
  <2>9. below \in Nat /\ below > 0
    <3>1. n * (l + r) \in Nat /\ n * (l + r) > 0
      <4>1. n \in Nat /\ n > 0 /\ l + r \in Nat /\ l + r > 0
        BY <2>4, <2>6, <2>7
      <4> DEFINE m == l + r
      <4> HIDE DEF m
      <4>. QED
        BY <4>1, SMT DEF m
    <3> DEFINE m == n * (l + r)
    <3>2. both > 0
      BY <2>4, <2>6, <2>7
    <3> HIDE DEF m
    <3>3. m * both \in Nat /\ m * both > 0
      BY <3>1, <3>2, <2>6 DEF m
    <3>. QED
      BY <3>3 DEF m
  <2> HIDE DEF above, below
  <2>10. Thousandths(above, below) \in Int
    BY <2>8, <2>9, SignKept
  <2>. QED
    BY <1>2, <2>1, <2>2, <2>6, <2>10
<1>. QED
  BY <1>3, <1>4

\* The pair of the map is one of the pairs: two frames, each of two articles or more.
LEMMA BestPairOf ==
  ASSUME DayRead(day), NEW ps, ps \subseteq DOMAIN day.profile, Pairs(ps) # {}
  PROVE  BestPair(ps) \in Pairs(ps)
<1> DEFINE S == Pairs(ps)
           beats(p, q) == \/ Above(PairRank(ps, p), PairRank(ps, q))
                          \/ PairRank(ps, p) = PairRank(ps, q)
                               /\ (p[1] < q[1] \/ (p[1] = q[1] /\ p[2] <= q[2]))
           R == {x \in S \X S : beats(x[1], x[2])}
<1>1. /\ IsFiniteSet(S)
      /\ \A p \in S : p = <<p[1], p[2]>> /\ p[1] \in Nat /\ p[2] \in Nat
                      /\ \E r1, r2, r3 \in Int : PairRank(ps, p) = <<r1, r2, r3>>
  BY PairsOf
<1>2. \A p \in S : PairRank(ps, p) = <<PairRank(ps, p)[1], PairRank(ps, p)[2], PairRank(ps, p)[3]>>
                   /\ PairRank(ps, p)[1] \in Int /\ PairRank(ps, p)[2] \in Int /\ PairRank(ps, p)[3] \in Int
  BY <1>1
<1>3. \A p, q \in S : <<p, q>> \in R <=> beats(p, q)
  OBVIOUS
<1>4. \A p, q \in S : beats(p, q) <=>
        \/ PairRank(ps, p)[1] > PairRank(ps, q)[1]
        \/ PairRank(ps, p)[1] = PairRank(ps, q)[1] /\ PairRank(ps, p)[2] > PairRank(ps, q)[2]
        \/ PairRank(ps, p)[1] = PairRank(ps, q)[1] /\ PairRank(ps, p)[2] = PairRank(ps, q)[2]
             /\ PairRank(ps, p)[3] > PairRank(ps, q)[3]
        \/ PairRank(ps, p)[1] = PairRank(ps, q)[1] /\ PairRank(ps, p)[2] = PairRank(ps, q)[2]
             /\ PairRank(ps, p)[3] = PairRank(ps, q)[3] /\ (p[1] < q[1] \/ (p[1] = q[1] /\ p[2] <= q[2]))
  <2>1. SUFFICES ASSUME NEW p \in S, NEW q \in S
        PROVE beats(p, q) <=>
        \/ PairRank(ps, p)[1] > PairRank(ps, q)[1]
        \/ PairRank(ps, p)[1] = PairRank(ps, q)[1] /\ PairRank(ps, p)[2] > PairRank(ps, q)[2]
        \/ PairRank(ps, p)[1] = PairRank(ps, q)[1] /\ PairRank(ps, p)[2] = PairRank(ps, q)[2]
             /\ PairRank(ps, p)[3] > PairRank(ps, q)[3]
        \/ PairRank(ps, p)[1] = PairRank(ps, q)[1] /\ PairRank(ps, p)[2] = PairRank(ps, q)[2]
             /\ PairRank(ps, p)[3] = PairRank(ps, q)[3] /\ (p[1] < q[1] \/ (p[1] = q[1] /\ p[2] <= q[2]))
    OBVIOUS
  <2> HIDE DEF S
  <2>2. PairRank(ps, p) = PairRank(ps, q) <=> /\ PairRank(ps, p)[1] = PairRank(ps, q)[1]
                                              /\ PairRank(ps, p)[2] = PairRank(ps, q)[2]
                                              /\ PairRank(ps, p)[3] = PairRank(ps, q)[3]
    BY <1>2
  <2>. QED
    BY <2>2, AboveMeans
<1> HIDE DEF S, R, beats
<1>5. \A p, q \in S : <<p, q>> \in R \/ <<q, p>> \in R
  <2>1. SUFFICES ASSUME NEW p \in S, NEW q \in S PROVE beats(p, q) \/ beats(q, p)
    BY <1>3
  <2>2. /\ p[1] \in Nat /\ p[2] \in Nat /\ q[1] \in Nat /\ q[2] \in Nat
    BY <1>1
  <2>3. /\ PairRank(ps, p)[1] \in Int /\ PairRank(ps, p)[2] \in Int /\ PairRank(ps, p)[3] \in Int
        /\ PairRank(ps, q)[1] \in Int /\ PairRank(ps, q)[2] \in Int /\ PairRank(ps, q)[3] \in Int
    BY <1>2
  <2>. QED
    BY <2>2, <2>3, <1>4
<1>6. \A p, q, t \in S : <<p, q>> \in R /\ <<q, t>> \in R => <<p, t>> \in R
  <2>1. SUFFICES ASSUME NEW p \in S, NEW q \in S, NEW t \in S, beats(p, q), beats(q, t) PROVE beats(p, t)
    BY <1>3
  <2>2. p[1] \in Nat /\ p[2] \in Nat /\ q[1] \in Nat /\ q[2] \in Nat /\ t[1] \in Nat /\ t[2] \in Nat
    BY <1>1
  <2>3. /\ PairRank(ps, p)[1] \in Int /\ PairRank(ps, p)[2] \in Int /\ PairRank(ps, p)[3] \in Int
        /\ PairRank(ps, q)[1] \in Int /\ PairRank(ps, q)[2] \in Int /\ PairRank(ps, q)[3] \in Int
        /\ PairRank(ps, t)[1] \in Int /\ PairRank(ps, t)[2] \in Int /\ PairRank(ps, t)[3] \in Int
    BY <1>2
  <2>. QED
    BY <2>1, <2>2, <2>3, <1>4
<1>7. \E p \in S : \A q \in S : <<p, q>> \in R
  BY <1>1, <1>5, <1>6, TopOf DEF S
<1>8. \E p \in Pairs(ps) : \A q \in Pairs(ps) :
                          \/ Above(PairRank(ps, p), PairRank(ps, q))
                          \/ PairRank(ps, p) = PairRank(ps, q)
                               /\ (p[1] < q[1] \/ (p[1] = q[1] /\ p[2] <= q[2]))
  BY <1>3, <1>7 DEF S, beats
<1>. QED
  BY <1>8 DEF BestPair

\* A side of the map is earned.
LEMMA SidesFound ==
  ASSUME DayRead(day), NEW ps, ps \subseteq DOMAIN day.profile, NEW approval
  PROVE  SidesEarned(PublicForm(ps, approval))
<1> DEFINE c == PublicForm(ps, approval)
           pair == BestPair(ps)
<1>1. c.articles = ps /\ c.map = IssueMap(ps)
  BY DEF PublicForm
<1> HIDE DEF c
<1>2. CASE ~(MapSample(ps) /\ Pairs(ps) # {})
  <2>1. DOMAIN c.map.side = {}
    BY <1>1, <1>2 DEF IssueMap
  <2>. QED
    BY <2>1 DEF SidesEarned, c
<1>3. CASE MapSample(ps) /\ Pairs(ps) # {}
  <2>1. c.map.anchors = pair /\ c.map.side = [o \in OutletsOf(ps) |-> Side(ps, pair, o)]
    BY <1>1, <1>3 DEF IssueMap
  <2>2. SUFFICES ASSUME NEW o \in OutletsOf(ps), Side(ps, pair, o) \in {"left", "right"}
                 PROVE  LET side == IF Side(ps, pair, o) = "left" THEN 1 ELSE 2
                            own == {a \in ps : OutletOf[a] = o}
                            for == Narrating(own, Problem, pair[side])
                            against == Narrating(own, Problem, pair[3 - side])
                        IN  Cardinality(for \cup against) >= 2 /\ Cardinality(for \ against) > Cardinality(against \ for)
    BY <1>1, <2>1 DEF SidesEarned, c
  <2> DEFINE own == {a \in ps : OutletOf[a] = o}
             left == Narrating(own, Problem, pair[1])
             right == Narrating(own, Problem, pair[2])
             p == Cardinality(right \ left) - Cardinality(left \ right)
             q == Cardinality(left \cup right)
             score == Thousandths(p, q)
  <2>3. own \subseteq DOMAIN day.profile
    OBVIOUS
  <2>4. IsFiniteSet(left) /\ IsFiniteSet(right)
    <3> HIDE DEF own
    <3>. QED
      BY <2>3, SayingsOf
  <2>5. /\ Cardinality(right \ left) \in Nat /\ Cardinality(left \ right) \in Nat /\ q \in Nat /\ p \in Int
    <3> HIDE DEF left, right
    <3>1. IsFiniteSet(right \ left) /\ IsFiniteSet(left \ right) /\ IsFiniteSet(left \cup right)
      BY <2>4, FS_Difference, FS_Union
    <3>2. Cardinality(right \ left) \in Nat /\ Cardinality(left \ right) \in Nat /\ q \in Nat
      BY <3>1, FS_CardinalityType
    <3> HIDE DEF q
    <3>. QED
      BY <3>2
  <2>6. /\ Side(ps, pair, o) = "left" => q >= 2 /\ 3 * score <= -1000
        /\ Side(ps, pair, o) = "right" => q >= 2 /\ 3 * score >= 1000
    <3>1. TooFew(left \cup right) <=> q < 2
      BY DEF TooFew
    <3>2. Side(ps, pair, o) = CASE TooFew(left \cup right)                          -> "insufficient"
                                [] ~TooFew(left \cup right) /\ 3 * score <= -1000   -> "left"
                                [] ~TooFew(left \cup right) /\ 3 * score >= 1000    -> "right"
                                [] OTHER                                            -> "mixed"
      BY DEF Side
    <3> HIDE DEF left, right, score, q, pair
    <3>3. Side(ps, pair, o) = "left" => ~TooFew(left \cup right) /\ 3 * score <= -1000
      BY <3>2
    <3>4. Side(ps, pair, o) = "right" => ~TooFew(left \cup right) /\ 3 * score >= 1000
      BY <3>2
    <3>. QED
      BY <3>1, <3>3, <3>4, <2>5
  <2> HIDE DEF left, right, p, q
  <2>7. q >= 2 => score \in Int /\ (p >= 0 => score >= 0) /\ (p <= 0 => score <= 0)
    BY <2>5, SignKept
  <2> HIDE DEF score, pair
  <2>8. CASE Side(ps, pair, o) = "left"
    <3>1. q >= 2 /\ p < 0
      BY <2>5, <2>6, <2>7, <2>8
    <3>2. Cardinality(left \ right) > Cardinality(right \ left)
      BY <3>1, <2>5 DEF p
    <3>. QED
      BY <2>8, <3>1, <3>2 DEF left, right, q
  <2>9. CASE Side(ps, pair, o) = "right"
    <3>1. q >= 2 /\ p > 0
      BY <2>5, <2>6, <2>7, <2>9
    <3>2. Cardinality(right \ left) > Cardinality(left \ right)
      BY <3>1, <2>5 DEF p
    <3>3. right \cup left = left \cup right
      OBVIOUS
    <3>4. 3 - 2 = 1
      OBVIOUS
    <3>. QED
      BY <2>9, <3>1, <3>2, <3>3, <3>4 DEF left, right, q
  <2>. QED
    BY <2>2, <2>8, <2>9
<1>. QED
  BY <1>2, <1>3

----------------------------------------------------------------------------
(* FrameComparison: the narratives *)

\* An article joins one cluster of those it fits, or begins one.
LEMMA JoinedTo ==
  ASSUME NEW ps \in SUBSET Nat, IsFiniteSet(ps), NEW k \in ClusterSets(ps), NEW a \in ps
  PROVE  \/ Joined(k, a) = k \cup {{a}}
         \/ \E c \in k : Linked(a, c) /\ Joined(k, a) = (k \ {c}) \cup {c \cup {a}}
<1> DEFINE fitting == {c \in k : Linked(a, c)}
           home == CHOOSE c \in fitting : \A e \in fitting :
                     \/ Cardinality(c) > Cardinality(e)
                     \/ Cardinality(c) = Cardinality(e) /\ First(c) <= First(e)
<1>1. Joined(k, a) = IF fitting = {} THEN k \cup {{a}} ELSE (k \ {home}) \cup {home \cup {a}}
  BY DEF Joined
<1>2. fitting \in ClusterSets(ps)
  BY DEF ClusterSets
<1>3. fitting # {} => home \in fitting
  <2> HIDE DEF fitting
  <2>. QED
    BY <1>2, HomeOf
<1>4. \A c \in fitting : c \in k /\ Linked(a, c)
  OBVIOUS
<1> HIDE DEF fitting, home
<1>. QED
  BY <1>1, <1>3, <1>4

LEMMA JoinedIn ==
  ASSUME NEW ps \in SUBSET Nat, IsFiniteSet(ps), NEW k \in ClusterSets(ps), NEW a \in ps
  PROVE  Joined(k, a) \in ClusterSets(ps)
<1>1. \A c \in k : c \in SUBSET ps /\ c # {}
  BY DEF ClusterSets
<1>2. CASE Joined(k, a) = k \cup {{a}}
  BY <1>1, <1>2 DEF ClusterSets
<1>3. CASE \E c \in k : Linked(a, c) /\ Joined(k, a) = (k \ {c}) \cup {c \cup {a}}
  <2>1. PICK c \in k : Joined(k, a) = (k \ {c}) \cup {c \cup {a}}
    BY <1>3
  <2>2. \A e \in Joined(k, a) : e \in SUBSET ps /\ e # {}
    BY <1>1, <2>1
  <2>. QED
    BY <2>2 DEF ClusterSets
<1>. QED
  BY <1>2, <1>3, JoinedTo

\* The clusters are grown article by article.
LEMMA ClustersGrow ==
  ASSUME NEW ps \in SUBSET Nat, IsFiniteSet(ps)
  PROVE  \E g : /\ Clusters(ps) = g[ps]
                /\ \A read \in SUBSET ps :
                     g[read] = IF read = {} THEN {} ELSE Joined(g[read \ {Final(read)}], Final(read))
<1> DEFINE V == ClusterSets(ps)
           step == [p \in V \X ps |-> Joined(p[1], p[2])]
           pick == [r \in SUBSET ps |-> Final(r)]
           grows(g) == g = [read \in SUBSET ps |->
                              IF read = {} THEN {} ELSE Joined(g[read \ {Final(read)}], Final(read))]
<1>1. step \in [V \X ps -> V]
  BY JoinedIn
<1>2. {} \in V
  BY DEF ClusterSets
<1>3. \A k \in V, a \in ps : step[<<k, a>>] = Joined(k, a)
  OBVIOUS
<1>9. \A r \in SUBSET ps : r # {} => pick[r] \in r /\ pick[r] = Final(r)
  BY FS_Subset, FinalOf
<1> HIDE DEF V, step, pick
<1>4. PICK f \in [SUBSET ps -> V] : Grows(f, ps, {}, pick, step)
  BY <1>1, <1>2, <1>9, GrownExists
<1>5. grows(f)
  <2>1. \A read \in SUBSET ps : f[read] = IF read = {} THEN {} ELSE Joined(f[read \ {Final(read)}], Final(read))
    <3>1. SUFFICES ASSUME NEW read \in SUBSET ps, read # {}
                   PROVE  f[read] = Joined(f[read \ {Final(read)}], Final(read))
      BY <1>4 DEF Grows
    <3>2. f[read] = step[<<f[read \ {Final(read)}], Final(read)>>]
      BY <1>4, <1>9, <3>1 DEF Grows
    <3>3. Final(read) \in read
      BY <3>1, FS_Subset, FinalOf
    <3>4. f[read \ {Final(read)}] \in V
      OBVIOUS
    <3>. QED
      BY <1>3, <3>2, <3>3, <3>4
  <2>. QED
    BY <2>1, <1>4
<1> DEFINE grown == CHOOSE g : grows(g)
<1>6. Clusters(ps) = grown[ps]
  BY DEF Clusters
<1>7. grows(grown)
  <2> HIDE DEF grows
  <2>. QED
    BY <1>5
<1> HIDE DEF grown
<1>8. \A read \in SUBSET ps :
        grown[read] = IF read = {} THEN {} ELSE Joined(grown[read \ {Final(read)}], Final(read))
  BY <1>7
<1>. QED
  BY <1>6, <1>8

\* Clusters that share no article and hold only articles that fit each other
WholeParts(k) ==
  /\ \A c, e \in k : c # e => c \cap e = {}
  /\ \A c \in k : \A a, b \in c : a # b => Compatible(a, b)

LEMMA CompatibleEither ==
  ASSUME NEW a, NEW b, Compatible(a, b)
  PROVE  Compatible(b, a)
<1>1. \A d : NarrativeSignature(a, d) \cap NarrativeSignature(b, d) = NarrativeSignature(b, d) \cap NarrativeSignature(a, d)
  OBVIOUS
<1>2. Telling(a) \cap Telling(b) \cap Downstream = Telling(b) \cap Telling(a) \cap Downstream
  OBVIOUS
<1>. QED
  BY <1>1, <1>2 DEF Compatible, Agree

LEMMA ClustersWhole ==
  ASSUME NEW ps \in SUBSET Nat, IsFiniteSet(ps)
  PROVE  Clusters(ps) \in ClusterSets(ps) /\ WholeParts(Clusters(ps))
<1>1. PICK g : /\ Clusters(ps) = g[ps]
               /\ \A read \in SUBSET ps :
                    g[read] = IF read = {} THEN {} ELSE Joined(g[read \ {Final(read)}], Final(read))
  BY ClustersGrow
<1> DEFINE Good(read) == g[read] \in ClusterSets(read) /\ WholeParts(g[read])
           Bad == {read \in SUBSET ps : ~Good(read)}
<1>2. SUFFICES ASSUME Bad # {} PROVE FALSE
  BY <1>1
<1>3. Bad \subseteq SUBSET ps
  OBVIOUS
<1>4. PICK read \in Bad : \A U \in Bad : U \subseteq read => U = read
  <2>1. Bad \in SUBSET SUBSET ps
    BY <1>3
  <2>2. \A S : S = ps => IsFiniteSet(S) /\ Bad \in SUBSET SUBSET S
    BY <2>1
  <2> HIDE DEF Bad, Good
  <2>. QED
    BY ONLY <1>2, <2>2, SmallestSubset
<1>5. read \in SUBSET ps /\ ~Good(read) /\ IsFiniteSet(read) /\ read \in SUBSET Nat
  BY FS_Subset
<1>6. read # {}
  <2>1. g[{}] = {}
    BY <1>1
  <2>2. Good({})
    BY <2>1 DEF ClusterSets, WholeParts
  <2>. QED
    BY <1>5, <2>2
<1> DEFINE a == Final(read)
           rest == read \ {a}
           k == g[rest]
<1>7. a \in read
  BY <1>5, <1>6, FinalOf
<1> HIDE DEF a
<1>8. Good(rest) /\ g[read] = Joined(k, a)
  <2>1. rest \in SUBSET ps /\ rest \subseteq read /\ rest # read
    BY <1>5, <1>7
  <2>2. Good(rest)
    BY <1>4, <2>1
  <2>3. g[read] = Joined(k, a)
    BY <1>1, <1>5, <1>6 DEF a
  <2>. QED
    BY <2>2, <2>3
<1>9. /\ \A c \in k : c \in SUBSET rest /\ c # {} /\ a \notin c
      /\ WholeParts(k)
  BY <1>8 DEF ClusterSets
<1>10. k \in ClusterSets(read)
  BY <1>9 DEF ClusterSets
<1> HIDE DEF k, rest
<1>11. /\ Joined(k, a) \in ClusterSets(read)
       /\ \/ Joined(k, a) = k \cup {{a}}
          \/ \E c \in k : Linked(a, c) /\ Joined(k, a) = (k \ {c}) \cup {c \cup {a}}
  BY <1>5, <1>7, <1>10, JoinedIn, JoinedTo
<1>12. CASE Joined(k, a) = k \cup {{a}}
  <2>1. WholeParts(Joined(k, a))
    BY <1>9, <1>12 DEF WholeParts
  <2>. QED
    BY <1>5, <1>8, <1>11, <2>1
<1>13. CASE \E c \in k : Linked(a, c) /\ Joined(k, a) = (k \ {c}) \cup {c \cup {a}}
  <2>1. PICK c \in k : Linked(a, c) /\ Joined(k, a) = (k \ {c}) \cup {c \cup {a}}
    BY <1>13
  <2>2. \A b \in c : Compatible(a, b) /\ Compatible(b, a)
    BY <2>1, CompatibleEither DEF Linked
  <2>3. \A x, y \in Joined(k, a) : x # y => x \cap y = {}
    <3>1. SUFFICES ASSUME NEW x \in Joined(k, a), NEW y \in Joined(k, a), x # y PROVE x \cap y = {}
      OBVIOUS
    <3>2. (x \in k /\ x # c) \/ x = c \cup {a}
      BY <2>1
    <3>3. (y \in k /\ y # c) \/ y = c \cup {a}
      BY <2>1
    <3>4. \A e \in k : a \notin e /\ (e # c => e \cap c = {} /\ c \cap e = {})
      BY <1>9 DEF WholeParts
    <3>5. \A e \in k : e # c => e \cap (c \cup {a}) = {} /\ (c \cup {a}) \cap e = {}
      BY <3>4
    <3>6. x \in k /\ y \in k => x \cap y = {}
      BY <3>1, <1>9 DEF WholeParts
    <3>. QED
      BY <3>1, <3>2, <3>3, <3>5, <3>6
  <2>4. \A x \in Joined(k, a) : \A b, e \in x : b # e => Compatible(b, e)
    <3>1. SUFFICES ASSUME NEW x \in Joined(k, a), NEW b \in x, NEW e \in x, b # e PROVE Compatible(b, e)
      OBVIOUS
    <3>2. (x \in k /\ x # c) \/ x = c \cup {a}
      BY <2>1
    <3>. QED
      BY <3>1, <3>2, <2>2, <1>9 DEF WholeParts
  <2>. QED
    BY <1>5, <1>8, <1>11, <2>3, <2>4 DEF WholeParts
<1>. QED
  BY <1>11, <1>12, <1>13

\* Narratives hold different articles, and those of one never contradict each other.
LEMMA NarrativesFound ==
  ASSUME DayRead(day), NEW ps, ps \subseteq DOMAIN day.profile, NEW approval
  PROVE  NarrativesWhole(PublicForm(ps, approval))
<1>1. PublicForm(ps, approval).narratives = Narratives(ps)
  BY DEF PublicForm
<1>2. Narratives(ps) \subseteq Clusters(ps)
  BY DEF Narratives
<1>3. WholeParts(Clusters(ps))
  BY SayingsOf, ClustersWhole
<1>4. SUFFICES ASSUME NEW x \in Clusters(ps), NEW y \in Clusters(ps)
               PROVE  /\ x # y => x \cap y = {}
                      /\ \A a, b \in x : \A d \in Telling(a) \cap Telling(b) : Agree(a, b, d)
  BY <1>1, <1>2 DEF NarrativesWhole
<1>5. x # y => x \cap y = {}
  BY <1>3 DEF WholeParts
<1>6. ASSUME NEW a \in x, NEW b \in x, NEW d \in Telling(a) \cap Telling(b) PROVE Agree(a, b, d)
  <2>1. CASE a = b
    BY <2>1 DEF Agree, Telling
  <2>2. CASE a # b
    <3>1. Compatible(a, b)
      BY <2>2, <1>3 DEF WholeParts
    <3>2. d = Problem \/ d \in Downstream
      BY DEF Telling, Downstream
    <3>. QED
      BY <3>1, <3>2 DEF Compatible
  <2>. QED
    BY <2>1, <2>2
<1>. QED
  BY <1>5, <1>6

\* The clauses of a narrative
LEMMA ClausesOf ==
  ASSUME DayRead(day), NEW c, c \subseteq DOMAIN day.profile
  PROVE  /\ IsFiniteSet(Clauses(c))
         /\ \A x \in Clauses(c) : x[1] \in Dimensions /\ Cardinality(SignedBy(c, x[1], x[2])) >= 2
<1>1. IsFiniteSet(Dimensions)
  <2>1. \A k \in Nat : IsFiniteSet(1 .. k)
    BY FS_Interval
  <2>2. Dimensions = 1 .. 5
    BY DEF Dimensions
  <2>3. \A k \in Nat : k = 5 => Dimensions = 1 .. k
    BY <2>2
  <2>4. 5 \in Nat
    OBVIOUS
  <2>. QED
    BY ONLY <2>1, <2>3, <2>4
<1> DEFINE framesOf == [d \in Dimensions |-> Frames(c, d)]
           F == {Frames(c, d) : d \in Dimensions}
<1>2. F = {framesOf[d] : d \in Dimensions}
  OBVIOUS
<1>3. \A T \in F : IsFiniteSet(T)
  BY FramesOf
<1> HIDE DEF framesOf
<1>4. IsFiniteSet(F)
  <2> HIDE DEF F
  <2>1. IsFiniteSet({framesOf[d] : d \in Dimensions})
    BY <1>1, ImageOf
  <2>. QED
    BY <2>1, <1>2
<1>5. IsFiniteSet(Dimensions \X UNION F)
  <2> HIDE DEF F
  <2>1. IsFiniteSet(UNION F)
    BY <1>3, <1>4, FS_UNION
  <2>. QED
    BY <1>1, <2>1, FS_Product
<1>6. Clauses(c) \subseteq Dimensions \X UNION F
  BY DEF Clauses
<1>7. \A x \in Clauses(c) : x[1] \in Dimensions /\ Leads(c, x[1], x[2])
  BY DEF Clauses
<1> HIDE DEF F
<1>. QED
  BY <1>5, <1>6, <1>7, FS_Subset DEF Leads

\* What is told as a narrative is one the contract takes.
LEMMA ToldTellable ==
  ASSUME DayRead(day), NEW c, c \subseteq DOMAIN day.profile, Told(c)
  PROVE  Tellable(c)
<1> DEFINE C == Clauses(c)
           others == {x \in C : x[1] # Problem}
<1>1. /\ Cardinality(c) >= 2 /\ Cardinality(others) >= 2 /\ IsFiniteSet(C)
      /\ \A x \in C : Cardinality(SignedBy(c, x[1], x[2])) >= 2
  BY ClausesOf DEF Told
<1>2. PICK y \in C : y[1] = Problem
  BY DEF Told
<1>3. y \notin others /\ others \cup {y} \in SUBSET C /\ others \in SUBSET C
  BY <1>2
<1> HIDE DEF C, others
<1>4. IsFiniteSet(others) /\ Cardinality(others) \in Nat /\ Cardinality(C) \in Nat
  BY <1>1, <1>3, FS_Subset, FS_CardinalityType
<1>5. Cardinality(others \cup {y}) = Cardinality(others) + 1 /\ Cardinality(others \cup {y}) <= Cardinality(C)
  BY <1>1, <1>3, <1>4, FS_AddElement, FS_Subset
<1>6. Cardinality(C) >= 3
  BY <1>1, <1>4, <1>5
<1>. QED
  BY <1>1, <1>2, <1>6 DEF Tellable, C

\* At most two narratives are told.
LEMMA NarrativesFew ==
  ASSUME DayRead(day), NEW ps, ps \subseteq DOMAIN day.profile
  PROVE  Cardinality(Narratives(ps)) <= 2
<1> DEFINE told == {c \in Clusters(ps) : Told(c)}
           ahead(e, c) == \/ Above(NarrativeRank(e), NarrativeRank(c))
                          \/ (NarrativeRank(e) = NarrativeRank(c) /\ First(e) < First(c))
           R == {x \in told \X told : ahead(x[1], x[2])}
<1>1. IsFiniteSet(ps) /\ ps \in SUBSET Nat /\ Clusters(ps) \in ClusterSets(ps) /\ WholeParts(Clusters(ps))
  BY SayingsOf, ClustersWhole
<1>2. IsFiniteSet(told)
  <2>1. IsFiniteSet(SUBSET ps)
    BY <1>1, FS_SUBSET
  <2>2. told \in SUBSET SUBSET ps
    BY <1>1 DEF ClusterSets
  <2> HIDE DEF told
  <2>. QED
    BY <2>1, <2>2, FS_Subset
<1>3. \A c \in told : /\ NarrativeRank(c)[1] \in Nat /\ NarrativeRank(c)[2] \in Nat /\ NarrativeRank(c)[3] \in Nat
                      /\ First(c) \in c /\ First(c) \in Nat
                      /\ NarrativeRank(c) = <<NarrativeRank(c)[1], NarrativeRank(c)[2], NarrativeRank(c)[3]>>
  <2>1. SUFFICES ASSUME NEW c \in told
                 PROVE  /\ Cardinality(c) \in Nat /\ Cardinality(OutletsOf(c)) \in Nat /\ Cardinality(Clauses(c)) \in Nat
                        /\ First(c) \in c /\ First(c) \in Nat
    BY DEF NarrativeRank
  <2>2. c \in SUBSET ps /\ c # {}
    BY <1>1 DEF ClusterSets
  <2> HIDE DEF told
  <2>3. IsFiniteSet(c) /\ c \in SUBSET Nat
    BY <2>2, <1>1, FS_Subset
  <2>4. IsFiniteSet(OutletsOf(c))
    BY <2>3, ImageOf DEF OutletsOf
  <2>5. IsFiniteSet(Clauses(c))
    BY <2>2, ClausesOf
  <2>6. First(c) \in c
    BY <2>2, <2>3, FirstOfSet
  <2>. QED
    BY <2>3, <2>4, <2>5, <2>6, FS_CardinalityType
<1>4. \A c, e \in told : c # e => First(c) # First(e)
  <2>1. \A c, e \in told : c # e => c \cap e = {}
    BY <1>1 DEF WholeParts
  <2> HIDE DEF told
  <2>. QED
    BY <2>1, <1>3
<1>5. \A e, c \in told : <<e, c>> \in R <=> ahead(e, c)
  OBVIOUS
<1>6. \A e, c \in told : ahead(e, c) <=>
        \/ NarrativeRank(e)[1] > NarrativeRank(c)[1]
        \/ NarrativeRank(e)[1] = NarrativeRank(c)[1] /\ NarrativeRank(e)[2] > NarrativeRank(c)[2]
        \/ NarrativeRank(e)[1] = NarrativeRank(c)[1] /\ NarrativeRank(e)[2] = NarrativeRank(c)[2]
             /\ NarrativeRank(e)[3] > NarrativeRank(c)[3]
        \/ NarrativeRank(e)[1] = NarrativeRank(c)[1] /\ NarrativeRank(e)[2] = NarrativeRank(c)[2]
             /\ NarrativeRank(e)[3] = NarrativeRank(c)[3] /\ First(e) < First(c)
  <2>1. SUFFICES ASSUME NEW e \in told, NEW c \in told PROVE ahead(e, c) <=>
        \/ NarrativeRank(e)[1] > NarrativeRank(c)[1]
        \/ NarrativeRank(e)[1] = NarrativeRank(c)[1] /\ NarrativeRank(e)[2] > NarrativeRank(c)[2]
        \/ NarrativeRank(e)[1] = NarrativeRank(c)[1] /\ NarrativeRank(e)[2] = NarrativeRank(c)[2]
             /\ NarrativeRank(e)[3] > NarrativeRank(c)[3]
        \/ NarrativeRank(e)[1] = NarrativeRank(c)[1] /\ NarrativeRank(e)[2] = NarrativeRank(c)[2]
             /\ NarrativeRank(e)[3] = NarrativeRank(c)[3] /\ First(e) < First(c)
    OBVIOUS
  <2> HIDE DEF told
  <2>2. NarrativeRank(e) = NarrativeRank(c) <=> /\ NarrativeRank(e)[1] = NarrativeRank(c)[1]
                                                /\ NarrativeRank(e)[2] = NarrativeRank(c)[2]
                                                /\ NarrativeRank(e)[3] = NarrativeRank(c)[3]
    BY <1>3
  <2>. QED
    BY <2>2, AboveMeans
<1> HIDE DEF told, R, ahead
<1>7. \A c \in told : ~(<<c, c>> \in R)
  BY <1>3, <1>5, <1>6
<1>8. \A e, c \in told : e = c \/ <<e, c>> \in R \/ <<c, e>> \in R
  <2>1. SUFFICES ASSUME NEW e \in told, NEW c \in told, e # c PROVE ahead(e, c) \/ ahead(c, e)
    BY <1>5
  <2>2. /\ NarrativeRank(c)[1] \in Nat /\ NarrativeRank(c)[2] \in Nat /\ NarrativeRank(c)[3] \in Nat
        /\ NarrativeRank(e)[1] \in Nat /\ NarrativeRank(e)[2] \in Nat /\ NarrativeRank(e)[3] \in Nat
        /\ First(c) \in Nat /\ First(e) \in Nat /\ First(e) # First(c)
    BY <1>3, <1>4, <2>1
  <2>. QED
    BY <2>2, <1>6
<1>9. \A e, c, b \in told : <<e, c>> \in R /\ <<c, b>> \in R => <<e, b>> \in R
  <2>1. SUFFICES ASSUME NEW e \in told, NEW c \in told, NEW b \in told, ahead(e, c), ahead(c, b) PROVE ahead(e, b)
    BY <1>5
  <2>2. /\ NarrativeRank(c)[1] \in Nat /\ NarrativeRank(c)[2] \in Nat /\ NarrativeRank(c)[3] \in Nat
        /\ NarrativeRank(e)[1] \in Nat /\ NarrativeRank(e)[2] \in Nat /\ NarrativeRank(e)[3] \in Nat
        /\ NarrativeRank(b)[1] \in Nat /\ NarrativeRank(b)[2] \in Nat /\ NarrativeRank(b)[3] \in Nat
        /\ First(c) \in Nat /\ First(e) \in Nat /\ First(b) \in Nat
    BY <1>3
  <2>. QED
    BY <2>1, <2>2, <1>6
<1>10. Cardinality({x \in told : Cardinality({y \in told : <<y, x>> \in R}) < 2}) <= 2
  BY <1>2, <1>7, <1>8, <1>9, FirstFew
<1>11. Narratives(ps) = {x \in told : Cardinality({y \in told : <<y, x>> \in R}) < 2}
  <2>1. Narratives(ps) = {x \in told : Cardinality({y \in told : ahead(y, x)}) < 2}
    BY DEF Narratives, told, ahead
  <2>2. \A x \in told : {y \in told : ahead(y, x)} = {y \in told : <<y, x>> \in R}
    BY <1>5
  <2>. QED
    BY <2>1, <2>2
<1>. QED
  BY <1>10, <1>11

----------------------------------------------------------------------------
(* FrameComparison: the contract and the invariant *)

\* At most three questions are asked.
LEMMA QuestionsFew ==
  ASSUME NEW ps
  PROVE  Cardinality(Questions(ps)) <= 3
<1> DEFINE S == Asked(ps)
           R == {x \in Int \X Int : x[1] < x[2]}
<1>1. S \subseteq 1 .. 8
  BY DEF Asked
<1>2. IsFiniteSet(S)
  <2>1. \A k \in Nat : IsFiniteSet(1 .. k)
    BY FS_Interval
  <2>2. \A k \in Nat : k = 8 => S \in SUBSET (1 .. k)
    BY <1>1
  <2>3. 8 \in Nat
    OBVIOUS
  <2> HIDE DEF S
  <2>. QED
    BY ONLY <2>1, <2>2, <2>3, FS_Subset
<1>3. \A p, q \in S : p \in Int /\ (<<p, q>> \in R <=> p < q)
  BY <1>1
<1>4. Questions(ps) = {q \in S : Cardinality({p \in S : <<p, q>> \in R}) < 3}
  <2>1. \A q \in S : {p \in S : p < q} = {p \in S : <<p, q>> \in R}
    BY <1>3
  <2>2. Questions(ps) = {q \in S : Cardinality({p \in S : p < q}) < 3}
    BY DEF Questions
  <2> HIDE DEF S, R
  <2>. QED
    BY <2>1, <2>2
<1> HIDE DEF S, R
<1>5. /\ \A p \in S : ~(<<p, p>> \in R)
      /\ \A p, q \in S : p = q \/ <<p, q>> \in R \/ <<q, p>> \in R
      /\ \A p, q, r \in S : <<p, q>> \in R /\ <<q, r>> \in R => <<p, r>> \in R
  <2>1. \A p \in S : ~(<<p, p>> \in R)
    BY <1>3
  <2>2. \A p, q \in S : p = q \/ <<p, q>> \in R \/ <<q, p>> \in R
    <3>1. SUFFICES ASSUME NEW p \in S, NEW q \in S PROVE p = q \/ p < q \/ q < p
      BY <1>3
    <3>2. p \in Int /\ q \in Int
      BY <1>3
    <3>. QED
      BY <3>2
  <2>3. \A p, q, r \in S : <<p, q>> \in R /\ <<q, r>> \in R => <<p, r>> \in R
    <3>1. SUFFICES ASSUME NEW p \in S, NEW q \in S, NEW r \in S, p < q, q < r PROVE p < r
      BY <1>3
    <3>2. p \in Int /\ q \in Int /\ r \in Int
      BY <1>3
    <3>. QED
      BY <3>1, <3>2
  <2>. QED
    BY <2>1, <2>2, <2>3
<1>6. Cardinality({q \in S : Cardinality({p \in S : <<p, q>> \in R}) < 3}) <= 3
  BY <1>2, <1>5, FirstFew
<1>. QED
  BY <1>4, <1>6

\* What the engine builds meets the contract where every pattern's evidence is complete.
LEMMA ContractMet ==
  ASSUME DayRead(day), NEW ps, ps \subseteq DOMAIN day.profile, NEW approval, Cited(ps)
  PROVE  Contract(ps, PublicForm(ps, approval))
<1> DEFINE c == PublicForm(ps, approval)
<1>1. c.map = IssueMap(ps) /\ c.narratives = Narratives(ps) /\ c.questions = Questions(ps)
  BY DEF PublicForm
<1> HIDE DEF c
<1>2. c.map.status # "withheld" =>
        \A i \in 1 .. 2 : Cardinality(Narrating(ps, Problem, c.map.anchors[i])) >= 2
  <2>1. SUFFICES ASSUME IssueMap(ps).status # "withheld", NEW i \in 1 .. 2
                 PROVE  Cardinality(Narrating(ps, Problem, IssueMap(ps).anchors[i])) >= 2
    BY <1>1
  <2>2. Pairs(ps) # {} /\ IssueMap(ps).anchors = BestPair(ps)
    BY <2>1 DEF IssueMap
  <2>3. BestPair(ps) \in Pairs(ps)
    BY <2>2, BestPairOf
  <2>4. BestPair(ps)[1] \in Anchors(ps) /\ BestPair(ps)[2] \in Anchors(ps)
    BY <2>3, PairsOf
  <2>5. BestPair(ps)[i] \in Anchors(ps)
    <3>1. i = 1 \/ i = 2
      OBVIOUS
    <3>. QED
      BY <3>1, <2>4
  <2>. QED
    BY <2>2, <2>5 DEF Anchors
<1>3. \A t \in Narratives(ps) : Tellable(t)
  <2>1. SUFFICES ASSUME NEW t \in Narratives(ps) PROVE Tellable(t)
    OBVIOUS
  <2>2. t \in Clusters(ps) /\ Told(t)
    BY DEF Narratives
  <2>3. t \subseteq ps
    BY <2>2, SayingsOf, ClustersWhole DEF ClusterSets
  <2>. QED
    BY <2>2, <2>3, ToldTellable
<1>. QED
  BY <1>1, <1>2, <1>3, NarrativesFew, QuestionsFew DEF Contract, c

\* The items of a pattern are finite.
LEMMA PassagesOf ==
  ASSUME DayRead(day), NEW ps, ps \subseteq DOMAIN day.profile, NEW d \in Dimensions, NEW x
  PROVE  IsFiniteSet(Passages(ps, d, x))
<1> DEFINE items == [a \in ps |-> day.profile[a].items[d]]
           I == {items[a] : a \in ps}
<1>1. IsFiniteSet(ps)
  BY SayingsOf
<1>2. \A T \in I : IsFiniteSet(T)
  BY DEF DayRead
<1>3. Passages(ps, d, x) \subseteq ps \X UNION I
  BY DEF Passages
<1> HIDE DEF items
<1>4. IsFiniteSet(I)
  BY <1>1, ImageOf
<1> HIDE DEF I
<1>5. IsFiniteSet(UNION I)
  BY <1>2, <1>4, FS_UNION
<1>6. IsFiniteSet(ps \X UNION I)
  BY <1>1, <1>5, FS_Product
<1>. QED
  BY <1>3, <1>6, FS_Subset

\* Evidence is incomplete only of a published pattern of more items than evidence is kept of.
LEMMA UncitedBeyondCap ==
  ASSUME DayRead(day), NEW ps, ps \subseteq DOMAIN day.profile, ~Cited(ps)
  PROVE  \E d \in Dimensions : \E x \in Shown(ps, d) : Cardinality(Passages(ps, d, x)) > EvidenceCap
<1>1. PICK d \in Dimensions : \E x \in Shown(ps, d) : ~(Saying(ps, d, x) \subseteq Evidence(ps, d, x))
  BY DEF Cited
<1>2. PICK x \in Shown(ps, d) : ~(Saying(ps, d, x) \subseteq Evidence(ps, d, x))
  BY <1>1
<1>3. PICK a \in Saying(ps, d, x) : ~(Cardinality(Earlier(ps, d, x, a)) < EvidenceCap)
  BY <1>2 DEF Evidence
<1>4. a \in ps /\ a \in Nat /\ x \in Said(a, d)
  BY SayingsOf DEF Saying
<1>5. PICK i \in day.profile[a].items[d] : <<i[1], i[2]>> = x
  BY <1>4 DEF Said
<1> DEFINE all == Passages(ps, d, x)
           before == Earlier(ps, d, x, a)
           q == <<a, i>>
<1>6. q \in all /\ before \subseteq all /\ q \notin before
  <2>1. q \in ps \X UNION {day.profile[b].items[d] : b \in ps}
    BY <1>4, <1>5
  <2>2. q[1] = a /\ q[2] = i /\ ~(a < a)
    BY <1>4
  <2>. QED
    BY <2>1, <2>2, <1>5 DEF Passages, Earlier
<1>7. IsFiniteSet(all)
  BY PassagesOf
<1> HIDE DEF all, before, q
<1>8. before \cup {q} \in SUBSET all /\ before \in SUBSET all
  BY <1>6
<1>9. IsFiniteSet(before) /\ Cardinality(before) \in Nat /\ Cardinality(all) \in Nat
  BY <1>7, <1>8, FS_Subset, FS_CardinalityType
<1>10. Cardinality(before \cup {q}) = Cardinality(before) + 1 /\ Cardinality(before \cup {q}) <= Cardinality(all)
  BY <1>6, <1>7, <1>8, <1>9, FS_AddElement, FS_Subset
<1>11. ~(Cardinality(before) < EvidenceCap)
  BY <1>3 DEF before
<1>12. Cardinality(all) > EvidenceCap
  BY <1>9, <1>10, <1>11, ComparisonAssumption
<1>. QED
  BY <1>12 DEF all

\* Every voice heard is in one of the two lists.
LEMMA VoicesFound ==
  ASSUME DayRead(day), NEW ps, ps \subseteq DOMAIN day.profile, NEW approval
  PROVE  VoicesSplit(PublicForm(ps, approval))
<1> DEFINE n == Cardinality(OutletsOf(ps))
           m(r) == Cardinality(OutletsOf(Quoting(ps, r)))
<1>1. PublicForm(ps, approval).shared = SharedVoices(ps) /\ PublicForm(ps, approval).some = SomeVoices(ps)
      /\ PublicForm(ps, approval).articles = ps
  BY DEF PublicForm
<1>2. ASSUME NEW r
      PROVE  n \in Nat /\ m(r) \in Nat /\ m(r) <= n /\ (OutletsOf(Quoting(ps, r)) = OutletsOf(ps) <=> m(r) = n)
  <2>1. IsFiniteSet(ps)
    BY SayingsOf
  <2>2. IsFiniteSet(OutletsOf(ps))
    BY <2>1, ImageOf DEF OutletsOf
  <2>3. OutletsOf(Quoting(ps, r)) \in SUBSET OutletsOf(ps)
    BY DEF OutletsOf, Quoting
  <2>4. /\ IsFiniteSet(OutletsOf(Quoting(ps, r)))
        /\ Cardinality(OutletsOf(Quoting(ps, r))) <= Cardinality(OutletsOf(ps))
        /\ Cardinality(OutletsOf(Quoting(ps, r))) = Cardinality(OutletsOf(ps)) => OutletsOf(Quoting(ps, r)) = OutletsOf(ps)
    BY <2>2, <2>3, FS_Subset
  <2>. QED
    BY <2>2, <2>4, FS_CardinalityType
<1>3. SharedVoices(ps) = {r \in Roles(ps) : n >= 2 /\ m(r) = n}
  <2>1. \A r : OutletsOf(Quoting(ps, r)) = OutletsOf(ps) <=> m(r) = n
    BY <1>2
  <2>. QED
    BY <2>1 DEF SharedVoices
<1>4. SomeVoices(ps) = {r \in Roles(ps) : m(r) < (IF n < 2 THEN 2 ELSE n)}
  BY DEF SomeVoices
<1>5. \A r : n \in Nat /\ m(r) \in Nat /\ m(r) <= n
  BY <1>2
<1> HIDE DEF n, m
<1>6. SharedVoices(ps) \cap SomeVoices(ps) = {}
  BY <1>3, <1>4, <1>5
<1>7. SharedVoices(ps) \cup SomeVoices(ps) = Roles(ps)
  <2>1. \A r : (n >= 2 /\ m(r) = n) \/ m(r) < (IF n < 2 THEN 2 ELSE n)
    BY <1>5
  <2>. QED
    BY <2>1, <1>3, <1>4
<1>. QED
  BY <1>1, <1>6, <1>7 DEF VoicesSplit

\* What is founded in a day that was read stays so while the day stays.
LEMMA FoundedKept ==
  ASSUME day' = day, NEW c
  PROVE  /\ DifferenceOwn(c) => DifferenceOwn(c)'
         /\ SidesEarned(c) => SidesEarned(c)'
         /\ NarrativesWhole(c) => NarrativesWhole(c)'
         /\ VoicesSplit(c) => VoicesSplit(c)'
<1>1. DifferenceOwn(c) => DifferenceOwn(c)'
  <2>1. SUFFICES ASSUME DifferenceOwn(c), c.detected
                 PROVE  /\ \A a \in c.articles : Lineage(a)'.semantic => Lineage(a)'.reviewed
                        /\ \E a, b \in c.articles, d \in Dimensions :
                             /\ \E f \in Narrated(a, d)' : \A e \in c.articles :
                                  GroupsOf({e}) = GroupsOf({b}) => f \notin Narrated(e, d)'
                             /\ \E g \in Narrated(b, d)' : \A e \in c.articles :
                                  GroupsOf({e}) = GroupsOf({a}) => g \notin Narrated(e, d)'
    BY DEF DifferenceOwn
  <2>2. /\ \A a, d : Narrated(a, d)' = Narrated(a, d)
        /\ \A a : Lineage(a)' = Lineage(a)
    BY DayKept
  <2>3. \A a \in c.articles : Lineage(a)'.semantic => Lineage(a)'.reviewed
    BY <2>1, <2>2 DEF DifferenceOwn
  <2>4. PICK a \in c.articles, b \in c.articles, d \in Dimensions :
          /\ \E f \in Narrated(a, d) : \A e \in c.articles : GroupsOf({e}) = GroupsOf({b}) => f \notin Narrated(e, d)
          /\ \E g \in Narrated(b, d) : \A e \in c.articles : GroupsOf({e}) = GroupsOf({a}) => g \notin Narrated(e, d)
    BY <2>1, Zenon DEF DifferenceOwn
  <2>5. \E f \in Narrated(a, d)' : \A e \in c.articles : GroupsOf({e}) = GroupsOf({b}) => f \notin Narrated(e, d)'
    BY <2>2, <2>4
  <2>6. \E g \in Narrated(b, d)' : \A e \in c.articles : GroupsOf({e}) = GroupsOf({a}) => g \notin Narrated(e, d)'
    BY <2>2, <2>4
  <2>. QED
    BY <2>3, <2>5, <2>6
<1>2. SidesEarned(c) => SidesEarned(c)'
  <2>1. \A ps, d, f : Narrating(ps, d, f)' = Narrating(ps, d, f)
    BY DayKept
  <2> DEFINE own(o) == {a \in c.articles : OutletOf[a] = o}
             side(o) == IF c.map.side[o] = "left" THEN 1 ELSE 2
             earned(for, against) == Cardinality(for \cup against) >= 2 /\ Cardinality(for \ against) > Cardinality(against \ for)
  <2>2. SidesEarned(c) <=> \A o \in DOMAIN c.map.side : c.map.side[o] \in {"left", "right"} =>
          earned(Narrating(own(o), Problem, c.map.anchors[side(o)]), Narrating(own(o), Problem, c.map.anchors[3 - side(o)]))
    BY DEF SidesEarned
  <2>3. SidesEarned(c)' <=> \A o \in DOMAIN c.map.side : c.map.side[o] \in {"left", "right"} =>
          earned(Narrating(own(o), Problem, c.map.anchors[side(o)])', Narrating(own(o), Problem, c.map.anchors[3 - side(o)])')
    BY DEF SidesEarned
  <2> HIDE DEF own, side, earned
  <2>. QED
    BY <2>1, <2>2, <2>3
<1>3. NarrativesWhole(c) => NarrativesWhole(c)'
  <2>1. \A a : Telling(a)' = Telling(a)
    BY DayKept
  <2>2. \A a, b, d : Agree(a, b, d)' <=> Agree(a, b, d)
    BY DayKept DEF Agree
  <2>. QED
    BY <2>1, <2>2 DEF NarrativesWhole
<1>4. VoicesSplit(c) => VoicesSplit(c)'
  BY DayKept DEF VoicesSplit
<1>. QED
  BY <1>1, <1>2, <1>3, <1>4

\* The approval of an issue is one of the day's, of exactly its articles.
LEMMA ApprovalFound ==
  ASSUME NEW n, Approved(n)
  PROVE  ApprovalOf(n) \in day.approvals /\ ApprovalOf(n).articles = Issue(n).articles
<1>1. \E p \in day.approvals : p.articles = Issue(n).articles /\ Cardinality(p.articles) >= 2
  BY DEF Approved, ApprovalOf
<1>2. ApprovalOf(n) = CHOOSE p \in day.approvals : p.articles = Issue(n).articles
  BY <1>1 DEF ApprovalOf
<1>. QED
  BY <1>1, <1>2

\* The comparison c of issue n
Founded(c, n) ==
  /\ DifferenceOwn(c) /\ SidesEarned(c) /\ NarrativesWhole(c) /\ VoicesSplit(c)
  /\ c.status # "none" /\ (\E a \in c.articles : Lineage(a).semantic) =>
       c.approval \in day.approvals /\ c.approval.articles = Issue(n).articles
         /\ \A a \in c.articles : Lineage(a).approval = c.approval

LEMMA WithheldFounded ==
  ASSUME NEW ps, NEW n, \A a \in ps : ~Lineage(a).semantic
  PROVE  Founded(Withheld(ps), n) /\ Founded(NoProfiles, n)
<1>1. /\ Withheld(ps).articles = ps /\ Withheld(ps).status = "withheld" /\ Withheld(ps).detected = FALSE
      /\ Withheld(ps).narratives = {} /\ Withheld(ps).map.side = << >>
  BY DEF Withheld
<1>2. /\ NoProfiles.status = "none" /\ NoProfiles.detected = FALSE
      /\ NoProfiles.narratives = {} /\ NoProfiles.map.side = << >>
  BY DEF NoProfiles, Withheld
<1>3. DOMAIN << >> = {}
  OBVIOUS
<1> DEFINE w == Withheld(ps)
           e == NoProfiles
<1> HIDE DEF w, e
<1>4. Founded(w, n)
  BY <1>1, <1>3 DEF Founded, DifferenceOwn, SidesEarned, NarrativesWhole, VoicesSplit, w
<1>5. Founded(e, n)
  BY <1>2, <1>3 DEF Founded, DifferenceOwn, SidesEarned, NarrativesWhole, VoicesSplit, e
<1>. QED
  BY <1>4, <1>5 DEF w, e

LEMMA PublicFounded ==
  ASSUME DayRead(day), NEW n, Profiled(n) \subseteq DOMAIN day.profile, Resolves(n)
  PROVE  Founded(PublicForm(Profiled(n), ApprovalOf(n)), n)
<1> DEFINE ps == Profiled(n)
           c == PublicForm(ps, ApprovalOf(n))
<1>1. c.articles = ps /\ c.approval = ApprovalOf(n)
  BY DEF PublicForm
<1>2. DifferenceOwn(c) /\ SidesEarned(c) /\ NarrativesWhole(c) /\ VoicesSplit(c)
  BY DifferenceFound, SidesFound, NarrativesFound, VoicesFound
<1> HIDE DEF c
<1>3. (\E a \in ps : Lineage(a).semantic) => Approved(n)
  BY DEF Resolves
<1>4. Approved(n) => \A a \in ps : Lineage(a).approval = ApprovalOf(n)
  BY DEF Resolves
<1> HIDE DEF ps
<1>5. Founded(c, n)
  BY <1>1, <1>2, <1>3, <1>4, ApprovalFound DEF Founded
<1>. QED
  BY <1>5 DEF c, ps

LEMMA FoundedStays ==
  ASSUME day' = day, NEW c, NEW n, Founded(c, n)
  PROVE  Founded(c, n)'
BY DayKept, FoundedKept DEF Founded

\* Appending to a sequence
LEMMA OneMore ==
  ASSUME NEW S, NEW s \in Seq(S), NEW x
  PROVE  /\ \E T : Append(s, x) \in Seq(T)
         /\ Len(Append(s, x)) = Len(s) + 1 /\ Len(s) \in Nat
         /\ DOMAIN s = 1 .. Len(s) /\ DOMAIN Append(s, x) = 1 .. Len(s) + 1
         /\ \A n \in 1 .. Len(s) : Append(s, x)[n] = s[n]
         /\ Append(s, x)[Len(s) + 1] = x
<1>1. s \in Seq(S \cup {x}) /\ x \in S \cup {x}
  OBVIOUS
<1> DEFINE T == S \cup {x}
<1> HIDE DEF T
<1>2. Append(s, x) \in Seq(T)
  BY <1>1 DEF T
<1>. QED
  BY <1>2

\* The comparisons decided so far
AllFounded ==
  \A n \in DOMAIN decided :
    Founded(decided[n], n) /\ decided[n].status \in {"none", "withheld", "partial", "available"}

\* The inductive invariant: the run has read a day, and what it decided is founded in it.
ComparisonInv ==
  /\ DayRead(day) /\ \E S : decided \in Seq(S)
  /\ Len(decided) <= Len(day.issues)
  /\ outcome \in {"idle", "running", "analysed", "failed"}
  /\ outcome = "idle" => decided = << >>
  /\ OnlyBeyondCap /\ AllFounded

LEMMA ComparisonInvInit == ComparisonInit => ComparisonInv
<1> SUFFICES ASSUME ComparisonInit PROVE ComparisonInv
  OBVIOUS
<1>1. day.profile = << >> /\ day.issues = << >> /\ decided = << >> /\ outcome = "idle"
  BY DEF ComparisonInit, NoDay
<1>2. DOMAIN << >> = {} /\ IsFiniteSet({})
  BY FS_EmptySet
<1>3. DayRead(day)
  BY <1>1, <1>2 DEF DayRead
<1>4. << >> \in Seq({}) /\ Len(<< >>) = 0
  OBVIOUS
<1>. QED
  BY <1>1, <1>2, <1>3, <1>4 DEF ComparisonInv, OnlyBeyondCap, AllFounded

\* Why the date may fail at issue n
Refusable(n) ==
  \/ ~Resolves(n) \/ ~OneEngine(Profiled(n))
  \/ \E d \in Dimensions : \E x \in Shown(Profiled(n), d) :
       Cardinality(Passages(Profiled(n), d, x)) > EvidenceCap

LEMMA RefusableStays ==
  ASSUME day' = day, NEW n
  PROVE  Refusable(n)' <=> Refusable(n)
<1>1. /\ Resolves(n)' <=> Resolves(n)
      /\ Profiled(n)' = Profiled(n)
  BY DayKept
<1>2. OneEngine(Profiled(n))' <=> OneEngine(Profiled(n))
  <2>1. PICK ps : ps = Profiled(n)
    OBVIOUS
  <2>2. OneEngine(ps)' <=> OneEngine(ps)
    BY DayKept
  <2>. QED
    BY <1>1, <2>1, <2>2
<1>3. \A d : Shown(Profiled(n), d)' = Shown(Profiled(n), d)
  BY <1>1, DayKept
<1>4. \A d, x : Passages(Profiled(n), d, x)' = Passages(Profiled(n), d, x)
  BY <1>1, DayKept
<1>. QED
  BY <1>1, <1>2, <1>3, <1>4 DEF Refusable

LEMMA BeyondCapMeans ==
  /\ OnlyBeyondCap <=> (outcome = "failed" /\ Len(decided) < Len(day.issues) => Refusable(Len(decided) + 1))
  /\ OnlyBeyondCap' <=> (outcome = "failed" /\ Len(decided) < Len(day.issues) => Refusable(Len(decided) + 1))'
BY DEF OnlyBeyondCap, Refusable

LEMMA BeyondCapKept ==
  ASSUME UNCHANGED <<day, decided>>,
         outcome' = "failed" /\ Len(decided) < Len(day.issues) => Refusable(Len(decided) + 1)
  PROVE  OnlyBeyondCap'
<1>1. PICK n : n = Len(decided) + 1
  OBVIOUS
<1>2. Refusable(n)' <=> Refusable(n)
  BY RefusableStays
<1>. QED
  BY <1>1, <1>2, BeyondCapMeans

LEMMA AllFoundedStay ==
  ASSUME UNCHANGED <<day, decided>>, AllFounded
  PROVE  AllFounded'
<1>1. SUFFICES ASSUME NEW n \in DOMAIN decided
               PROVE  Founded(decided[n], n)' /\ decided'[n].status \in {"none", "withheld", "partial", "available"}
  BY DEF AllFounded
<1>2. PICK c : c = decided[n]
  OBVIOUS
<1>3. Founded(c, n)' /\ c = decided'[n]
  BY <1>2, FoundedStays DEF AllFounded
<1>4. Founded(decided[n], n)'
  BY <1>3
<1>. QED
  BY <1>2, <1>4 DEF AllFounded

LEMMA ComparisonInvStep == ComparisonInv /\ [ComparisonNext]_comparisonVars => ComparisonInv'
<1> SUFFICES ASSUME ComparisonInv, [ComparisonNext]_comparisonVars PROVE ComparisonInv'
  OBVIOUS
<1>1. CASE UNCHANGED comparisonVars
  <2>1. day' = day /\ decided' = decided /\ outcome' = outcome
    BY <1>1 DEF comparisonVars
  <2>2. DayRead(day)'
    BY <2>1 DEF ComparisonInv
  <2>3. OnlyBeyondCap'
    BY <2>1, BeyondCapKept, BeyondCapMeans DEF ComparisonInv
  <2>4. AllFounded'
    BY <2>1, AllFoundedStay DEF ComparisonInv
  <2>. QED
    BY <2>1, <2>2, <2>3, <2>4 DEF ComparisonInv
<1>2. CASE ReadDay
  <2>1. /\ outcome = "idle" /\ outcome' = "running" /\ day' \in Days /\ decided' = decided
        /\ decided = << >>
    BY <1>2 DEF ReadDay, ComparisonInv
  <2>2. DayRead(day)'
    BY <2>1, ComparisonAssumption
  <2>3. day'.issues \in Seq([articles : SUBSET Nat, review : BOOLEAN])
    BY <2>2 DEF DayRead
  <2>4. << >> \in Seq({}) /\ Len(<< >>) = 0 /\ DOMAIN << >> = {}
    OBVIOUS
  <2>5. Len(day'.issues) >= 0
    BY <2>3
  <2>7. AllFounded'
    BY <2>1, <2>4 DEF AllFounded
  <2>6. OnlyBeyondCap'
    BY <2>1 DEF OnlyBeyondCap
  <2>. QED
    BY <2>1, <2>2, <2>4, <2>5, <2>6, <2>7 DEF ComparisonInv
<1>3. CASE FinishDecisions
  <2>1. /\ day' = day /\ decided' = decided /\ outcome' \in {"analysed", "failed"}
        /\ Len(decided) = Len(day.issues)
    BY <1>3 DEF FinishDecisions
  <2>2. DayRead(day)'
    BY <2>1 DEF ComparisonInv
  <2>3. OnlyBeyondCap'
    <3>1. ~(Len(decided) < Len(day.issues))
      <4>1. day.issues \in Seq([articles : SUBSET Nat, review : BOOLEAN])
        BY DEF ComparisonInv, DayRead
      <4>. QED
        BY <4>1, <2>1
    <3>. QED
      BY <3>1, <2>1, BeyondCapKept
  <2>4. AllFounded'
    BY <2>1, AllFoundedStay DEF ComparisonInv
  <2>. QED
    BY <2>1, <2>2, <2>3, <2>4 DEF ComparisonInv
<1>4. CASE DecideIssue
  <2> DEFINE n == Len(decided) + 1
             ps == Profiled(n)
             public == PublicForm(ps, ApprovalOf(n))
  <2>1. /\ outcome = "running" /\ Len(decided) < Len(day.issues) /\ day' = day
        /\ IF ps = {} THEN Decides(NoProfiles)
           ELSE IF ~Resolves(n) \/ ~OneEngine(ps) THEN Throws
           ELSE IF Issue(n).review /\ ~Approved(n) THEN Decides(Withheld(ps))
           ELSE IF Contract(ps, public) THEN Decides(public) ELSE Throws
    BY <1>4 DEF DecideIssue
  <2>2. DayRead(day) /\ ps \subseteq DOMAIN day.profile
    BY DEF ComparisonInv, Profiled
  <2>3. PICK S : decided \in Seq(S)
    BY DEF ComparisonInv
  <2>4. DayRead(day)'
    BY <2>1, <2>2
  <2>5. ASSUME NEW c, Decides(c), Founded(c, n), c.status \in {"none", "withheld", "partial", "available"}
        PROVE  ComparisonInv'
    <3>1. decided' = Append(decided, c) /\ outcome' = outcome
      BY <2>5 DEF Decides
    <3>2. /\ \E T : decided' \in Seq(T)
          /\ Len(decided') = n /\ Len(decided) \in Nat
          /\ DOMAIN decided = 1 .. Len(decided) /\ DOMAIN decided' = 1 .. n
          /\ \A m \in 1 .. Len(decided) : decided'[m] = decided[m]
          /\ decided'[n] = c
      <4>1. /\ \E T : Append(decided, c) \in Seq(T)
            /\ Len(Append(decided, c)) = Len(decided) + 1 /\ Len(decided) \in Nat
            /\ DOMAIN decided = 1 .. Len(decided) /\ DOMAIN Append(decided, c) = 1 .. Len(decided) + 1
            /\ \A m \in 1 .. Len(decided) : Append(decided, c)[m] = decided[m]
            /\ Append(decided, c)[Len(decided) + 1] = c
        BY ONLY <2>3, OneMore
      <4>. QED
        BY ONLY <4>1, <3>1
    <3>3. Len(decided') <= Len(day'.issues)
      <4>1. Len(day.issues) \in Nat
        BY <2>2 DEF DayRead
      <4>. QED
        BY <4>1, <3>2, <2>1
    <3>4. OnlyBeyondCap'
      BY <2>1, <3>1 DEF OnlyBeyondCap
    <3>5. ASSUME NEW m \in DOMAIN decided'
          PROVE  Founded(decided[m], m)' /\ decided'[m].status \in {"none", "withheld", "partial", "available"}
      <4>0. PICK e : e = decided'[m]
        OBVIOUS
      <4>1. Founded(e, m) /\ e.status \in {"none", "withheld", "partial", "available"}
        <5>1. CASE m = n
          BY <5>1, <4>0, <3>2, <2>5
        <5>2. CASE m # n
          <6>1. m \in 1 .. Len(decided) /\ e = decided[m]
            BY <5>2, <4>0, <3>2
          <6>. QED
            BY <6>1, <3>2 DEF ComparisonInv, AllFounded
        <5>. QED
          BY <5>1, <5>2
      <4>2. Founded(e, m)'
        BY <4>1, <2>1, FoundedStays
      <4>3. Founded(decided[m], m)'
        BY <4>0, <4>2
      <4>. QED
        BY <4>0, <4>1, <4>3
    <3>6. AllFounded'
      BY <3>5 DEF AllFounded
    <3>. QED
      BY <2>1, <2>4, <3>1, <3>2, <3>3, <3>4, <3>6 DEF ComparisonInv
  <2>6. ASSUME Throws, Refusable(n)
        PROVE  ComparisonInv'
    <3>1. decided' = decided /\ outcome' = "failed"
      BY <2>6 DEF Throws
    <3>2. OnlyBeyondCap'
      BY <2>1, <2>6, <3>1, BeyondCapKept
    <3>3. AllFounded'
      BY <2>1, <3>1, AllFoundedStay DEF ComparisonInv
    <3>. QED
      BY <2>1, <2>4, <3>1, <3>2, <3>3 DEF ComparisonInv
  <2>7. CASE ps = {}
    <3>1. Founded(NoProfiles, n)
      BY <2>7, WithheldFounded
    <3>2. NoProfiles.status = "none"
      BY DEF NoProfiles, Withheld
    <3>. QED
      BY <2>1, <2>5, <2>7, <3>1, <3>2
  <2>8. CASE ps # {} /\ (~Resolves(n) \/ ~OneEngine(ps))
    BY <2>1, <2>6, <2>8 DEF Refusable
  <2>9. CASE ps # {} /\ Resolves(n) /\ OneEngine(ps)
    <3>1. CASE Issue(n).review /\ ~Approved(n)
      <4>1. \A a \in ps : ~Lineage(a).semantic
        BY <2>9, <3>1 DEF Resolves
      <4>2. Founded(Withheld(ps), n)
        BY <4>1, WithheldFounded
      <4>3. Withheld(ps).status = "withheld"
        BY DEF Withheld
      <4>4. Decides(Withheld(ps))
        BY <2>1, <2>9, <3>1
      <4>. QED
        BY <2>5, <4>2, <4>3, <4>4
    <3>2. CASE ~(Issue(n).review /\ ~Approved(n)) /\ Contract(ps, public)
      <4>1. Founded(public, n)
        BY <2>2, <2>9, PublicFounded
      <4>2. public.status \in {"partial", "available"}
        BY DEF PublicForm, Status
      <4>3. Decides(public)
        BY <2>1, <2>9, <3>2
      <4>. QED
        BY <2>5, <4>1, <4>2, <4>3
    <3>3. CASE ~(Issue(n).review /\ ~Approved(n)) /\ ~Contract(ps, public)
      <4>1. Throws
        BY <2>1, <2>9, <3>3
      <4>2. ~Cited(ps)
        BY <2>2, <3>3, ContractMet
      <4>3. \E d \in Dimensions : \E x \in Shown(ps, d) : Cardinality(Passages(ps, d, x)) > EvidenceCap
        BY <2>2, <4>2, UncitedBeyondCap
      <4>. QED
        BY <2>6, <4>1, <4>3 DEF Refusable
    <3>. QED
      BY <3>1, <3>2, <3>3
  <2>. QED
    BY <2>7, <2>8, <2>9
<1>. QED
  BY <1>1, <1>2, <1>3, <1>4 DEF ComparisonNext

LEMMA ComparisonHolds == ComparisonSpec => []ComparisonInv
BY ComparisonInvInit, ComparisonInvStep, PTL DEF ComparisonSpec

LEMMA ComparisonInvFounded == ComparisonInv => ComparisonFounded /\ ComparisonTypeOK
BY DEF ComparisonInv, ComparisonFounded, ComparisonTypeOK, AllFounded, Founded, UnderApproval

\* What a date publishes about framing is founded, for any outlets, groups, profiles and approvals:
\* differences between groups, sides of the map, narratives, voices and approvals; and no
\* comparison the engine builds is refused for another reason than the cap on evidence.
THEOREM ComparisonsFounded == ComparisonSpec => []ComparisonFounded
BY ComparisonHolds, ComparisonInvFounded, PTL

\* The types of the run of comparisons
THEOREM ComparisonTypesHold == ComparisonSpec => []ComparisonTypeOK
BY ComparisonHolds, ComparisonInvFounded, PTL

----------------------------------------------------------------------------
(* AgendaEvents: what the engine draws from the articles of a day *)

\* While the day stays, what is drawn from its articles stays.
LEMMA CorpusKept ==
  ASSUME corpus' = corpus
  PROVE  /\ \A a : Index(a)' = Index(a)
         /\ \A a, b : SameWording(a, b)' <=> SameWording(a, b)
         /\ \A a, b : SameEvent(a, b)' <=> SameEvent(a, b)
         /\ \A a, b : Banned(a, b)' <=> Banned(a, b)
         /\ \A a, b : EventsApart(a, b)' <=> EventsApart(a, b)
<1>1. \A t : Frequency(t)' = Frequency(t)
  BY DEF Frequency
<1>2. \A f, p : AtMost(f, p)' = AtMost(f, p)
  BY DEF AtMost
<1>3. \A a : Title(a)' = Title(a)
  BY DEF Title
<1>4. \A a : Body(a)' = Body(a)
  BY <1>1, <1>2 DEF Body
<1>5. \A a : BodyAnchors(a)' = BodyAnchors(a)
  BY <1>1, <1>2, <1>4 DEF BodyAnchors
<1>6. \A a : Bundle(a)' = Bundle(a) /\ Subject(a)' = Subject(a) /\ Topic(a)' = Topic(a)
  BY <1>3, <1>4 DEF Bundle, Subject, Topic
<1>7. \A a, b : TitleSimilarity(a, b)' = TitleSimilarity(a, b)
  BY <1>3 DEF TitleSimilarity
<1>8. \A a, b : Bodies(a, b)' <=> Bodies(a, b)
  BY <1>4 DEF Bodies
<1>9. \A a, b : ContentSimilarity(a, b)' = ContentSimilarity(a, b)
  BY <1>6, <1>8 DEF ContentSimilarity
<1>10. \A a, b : Similarity(a, b)' = Similarity(a, b)
  BY <1>7, <1>8, <1>9 DEF Similarity
<1>11. \A a, b : Overlap(a, b)' = Overlap(a, b)
  BY <1>3, <1>6, <1>8 DEF Overlap
<1>12. \A a, b : SharedTopics(a, b)' = SharedTopics(a, b)
  BY <1>6 DEF SharedTopics
<1>13. \A a, b : EventsApart(a, b)' <=> EventsApart(a, b)
  BY <1>6 DEF EventsApart
<1>14. \A a, b : Banned(a, b)' <=> Banned(a, b)
  BY DEF Banned
<1>15. \A a, b : Staged(a, b)' <=> Staged(a, b)
  BY <1>3, <1>5, <1>6, <1>7, <1>12 DEF Staged
<1>16. \A a, b : BodiesAgree(a, b)' <=> BodiesAgree(a, b)
  BY <1>3, <1>4, <1>5, <1>7, <1>9 DEF BodiesAgree
<1>17. \A a, b : TitlesAgree(a, b)' <=> TitlesAgree(a, b)
  BY <1>10, <1>11, <1>12 DEF TitlesAgree
<1>18. \A a, b : SameWording(a, b)' <=> SameWording(a, b)
  BY DEF SameWording
<1>19. \A a, b : SameEvent(a, b)' <=> SameEvent(a, b)
  <2> SUFFICES ASSUME NEW a, NEW b PROVE SameEvent(a, b)' <=> SameEvent(a, b)
    OBVIOUS
  <2>1. corpus[a]' = corpus[a] /\ corpus[b]' = corpus[b]
    OBVIOUS
  <2>2. Disjoint(corpus[a].actors, corpus[b].actors)' <=> Disjoint(corpus[a].actors, corpus[b].actors)
    BY DEF Disjoint
  <2>3. Disjoint(corpus[a].actions, corpus[b].actions)' <=> Disjoint(corpus[a].actions, corpus[b].actions)
    BY DEF Disjoint
  <2>4. Title(a)' = Title(a) /\ Title(b)' = Title(b) /\ Subject(a)' = Subject(a) /\ Subject(b)' = Subject(b)
        /\ TitleSimilarity(a, b)' = TitleSimilarity(a, b)
    BY <1>3, <1>6, <1>7
  <2> DEFINE ax == EventsApart(a, b)
             bx == Banned(a, b)
             sx == Staged(a, b)
             cx == BodiesAgree(a, b)
             tx == TitlesAgree(a, b)
             wx == SameWording(a, b)
  <2>5. (ax' <=> ax) /\ (bx' <=> bx) /\ (sx' <=> sx) /\ (cx' <=> cx) /\ (tx' <=> tx) /\ (wx' <=> wx)
    BY <1>13, <1>14, <1>15, <1>16, <1>17, <1>18
  <2>. QED
    BY <2>2, <2>3, <2>4, <2>5, Zenon DEF SameEvent, Percent
<1>20. \A a : Index(a)' = Index(a)
  BY <1>3, <1>6 DEF Index
<1>. QED
  BY <1>13, <1>14, <1>18, <1>19, <1>20

\* The tokens of an article are finite, and the likeness of two articles is a number.
LEMMA TokensOf ==
  ASSUME CorpusRead(corpus), NEW a \in DOMAIN corpus
  PROVE  /\ IsFiniteSet(Title(a)) /\ IsFiniteSet(Body(a)) /\ IsFiniteSet(Bundle(a)) /\ IsFiniteSet(Index(a))
<1>1. IsFiniteSet(Title(a)) /\ IsFiniteSet(Body(a))
  BY FS_Subset DEF CorpusRead, Title, Body
<1>2. IsFiniteSet(Bundle(a))
  BY <1>1, FS_Union DEF Bundle
<1>3. IsFiniteSet(Index(a))
  BY <1>1, <1>2, FS_Subset DEF Index, Subject
<1>. QED
  BY <1>1, <1>2, <1>3

LEMMA JaccardInt ==
  ASSUME NEW S, NEW T, IsFiniteSet(S), IsFiniteSet(T)
  PROVE  Jaccard(S, T) \in Int
<1> DEFINE m == Cardinality(S \cap T)
           n == Cardinality(S \cup T)
<1>1. m \in Nat /\ n \in Nat /\ (n = 0 <=> S \cup T = {})
  BY FS_Intersection, FS_Union, FS_CardinalityType, FS_EmptySet
<1>2. Unit * m \in Int
  BY <1>1 DEF Unit
<1>3. Jaccard(S, T) = IF S \cup T = {} THEN 0 ELSE (Unit * m) \div n
  BY DEF Jaccard
<1> DEFINE u == Unit * m
<1> HIDE DEF m, n, u
<1>4. n > 0 => u \div n \in Int
  BY <1>1, <1>2 DEF u
<1>. QED
  BY <1>1, <1>3, <1>4 DEF u

LEMMA SimilarityInt ==
  ASSUME CorpusRead(corpus), NEW a \in DOMAIN corpus, NEW b \in DOMAIN corpus
  PROVE  Similarity(a, b) \in Int
<1>1. TitleSimilarity(a, b) \in Int
  BY TokensOf, JaccardInt DEF TitleSimilarity
<1>2. ContentSimilarity(a, b) \in Int
  BY TokensOf, JaccardInt DEF ContentSimilarity
<1> DEFINE p == 65 * TitleSimilarity(a, b) + 35 * ContentSimilarity(a, b)
<1>3. p \in Int
  BY <1>1, <1>2
<1>4. Unit \div 1000 = 693 /\ Unit \div 10 = 69300
  BY DEF Unit
<1> HIDE DEF p
<1>5. Rounded(p, 69300) \in Int
  BY <1>3 DEF Rounded
<1>. QED
  BY <1>1, <1>4, <1>5 DEF Similarity, p

LEMMA LikenessInt ==
  ASSUME CorpusRead(corpus), NEW members, DOMAIN members \in SUBSET Nat, IsFiniteSet(DOMAIN members),
         \A i \in DOMAIN members : members[i] \in DOMAIN corpus, NEW i \in DOMAIN members
  PROVE  Likeness(members, i) \in Int
<1> DEFINE S == DOMAIN members \ {i}
           sim == [j \in S |-> Similarity(members[i], members[j])]
           pick == [s \in SUBSET S |-> CHOOSE x \in s : TRUE]
           step == [p \in Int \X S |-> sim[p[2]] + p[1]]
           grows(g) == g = [s \in SUBSET S |-> IF s = {} THEN 0
                              ELSE Similarity(members[i], members[CHOOSE x \in s : TRUE]) + g[s \ {CHOOSE x \in s : TRUE}]]
           grown == CHOOSE g : grows(g)
<1>1. Likeness(members, i) = grown[S]
  BY DEF Likeness, MapThenSumSet, MapThenFoldSet
<1>2. \A j \in S : sim[j] = Similarity(members[i], members[j]) /\ sim[j] \in Int
  BY SimilarityInt
<1>3. IsFiniteSet(S)
  BY FS_Subset
<1>4. \A s \in SUBSET S : s # {} => pick[s] \in s /\ pick[s] = CHOOSE x \in s : TRUE
  OBVIOUS
<1>5. step \in [Int \X S -> Int] /\ \A n \in Int, j \in S : step[<<n, j>>] = sim[j] + n
  <2> HIDE DEF sim, S
  <2>. QED
    BY <1>2
<1> HIDE DEF S, sim, pick, step
<1>6. PICK f \in [SUBSET S -> Int] : Grows(f, S, 0, pick, step)
  <2>1. 0 \in Int
    OBVIOUS
  <2>. QED
    BY <1>3, <1>4, <1>5, <2>1, GrownExists
<1>7. \A s \in SUBSET S : s # {} => step[<<f[s \ {pick[s]}], pick[s]>>]
        = Similarity(members[i], members[CHOOSE x \in s : TRUE]) + f[s \ {CHOOSE x \in s : TRUE}]
  BY <1>2, <1>4, <1>5
<1>8. grows(f)
  BY <1>6, <1>7 DEF Grows
<1>9. grows(grown)
  <2> HIDE DEF grows
  <2>. QED
    BY <1>8
<1> HIDE DEF grown
<1>10. \A s \in SUBSET S : grown[s] = IF s = {} THEN 0
         ELSE Similarity(members[i], members[CHOOSE x \in s : TRUE]) + grown[s \ {CHOOSE x \in s : TRUE}]
  BY <1>9
<1>11. ASSUME NEW s \in SUBSET S, s # {}, grown[s \ {pick[s]}] = f[s \ {pick[s]}]
       PROVE  grown[s] = f[s]
  <2>1. f[s] = step[<<f[s \ {pick[s]}], pick[s]>>]
    BY <1>6, <1>11 DEF Grows
  <2>2. pick[s] = CHOOSE x \in s : TRUE
    BY <1>4, <1>11
  <2>3. f[s] = Similarity(members[i], members[CHOOSE x \in s : TRUE]) + f[s \ {CHOOSE x \in s : TRUE}]
    BY <2>1, <1>7, <1>11
  <2>4. grown[s] = Similarity(members[i], members[CHOOSE x \in s : TRUE]) + grown[s \ {CHOOSE x \in s : TRUE}]
    BY <1>10, <1>11
  <2>. QED
    BY <2>2, <2>3, <2>4, <1>11
<1> DEFINE Bad == {s \in SUBSET S : grown[s] # f[s]}
<1>12. Bad = {}
  <2>0. Bad \in SUBSET SUBSET S
    OBVIOUS
  <2>1. SUFFICES ASSUME Bad # {} PROVE FALSE
    OBVIOUS
  <2>2. PICK s \in Bad : \A u \in Bad : u \subseteq s => u = s
    <3> HIDE DEF Bad
    <3>. QED
      BY <1>3, <2>0, <2>1, SmallestSubset
  <2>3. s \in SUBSET S /\ grown[s] # f[s]
    OBVIOUS
  <2>4. s # {}
    BY <2>3, <1>6, <1>10 DEF Grows
  <2>5. s \ {pick[s]} \in SUBSET S /\ s \ {pick[s]} \subseteq s /\ s \ {pick[s]} # s
    BY <2>3, <2>4, <1>4
  <2>6. grown[s \ {pick[s]}] = f[s \ {pick[s]}]
    BY <2>2, <2>5
  <2>. QED
    BY <2>3, <2>4, <2>6, <1>11
<1>13. grown[S] = f[S]
  BY <1>12
<1>. QED
  BY <1>1, <1>13

LEMMA RepresentativeIn ==
  ASSUME CorpusRead(corpus), NEW members, DOMAIN members \in SUBSET Nat, IsFiniteSet(DOMAIN members),
         DOMAIN members # {}, \A i \in DOMAIN members : members[i] \in DOMAIN corpus
  PROVE  \E i \in DOMAIN members : Representative(members) = members[i]
<1> DEFINE S == DOMAIN members
           L(i) == Likeness(members, i)
           R == {p \in S \X S : L(p[1]) > L(p[2]) \/ (L(p[1]) = L(p[2]) /\ p[1] <= p[2])}
           best(i) == \A j \in S : L(i) > L(j) \/ (L(i) = L(j) /\ i <= j)
<1>1. \A i \in S : L(i) \in Int /\ i \in Nat
  BY LikenessInt
<1>2. \A x, y \in S : <<x, y>> \in R <=> L(x) > L(y) \/ (L(x) = L(y) /\ x <= y)
  <2> HIDE DEF L, S
  <2>. QED
    OBVIOUS
<1> HIDE DEF L, R
<1>3. /\ \A x, y \in S : <<x, y>> \in R \/ <<y, x>> \in R
      /\ \A x, y, z \in S : <<x, y>> \in R /\ <<y, z>> \in R => <<x, z>> \in R
  <2> HIDE DEF S
  <2>1. ASSUME NEW x \in S, NEW y \in S PROVE <<x, y>> \in R \/ <<y, x>> \in R
    <3>1. L(x) \in Int /\ L(y) \in Int /\ x \in Nat /\ y \in Nat
      BY <1>1
    <3>. QED
      BY <3>1, <1>2
  <2>2. ASSUME NEW x \in S, NEW y \in S, NEW z \in S, <<x, y>> \in R, <<y, z>> \in R PROVE <<x, z>> \in R
    <3>1. L(x) \in Int /\ L(y) \in Int /\ L(z) \in Int /\ x \in Nat /\ y \in Nat /\ z \in Nat
      BY <1>1
    <3>. QED
      BY <3>1, <1>2, <2>2
  <2>. QED
    BY <2>1, <2>2
<1>4. PICK i \in S : \A j \in S : <<i, j>> \in R
  <2> HIDE DEF S
  <2>0. IsFiniteSet(S) /\ S # {}
    BY DEF S
  <2>. QED
    BY <2>0, <1>3, TopOf
<1>5. best(i)
  BY <1>2, <1>4
<1>6. best(CHOOSE k \in S : best(k)) /\ (CHOOSE k \in S : best(k)) \in S
  <2> HIDE DEF best, S
  <2>. QED
    BY <1>5
<1>7. Representative(members) = members[CHOOSE k \in S : best(k)]
  BY DEF Representative, L
<1>. QED
  BY <1>6, <1>7

\* An article that fits an event has a home.
LEMMA HomesExist ==
  ASSUME CorpusRead(corpus), IsFiniteSet(DOMAIN clusters), NEW a \in DOMAIN corpus,
         \A c \in DOMAIN clusters : /\ DOMAIN clusters[c] \in SUBSET Nat /\ IsFiniteSet(DOMAIN clusters[c])
                                    /\ DOMAIN clusters[c] # {}
                                    /\ \A i \in DOMAIN clusters[c] : clusters[c][i] \in DOMAIN corpus,
         NEW c \in DOMAIN clusters, Fits(a, c)
  PROVE  Homes(a) # {}
<1> DEFINE S == {e \in DOMAIN clusters : Fits(a, e)}
           like(e) == Similarity(a, Representative(clusters[e]))
           share(e) == SharedIndex(a, e)
           R == {p \in S \X S : like(p[1]) > like(p[2]) \/ (like(p[1]) = like(p[2]) /\ share(p[1]) >= share(p[2]))}
<1>1. \A e \in S : like(e) \in Int /\ share(e) \in Int
  <2>1. SUFFICES ASSUME NEW e \in DOMAIN clusters PROVE like(e) \in Int /\ share(e) \in Int
    OBVIOUS
  <2>2. Representative(clusters[e]) \in DOMAIN corpus
    BY RepresentativeIn
  <2>3. like(e) \in Int
    BY <2>2, SimilarityInt
  <2>4. IsFiniteSet({t \in Index(a) : e \in Entry(t)})
    BY TokensOf, FS_Subset
  <2>5. share(e) \in Int
    BY <2>4, FS_CardinalityType DEF SharedIndex
  <2>. QED
    BY <2>3, <2>5
<1>2. \A x, y \in S : <<x, y>> \in R <=> like(x) > like(y) \/ (like(x) = like(y) /\ share(x) >= share(y))
  <2> HIDE DEF like, share, S
  <2>. QED
    OBVIOUS
<1>3. IsFiniteSet(S) /\ S # {} /\ S \subseteq DOMAIN clusters
  BY FS_Subset
<1>4. Homes(a) = {x \in S : \A y \in S : like(x) > like(y) \/ (like(x) = like(y) /\ share(x) >= share(y))}
  BY DEF Homes
<1> HIDE DEF like, share, R, S
<1>5. /\ \A x, y \in S : <<x, y>> \in R \/ <<y, x>> \in R
      /\ \A x, y, z \in S : <<x, y>> \in R /\ <<y, z>> \in R => <<x, z>> \in R
  <2>1. ASSUME NEW x \in S, NEW y \in S PROVE <<x, y>> \in R \/ <<y, x>> \in R
    <3>1. like(x) \in Int /\ like(y) \in Int /\ share(x) \in Int /\ share(y) \in Int
      BY <1>1
    <3>. QED
      BY <3>1, <1>2
  <2>2. ASSUME NEW x \in S, NEW y \in S, NEW z \in S, <<x, y>> \in R, <<y, z>> \in R PROVE <<x, z>> \in R
    <3>1. like(x) \in Int /\ like(y) \in Int /\ like(z) \in Int /\ share(x) \in Int /\ share(y) \in Int /\ share(z) \in Int
      BY <1>1
    <3>. QED
      BY <3>1, <1>2, <2>2
  <2>. QED
    BY <2>1, <2>2
<1>6. PICK x \in S : \A y \in S : <<x, y>> \in R
  BY <1>3, <1>5, TopOf
<1>7. x \in Homes(a)
  BY <1>2, <1>4, <1>6
<1>. QED
  BY <1>7

\* The homes of an article are events it fits.
LEMMA HomesFit ==
  ASSUME NEW a, NEW c \in Homes(a)
  PROVE  c \in DOMAIN clusters /\ Fits(a, c)
BY DEF Homes

----------------------------------------------------------------------------
(* AgendaEvents: the inductive invariant *)

\* Two articles that may be in one event; it does not matter which came first.
CleanPair(a, b) == SameWording(a, b) \/
  /\ corpus[a].category = corpus[b].category /\ ~Banned(a, b)
  /\ \/ corpus[a].concepts \cap corpus[b].concepts # {}
     \/ ~Disjoint(corpus[a].actors, corpus[b].actors) /\ ~EventsApart(a, b)

LEMMA CleanEither ==
  ASSUME NEW a, NEW b, SameEvent(a, b)
  PROVE  CleanPair(a, b) /\ CleanPair(b, a)
<1>1. SameWording(a, b) => SameWording(b, a)
  BY DEF SameWording
<1>2. Banned(b, a) => Banned(a, b)
  <2>1. SUFFICES ASSUME Banned(b, a) PROVE Banned(a, b)
    OBVIOUS
  <2>2. PICK q \in corpus[b].patterns, p \in corpus[a].patterns : {<<q, p>>, <<p, q>>} \cap Opposed # {}
    BY <2>1, Zenon DEF Banned
  <2>3. {<<p, q>>, <<q, p>>} \cap Opposed # {}
    BY <2>2
  <2>. QED
    BY <2>3, Zenon DEF Banned
<1>3. EventsApart(b, a) => EventsApart(a, b)
  BY DEF EventsApart, Alike
<1>4. Disjoint(corpus[b].actors, corpus[a].actors) => Disjoint(corpus[a].actors, corpus[b].actors)
  BY DEF Disjoint
<1>5. SameWording(a, b) \/ (/\ ~Banned(a, b) /\ corpus[a].category = corpus[b].category
                            /\ \/ corpus[a].concepts \cap corpus[b].concepts # {}
                               \/ ~Disjoint(corpus[a].actors, corpus[b].actors) /\ ~EventsApart(a, b))
  BY DEF SameEvent
<1>6. CleanPair(a, b)
  BY <1>5 DEF CleanPair
<1>7. corpus[a].concepts \cap corpus[b].concepts = corpus[b].concepts \cap corpus[a].concepts
  OBVIOUS
<1>8. CleanPair(b, a)
  <2>1. CASE SameWording(a, b)
    BY <2>1, <1>1 DEF CleanPair
  <2>2. CASE ~SameWording(a, b)
    BY <2>2, <1>2, <1>3, <1>4, <1>5, <1>7, Zenon DEF CleanPair
  <2>. QED
    BY <2>1, <2>2
<1>. QED
  BY <1>6, <1>8

\* The events are sequences of the articles placed so far, each in one of them.
EventsFormed ==
  /\ CorpusRead(corpus) /\ placed \in 0 .. Len(corpus)
  /\ clusters \in Seq(Seq(Nat)) /\ Len(clusters) <= placed
  /\ \A c \in DOMAIN clusters : /\ Len(clusters[c]) >= 1
                                /\ \A i, j \in DOMAIN clusters[c] : clusters[c][i] = clusters[c][j] => i = j
  /\ UNION {Members(c) : c \in DOMAIN clusters} = 1 .. placed
  /\ \A c, e \in DOMAIN clusters : c # e => Members(c) \cap Members(e) = {}

\* An event is found under every token of its articles, unless the token's entry is full.
EventsIndexed ==
  /\ \A t \in DOMAIN bucket : bucket[t] \subseteq DOMAIN clusters /\ Cardinality(bucket[t]) <= BucketCap
  /\ \A c \in DOMAIN clusters : \A m \in Members(c) : \A t \in Index(m) :
       c \in Entry(t) \/ Cardinality(Entry(t)) = BucketCap

EventsListed ==
  issues = << >> \/ (corpus # << >> /\ placed = Len(corpus) /\ DOMAIN issues = DOMAIN clusters)

EventsInv == EventsFormed /\ EventsIndexed /\ EventsClean /\ EventsWhole /\ EventsListed /\ CoverageLeads

LEMMA EventsInvInit == EventsInit => EventsInv
<1> SUFFICES ASSUME EventsInit PROVE EventsInv
  OBVIOUS
<1>1. corpus = << >> /\ placed = 0 /\ clusters = << >> /\ bucket = << >> /\ issues = << >>
  BY DEF EventsInit
<1>2. Len(corpus) = 0 /\ DOMAIN corpus = {} /\ DOMAIN clusters = {} /\ Len(clusters) = 0 /\ DOMAIN bucket = {} /\ DOMAIN issues = {}
      /\ clusters \in Seq(Seq(Nat))
  BY <1>1
<1>3. CorpusRead(corpus)
  BY <1>2 DEF CorpusRead
<1>4. UNION {Members(c) : c \in DOMAIN clusters} = {}
  BY <1>2
<1>5. EventsFormed
  BY <1>1, <1>2, <1>3, <1>4 DEF EventsFormed
<1>. QED
  BY <1>1, <1>2, <1>5 DEF EventsInv, EventsIndexed, EventsClean, EventsWhole, EventsListed, CoverageLeads

\* An event's articles are articles of the day.
LEMMA MembersPlaced ==
  ASSUME EventsFormed, NEW c \in DOMAIN clusters
  PROVE  /\ DOMAIN clusters = 1 .. Len(clusters) /\ Len(clusters) \in Nat /\ IsFiniteSet(DOMAIN clusters)
         /\ clusters[c] \in Seq(Nat) /\ DOMAIN clusters[c] = 1 .. Len(clusters[c]) /\ Len(clusters[c]) \in Nat
         /\ IsFiniteSet(DOMAIN clusters[c]) /\ DOMAIN clusters[c] # {} /\ DOMAIN clusters[c] \in SUBSET Nat
         /\ Members(c) \subseteq 1 .. placed /\ 1 .. placed \subseteq DOMAIN corpus
         /\ \A i \in DOMAIN clusters[c] : clusters[c][i] \in Members(c)
<1>1. DOMAIN clusters = 1 .. Len(clusters) /\ Len(clusters) \in Nat /\ clusters[c] \in Seq(Nat)
  BY DEF EventsFormed
<1>2. DOMAIN clusters[c] = 1 .. Len(clusters[c]) /\ Len(clusters[c]) \in Nat /\ Len(clusters[c]) >= 1
  BY <1>1 DEF EventsFormed
<1>3. IsFiniteSet(1 .. Len(clusters)) /\ IsFiniteSet(1 .. Len(clusters[c]))
  BY <1>1, <1>2, FS_Interval
<1>4. 1 \in DOMAIN clusters[c]
  BY <1>2
<1>5. Members(c) \subseteq 1 .. placed
  BY DEF EventsFormed
<1>6. 1 .. placed \subseteq DOMAIN corpus
  BY DEF EventsFormed, CorpusRead
<1>7. \A i \in DOMAIN clusters[c] : clusters[c][i] \in Members(c)
  BY DEF Members
<1>8. DOMAIN clusters[c] \in SUBSET Nat
  BY <1>2
<1>. QED
  BY <1>1, <1>2, <1>3, <1>4, <1>5, <1>6, <1>7, <1>8

\* The index entries are small.
LEMMA EntrySmall ==
  ASSUME EventsFormed, EventsIndexed, NEW t
  PROVE  /\ Entry(t) \subseteq DOMAIN clusters /\ IsFiniteSet(Entry(t))
         /\ Cardinality(Entry(t)) \in Nat /\ Cardinality(Entry(t)) <= BucketCap
<1>1. IsFiniteSet(DOMAIN clusters)
  <2>1. DOMAIN clusters = 1 .. Len(clusters) /\ Len(clusters) \in Nat
    BY DEF EventsFormed
  <2>. QED
    BY <2>1, FS_Interval
<1>2. BucketCap \in Nat
  BY EventsAssumption
<1>3. Entry(t) \subseteq DOMAIN clusters
  BY DEF Entry, EventsIndexed
<1>4. IsFiniteSet(Entry(t)) /\ Cardinality(Entry(t)) \in Nat
  BY <1>1, <1>3, FS_Subset, FS_CardinalityType
<1>5. Cardinality({}) = 0
  BY FS_EmptySet
<1>6. Cardinality(Entry(t)) <= BucketCap
  BY <1>2, <1>5 DEF Entry, EventsIndexed
<1>. QED
  BY <1>3, <1>4, <1>6

\* A sequence with one element changed
LEMMA OneChanged ==
  ASSUME NEW T, NEW s \in Seq(T), NEW i \in DOMAIN s, NEW v \in T, NEW r, r = [s EXCEPT ![i] = v]
  PROVE  r \in Seq(T) /\ DOMAIN r = DOMAIN s /\ Len(r) = Len(s)
OBVIOUS

\* What joining an event changes
LEMMA JoinChanges ==
  ASSUME EventsFormed, EventsIndexed, corpus' = corpus, placed' = placed + 1, placed < Len(corpus),
         NEW c, c \in DOMAIN clusters \/ c = Len(clusters) + 1, Join(placed + 1, c)
  PROVE  /\ clusters' \in Seq(Seq(Nat)) /\ DOMAIN clusters' = DOMAIN clusters \cup {c}
         /\ Len(clusters') = IF c \in DOMAIN clusters THEN Len(clusters) ELSE Len(clusters) + 1
         /\ \A e \in DOMAIN clusters : clusters'[e][1] = clusters[e][1]
         /\ \A e \in DOMAIN clusters : e # c => clusters'[e] = clusters[e] /\ Members(e)' = Members(e)
         /\ Members(c)' = (IF c \in DOMAIN clusters THEN Members(c) ELSE {}) \cup {placed + 1}
         /\ c \in DOMAIN clusters => clusters'[c] = Append(clusters[c], placed + 1)
         /\ c \notin DOMAIN clusters => clusters'[c] = <<placed + 1>>
         /\ \A t : Entry(t)' = IF t \in Index(placed + 1) /\ Cardinality(Entry(t)) < BucketCap
                               THEN Entry(t) \cup {c} ELSE Entry(t)
<1> DEFINE a == placed + 1
<1>1. placed \in Nat /\ a \in Nat /\ clusters \in Seq(Seq(Nat)) /\ Len(clusters) \in Nat /\ DOMAIN clusters = 1 .. Len(clusters)
  BY DEF EventsFormed
<1>2. clusters' = IF c \in DOMAIN clusters THEN [clusters EXCEPT ![c] = Append(clusters[c], a)]
                  ELSE Append(clusters, <<a>>)
  BY DEF Join
<1>3. \A t : Entry(t)' = IF t \in Index(a) /\ Cardinality(Entry(t)) < BucketCap
                         THEN Entry(t) \cup {c} ELSE Entry(t)
  <2>1. SUFFICES ASSUME NEW t PROVE Entry(t)' = IF t \in Index(a) /\ Cardinality(Entry(t)) < BucketCap
                         THEN Entry(t) \cup {c} ELSE Entry(t)
    OBVIOUS
  <2> DEFINE x == IF t \in Index(a) /\ Cardinality(Entry(t)) < BucketCap THEN Entry(t) \cup {c} ELSE Entry(t)
  <2>2. bucket' = [u \in DOMAIN bucket \cup Index(a) |->
                  IF u \in Index(a) /\ Cardinality(Entry(u)) < BucketCap THEN Entry(u) \cup {c} ELSE Entry(u)]
    BY DEF Join
  <2>3. DOMAIN bucket' = DOMAIN bucket \cup Index(a)
    BY <2>2
  <2>4. t \in DOMAIN bucket \cup Index(a) => bucket'[t] = x
    BY <2>2
  <2>5. Entry(t)' = IF t \in DOMAIN bucket' THEN bucket'[t] ELSE {}
    BY DEF Entry
  <2>6. t \notin DOMAIN bucket \cup Index(a) => x = {}
    BY DEF Entry
  <2> HIDE DEF x
  <2>7. Entry(t)' = x
    BY <2>3, <2>4, <2>5, <2>6
  <2>. QED
    BY <2>7 DEF x
<1>4. CASE c \in DOMAIN clusters
  <2>1. clusters' = [clusters EXCEPT ![c] = Append(clusters[c], a)] /\ clusters[c] \in Seq(Nat) /\ Len(clusters[c]) \in Nat
    BY <1>1, <1>2, <1>4
  <2>2. Append(clusters[c], a) \in Seq(Nat)
    BY <1>1, <2>1
  <2>3. clusters' \in Seq(Seq(Nat)) /\ DOMAIN clusters' = DOMAIN clusters /\ Len(clusters') = Len(clusters)
    BY <1>1, <1>4, <2>1, <2>2, OneChanged
  <2>4. clusters'[c] = Append(clusters[c], a) /\ \A e \in DOMAIN clusters : e # c => clusters'[e] = clusters[e]
    BY <2>1, <1>4
  <2>5. \A e \in DOMAIN clusters : e # c => Members(e)' = Members(e)
    BY <2>4 DEF Members
  <2>6. Members(c)' = {clusters'[c][i] : i \in DOMAIN clusters'[c]}
    BY DEF Members
  <2>7. Len(clusters'[c]) = Len(clusters[c]) + 1 /\ clusters'[c][Len(clusters[c]) + 1] = a
        /\ DOMAIN clusters'[c] = 1 .. Len(clusters[c]) + 1 /\ DOMAIN clusters[c] = 1 .. Len(clusters[c])
        /\ \A i \in DOMAIN clusters[c] : clusters'[c][i] = clusters[c][i]
    BY <1>1, <2>1, <2>4
  <2>8. Members(c)' = Members(c) \cup {a}
    <3>1. \A x : x \in Members(c)' <=> \E i \in 1 .. Len(clusters[c]) + 1 : x = clusters'[c][i]
      BY <2>6, <2>7
    <3>2. \A x : x \in Members(c) <=> \E i \in 1 .. Len(clusters[c]) : x = clusters[c][i]
      BY <2>7 DEF Members
    <3>3. \A i : i \in 1 .. Len(clusters[c]) + 1 <=> i \in 1 .. Len(clusters[c]) \/ i = Len(clusters[c]) + 1
      BY <2>1
    <3>4. \A x : x \in Members(c)' <=> x \in Members(c) \cup {a}
      BY <3>1, <3>2, <3>3, <2>7
    <3>. QED
      BY <3>4
  <2>9. Len(clusters[c]) >= 1
    BY <1>4 DEF EventsFormed
  <2>10. clusters'[c][1] = clusters[c][1]
    BY <2>1, <2>7, <2>9
  <2>. QED
    BY <1>3, <1>4, <2>3, <2>4, <2>5, <2>8, <2>10
<1>5. CASE c \notin DOMAIN clusters
  <2>1. clusters' = Append(clusters, <<a>>) /\ c = Len(clusters) + 1
    BY <1>2, <1>5
  <2>2. <<a>> \in Seq(Nat)
    BY <1>1
  <2>3. clusters' \in Seq(Seq(Nat)) /\ Len(clusters') = Len(clusters) + 1 /\ DOMAIN clusters' = 1 .. Len(clusters) + 1
        /\ clusters'[c] = <<a>> /\ \A e \in DOMAIN clusters : clusters'[e] = clusters[e]
    BY <1>1, <2>1, <2>2
  <2>4. DOMAIN clusters' = DOMAIN clusters \cup {c}
    BY <1>1, <2>1, <2>3
  <2>5. \A e \in DOMAIN clusters : Members(e)' = Members(e)
    BY <2>3 DEF Members
  <2>6. Members(c)' = {clusters'[c][i] : i \in DOMAIN clusters'[c]}
    BY DEF Members
  <2>7. DOMAIN <<a>> = {1} /\ <<a>>[1] = a
    OBVIOUS
  <2>8. Members(c)' = {a}
    BY <2>3, <2>6, <2>7
  <2>. QED
    BY <1>3, <1>5, <2>3, <2>4, <2>5, <2>8
<1>. QED
  BY <1>4, <1>5

\* An article that joins an event is in one event, and found under its tokens.
LEMMA JoinFormed ==
  ASSUME EventsFormed, EventsIndexed, corpus' = corpus, placed' = placed + 1, placed < Len(corpus),
         NEW c, c \in DOMAIN clusters \/ c = Len(clusters) + 1, Join(placed + 1, c)
  PROVE  EventsFormed'
<1> DEFINE a == placed + 1
           D == DOMAIN clusters
           N == DOMAIN clusters'
<1>0. placed \in Nat /\ a \in Nat /\ Len(clusters) \in Nat /\ DOMAIN clusters = 1 .. Len(clusters) /\ Len(corpus) \in Nat
      /\ placed' = a /\ a \in 1 .. Len(corpus) /\ Len(clusters) <= placed /\ 1 .. a = 1 .. placed \cup {a} /\ a \notin 1 .. placed
  <2>1. placed \in Nat /\ Len(corpus) \in Nat /\ placed < Len(corpus)
    BY DEF EventsFormed, CorpusRead
  <2>2. \A x : x \in 1 .. a <=> x \in 1 .. placed \/ x = a
    BY <2>1
  <2>3. Len(clusters) \in Nat /\ DOMAIN clusters = 1 .. Len(clusters) /\ Len(clusters) <= placed
    BY DEF EventsFormed
  <2>4. a \in Nat /\ a \in 1 .. Len(corpus) /\ a \notin 1 .. placed
    BY <2>1
  <2>. QED
    BY <2>1, <2>2, <2>3, <2>4
<1>1. /\ clusters' \in Seq(Seq(Nat)) /\ N = D \cup {c}
      /\ Len(clusters') = IF c \in D THEN Len(clusters) ELSE Len(clusters) + 1
      /\ \A e \in D : e # c => clusters'[e] = clusters[e] /\ Members(e)' = Members(e)
      /\ Members(c)' = (IF c \in D THEN Members(c) ELSE {}) \cup {a}
      /\ c \in D => clusters'[c] = Append(clusters[c], a)
      /\ c \notin D => clusters'[c] = <<a>>
  BY JoinChanges
<1>2. \A e \in D : Members(e) \subseteq 1 .. placed /\ clusters[e] \in Seq(Nat) /\ Len(clusters[e]) >= 1
                   /\ \A i \in DOMAIN clusters[e] : clusters[e][i] \in Members(e)
  BY MembersPlaced DEF EventsFormed
<1>3. CorpusRead(corpus)' /\ placed' \in 0 .. Len(corpus')
  BY <1>0 DEF EventsFormed, CorpusRead
<1>4. Len(clusters') <= placed'
  BY <1>0, <1>1
<1>5. ASSUME NEW e \in N
      PROVE  Len(clusters'[e]) >= 1 /\ \A i, j \in DOMAIN clusters'[e] : clusters'[e][i] = clusters'[e][j] => i = j
  <2>1. CASE e # c
    BY <2>1, <1>1 DEF EventsFormed
  <2>2. CASE e = c /\ c \notin D
    <3>1. clusters'[e] = <<a>>
      BY <2>2, <1>1
    <3>. QED
      BY <3>1
  <2>3. CASE e = c /\ c \in D
    <3>1. clusters'[e] = Append(clusters[c], a) /\ clusters[c] \in Seq(Nat)
      BY <2>3, <1>1, <1>2
    <3>2. \A i, j \in DOMAIN clusters[c] : clusters[c][i] = clusters[c][j] => i = j
      BY <2>3 DEF EventsFormed
    <3>3. \A i \in DOMAIN clusters[c] : clusters[c][i] # a
      BY <2>3, <1>0, <1>2
    <3> DEFINE s == clusters[c]
    <3> HIDE DEF s, a
    <3>4. /\ DOMAIN Append(s, a) = DOMAIN s \cup {Len(s) + 1} /\ Append(s, a)[Len(s) + 1] = a
          /\ Len(Append(s, a)) >= 1
          /\ \A i \in DOMAIN s : Append(s, a)[i] = s[i]
      <4>1. s \in Seq(Nat) /\ a \in Nat
        BY <3>1, <1>0 DEF s
      <4>. QED
        BY <4>1
    <3>5. \A i, j \in DOMAIN Append(s, a) : Append(s, a)[i] = Append(s, a)[j] => i = j
      BY <3>2, <3>3, <3>4 DEF s
    <3>. QED
      BY <3>1, <3>4, <3>5 DEF s
  <2>. QED
    BY <2>1, <2>2, <2>3, <1>1
<1>6. UNION {Members(e)' : e \in N} = 1 .. placed'
  <2>1. \A x : x \in 1 .. placed <=> \E e \in D : x \in Members(e)
    BY DEF EventsFormed
  <2>2. ASSUME NEW x PROVE (\E e \in N : x \in Members(e)') <=> x = a \/ \E e \in D : x \in Members(e)
    <3>1. ASSUME NEW e \in N, x \in Members(e)' PROVE x = a \/ \E f \in D : x \in Members(f)
      <4>1. CASE e = c
        <5>1. x \in (IF c \in D THEN Members(c) ELSE {}) \cup {a}
          BY <3>1, <4>1, <1>1
        <5>. QED
          BY <5>1
      <4>2. CASE e # c
        BY <3>1, <4>2, <1>1
      <4>. QED
        BY <4>1, <4>2
    <3>2. a \in Members(c)' /\ c \in N
      BY <1>1
    <3>3. ASSUME NEW e \in D, x \in Members(e) PROVE e \in N /\ x \in Members(e)'
      BY <3>3, <1>1
    <3> HIDE DEF D, N, a
    <3>. QED
      BY <3>1, <3>2, <3>3
  <2>3. \A x : (\E e \in N : x \in Members(e)') <=> x \in 1 .. placed'
    BY <2>1, <2>2, <1>0
  <2> HIDE DEF N
  <2>4. \A x : x \in UNION {Members(e)' : e \in N} <=> x \in 1 .. placed'
    BY <2>3, Zenon
  <2>. QED
    BY <2>4
<1>7. ASSUME NEW e \in N, NEW f \in N, e # f PROVE Members(e)' \cap Members(f)' = {}
  <2>1. \A g, h \in D : g # h => Members(g) \cap Members(h) = {}
    BY DEF EventsFormed
  <2>2. \A g \in D : a \notin Members(g)
    BY <1>0, <1>2
  <2>3. ASSUME NEW g \in N, g # c PROVE Members(g)' \cap Members(c)' = {}
    <3>1. g \in D /\ Members(g)' = Members(g)
      BY <2>3, <1>1
    <3>. QED
      BY <3>1, <2>1, <2>2, <2>3, <1>1
  <2>4. CASE e # c /\ f # c
    BY <2>1, <2>4, <1>1, <1>7
  <2>. QED
    BY <2>3, <2>4, <1>7
<1>8. (UNION {Members(e) : e \in DOMAIN clusters})' = 1 .. placed'
  BY <1>6
<1>. QED
  BY <1>1, <1>3, <1>4, <1>5, <1>7, <1>8 DEF EventsFormed

LEMMA JoinIndexed ==
  ASSUME EventsFormed, EventsIndexed, corpus' = corpus, placed' = placed + 1, placed < Len(corpus),
         NEW c, c \in DOMAIN clusters \/ c = Len(clusters) + 1, Join(placed + 1, c)
  PROVE  EventsIndexed'
<1> DEFINE a == placed + 1
           D == DOMAIN clusters
           N == DOMAIN clusters'
<1>1. /\ N = D \cup {c}
      /\ \A e \in D : e # c => Members(e)' = Members(e)
      /\ Members(c)' = (IF c \in D THEN Members(c) ELSE {}) \cup {a}
      /\ \A t : Entry(t)' = IF t \in Index(a) /\ Cardinality(Entry(t)) < BucketCap THEN Entry(t) \cup {c} ELSE Entry(t)
  BY JoinChanges
<1>2. \A t : /\ Entry(t) \subseteq D /\ IsFiniteSet(Entry(t))
             /\ Cardinality(Entry(t)) \in Nat /\ Cardinality(Entry(t)) <= BucketCap
  BY EntrySmall
<1>3. BucketCap \in Nat
  BY EventsAssumption
<1> HIDE DEF a, D, N
<1>4. ASSUME NEW t PROVE Entry(t)' \subseteq N /\ Cardinality(Entry(t)') <= BucketCap
  <2>1. CASE t \in Index(a) /\ Cardinality(Entry(t)) < BucketCap
    <3>1. Entry(t)' = Entry(t) \cup {c}
      BY <2>1, <1>1
    <3>2. Cardinality(Entry(t) \cup {c}) = Cardinality(Entry(t)) \/ Cardinality(Entry(t) \cup {c}) = Cardinality(Entry(t)) + 1
      BY <1>2, FS_AddElement
    <3>. QED
      BY <3>1, <3>2, <2>1, <1>1, <1>2, <1>3
  <2>2. CASE ~(t \in Index(a) /\ Cardinality(Entry(t)) < BucketCap)
    <3>1. Entry(t)' = Entry(t)
      BY <2>2, <1>1
    <3>. QED
      BY <3>1, <1>1, <1>2
  <2>. QED
    BY <2>1, <2>2
<1>5. \A t \in DOMAIN bucket' : bucket'[t] = Entry(t)'
  BY DEF Entry
<1>6. ASSUME NEW e \in N, NEW m \in Members(e)', NEW t \in Index(m)
      PROVE  e \in Entry(t)' \/ Cardinality(Entry(t)') = BucketCap
  <2>1. CASE e = c /\ m = a
    <3>1. CASE Cardinality(Entry(t)) < BucketCap
      BY <3>1, <2>1, <1>1
    <3>2. CASE ~(Cardinality(Entry(t)) < BucketCap)
      <4>1. Entry(t)' = Entry(t) /\ Cardinality(Entry(t)) = BucketCap
        BY <3>2, <1>1, <1>2, <1>3
      <4>. QED
        BY <4>1
    <3>. QED
      BY <3>1, <3>2
  <2>2. CASE ~(e = c /\ m = a)
    <3>1. e \in D /\ m \in Members(e)
      BY <2>2, <1>1
    <3>2. e \in Entry(t) \/ Cardinality(Entry(t)) = BucketCap
      BY <3>1 DEF EventsIndexed, D
    <3>3. CASE e \in Entry(t)
      BY <3>3, <1>1
    <3>4. CASE Cardinality(Entry(t)) = BucketCap
      <4>1. Entry(t)' = Entry(t)
        BY <3>4, <1>1, <1>3
      <4>. QED
        BY <4>1, <3>4
    <3>. QED
      BY <3>2, <3>3, <3>4
  <2>. QED
    BY <2>1, <2>2
<1>7. \A m : Index(m)' = Index(m)
  BY CorpusKept
<1>8. \A e \in DOMAIN clusters' : \A m \in Members(e)' : \A t \in Index(m)' :
        e \in Entry(t)' \/ Cardinality(Entry(t))' = BucketCap
  BY <1>6, <1>7 DEF N
<1>9. \A t \in DOMAIN bucket' : bucket'[t] \subseteq DOMAIN clusters' /\ Cardinality(bucket'[t]) <= BucketCap
  BY <1>4, <1>5 DEF N
<1>. QED
  BY <1>8, <1>9 DEF EventsIndexed

\* Only articles that go together come into one event.
LEMMA JoinClean ==
  ASSUME EventsFormed, EventsIndexed, EventsClean, corpus' = corpus, placed' = placed + 1, placed < Len(corpus),
         NEW c, c \in Homes(placed + 1) \/ c = Len(clusters) + 1, Join(placed + 1, c)
  PROVE  EventsClean'
<1> DEFINE a == placed + 1
           D == DOMAIN clusters
           N == DOMAIN clusters'
<1>1. c \in D => Fits(a, c)
  <2>1. c = Len(clusters) + 1 => c \notin D
    BY DEF EventsFormed
  <2>. QED
    BY <2>1, HomesFit
<1>2. /\ N = D \cup {c}
      /\ \A e \in D : e # c => Members(e)' = Members(e)
      /\ Members(c)' = (IF c \in D THEN Members(c) ELSE {}) \cup {a}
  <2>1. c \in D \/ c = Len(clusters) + 1
    BY HomesFit
  <2>. QED
    BY <2>1, JoinChanges
<1>3. \A e \in D : \A x, y \in Members(e) : CleanPair(x, y)
  BY DEF EventsClean, CleanPair
<1>4. c \in D => \A m \in Members(c) : SameEvent(a, m)
  BY <1>1 DEF Fits
<1>5. CleanPair(a, a)
  BY DEF CleanPair, SameWording
<1>6. ASSUME NEW e \in N, NEW x \in Members(e)', NEW y \in Members(e)' PROVE CleanPair(x, y)
  <2>1. CASE e # c
    BY <2>1, <1>2, <1>3
  <2>2. CASE e = c
    <3>1. (x = a \/ (c \in D /\ x \in Members(c))) /\ (y = a \/ (c \in D /\ y \in Members(c)))
      BY <2>2, <1>2
    <3>2. CASE x = a /\ y = a
      BY <3>2, <1>5
    <3>3. CASE x = a /\ y # a
      BY <3>1, <3>3, <1>4, CleanEither
    <3>4. CASE x # a /\ y = a
      BY <3>1, <3>4, <1>4, CleanEither
    <3>5. CASE x # a /\ y # a
      BY <3>1, <3>5, <1>3
    <3>. QED
      BY <3>2, <3>3, <3>4, <3>5
  <2>. QED
    BY <2>1, <2>2
<1>7. \A x, y : CleanPair(x, y)' <=> CleanPair(x, y)
  <2> SUFFICES ASSUME NEW x, NEW y PROVE CleanPair(x, y)' <=> CleanPair(x, y)
    OBVIOUS
  <2>1. corpus[x]' = corpus[x] /\ corpus[y]' = corpus[y]
    OBVIOUS
  <2>2. Disjoint(corpus[x].actors, corpus[y].actors)' <=> Disjoint(corpus[x].actors, corpus[y].actors)
    BY DEF Disjoint
  <2>3. (SameWording(x, y)' <=> SameWording(x, y)) /\ (Banned(x, y)' <=> Banned(x, y)) /\ (EventsApart(x, y)' <=> EventsApart(x, y))
    BY CorpusKept
  <2>. QED
    BY <2>2, <2>3, Zenon DEF CleanPair
<1>8. \A e \in DOMAIN clusters' : \A x, y \in Members(e)' : CleanPair(x, y)'
  BY <1>6, <1>7
<1>. QED
  BY <1>8 DEF EventsClean, CleanPair

\* A new event is not one that was there, as far as the index tells; and no event becomes another.
LEMMA JoinWhole ==
  ASSUME EventsFormed, EventsIndexed, EventsWhole, corpus' = corpus, placed' = placed + 1, placed < Len(corpus),
         NEW c, c \in (IF Homes(placed + 1) = {} THEN {Len(clusters) + 1} ELSE Homes(placed + 1)), Join(placed + 1, c)
  PROVE  EventsWhole'
<1> DEFINE a == placed + 1
           D == DOMAIN clusters
           N == DOMAIN clusters'
           n == Len(clusters)
<1>0. placed \in Nat /\ a \in Nat /\ n \in Nat /\ D = 1 .. n /\ a \in DOMAIN corpus
  <2>1. placed \in Nat /\ Len(corpus) \in Nat /\ DOMAIN corpus = 1 .. Len(corpus) /\ n \in Nat /\ D = 1 .. n
    BY DEF EventsFormed, CorpusRead
  <2>. QED
    BY <2>1
<1>1. c \in D \/ c = n + 1
  BY HomesFit
<1>2. /\ N = D \cup {c}
      /\ Len(clusters') = IF c \in D THEN n ELSE n + 1
      /\ \A e \in D : clusters'[e][1] = clusters[e][1]
      /\ \A e \in D : e # c => Members(e)' = Members(e)
      /\ Members(c)' = (IF c \in D THEN Members(c) ELSE {}) \cup {a}
      /\ c \notin D => clusters'[c] = <<a>>
      /\ \A t : Entry(t)' = IF t \in Index(a) /\ Cardinality(Entry(t)) < BucketCap THEN Entry(t) \cup {c} ELSE Entry(t)
  BY <1>1, JoinChanges
<1>3. BucketCap \in Nat
  BY EventsAssumption
<1>4. \A t : Cardinality(Entry(t)) = BucketCap => Cardinality(Entry(t)') = BucketCap
  BY <1>2, <1>3
<1>5. \A e \in D : Members(e) \subseteq 1 .. placed /\ clusters[e][1] \in Members(e)
  BY MembersPlaced
<1>6. (\A x : Index(x)' = Index(x)) /\ (\A x, y : SameEvent(x, y)' <=> SameEvent(x, y))
  BY CorpusKept
<1>7. \A d \in D : Members(d) \subseteq Members(d)' /\ \A m \in Members(d)' : m # a => m \in Members(d)
  BY <1>2
<1>8. ASSUME NEW d \in N, NEW e \in d + 1 .. Len(clusters'), \A m \in Members(d)' : SameEvent(clusters'[e][1], m),
             NEW t \in Index(clusters'[e][1]), NEW m \in Members(d)', m < clusters'[e][1], t \in Index(m)
      PROVE  Cardinality(Entry(t)') = BucketCap
  <2>1. d \in Nat /\ e \in Nat /\ d >= 1 /\ d < e /\ e <= Len(clusters')
    BY <1>0, <1>1, <1>2, <1>8
  <2>2. d \in D /\ e \in N
    BY <2>1, <1>0, <1>1, <1>2
  <2>3. CASE e \in D
    <3>1. clusters'[e][1] = clusters[e][1] /\ clusters[e][1] \in 1 .. placed /\ e \in d + 1 .. n
      BY <2>1, <2>3, <1>0, <1>2, <1>5
    <3>2. m # a
      BY <3>1, <1>0, <1>8
    <3>3. m \in Members(d) /\ \A k \in Members(d) : SameEvent(clusters[e][1], k)
      BY <2>2, <3>1, <3>2, <1>7, <1>8
    <3>4. Cardinality(Entry(t)) = BucketCap
      <4> HIDE DEF n
      <4>. QED
        BY <2>2, <3>1, <3>3, <1>8 DEF EventsWhole, n
    <3>. QED
      BY <3>4, <1>4
  <2>4. CASE e \notin D
    <3>1. e = c /\ c \notin D /\ clusters'[e][1] = a
      BY <2>2, <2>4, <1>2
    <3>2. Homes(a) = {}
      BY <3>1, HomesFit
    <3>3. ~Fits(a, d)
      <4>1. CorpusRead(corpus) /\ IsFiniteSet(D) /\ \A g \in D : /\ DOMAIN clusters[g] \in SUBSET Nat /\ IsFiniteSet(DOMAIN clusters[g])
                    /\ DOMAIN clusters[g] # {} /\ \A i \in DOMAIN clusters[g] : clusters[g][i] \in DOMAIN corpus
        BY <2>2, MembersPlaced DEF EventsFormed
      <4>. QED
        BY <4>1, <3>2, <2>2, <1>0, HomesExist
    <3>4. m \in Members(d) /\ \A k \in Members(d) : SameEvent(a, k)
      <4>1. m # a
        BY <3>1, <1>0, <1>8
      <4>. QED
        BY <4>1, <3>1, <2>2, <1>7, <1>8
    <3>5. ~(SharedIndex(a, d) >= 1)
      BY <3>3, <3>4 DEF Fits
    <3>6. d \notin Entry(t)
      <4> DEFINE S == {u \in Index(a) : d \in Entry(u)}
      <4>1. IsFiniteSet(S)
        <5>1. IsFiniteSet(Index(a))
          BY <1>0, TokensOf DEF EventsFormed
        <5>. QED
          BY <5>1, FS_Subset
      <4>2. SharedIndex(a, d) = Cardinality(S)
        BY DEF SharedIndex
      <4>3. t \in Index(a)
        BY <3>1, <1>8
      <4> HIDE DEF S, a
      <4>4. S = {}
        BY <4>1, <4>2, <3>5, TwoOf
      <4>. QED
        BY <4>3, <4>4 DEF S
    <3>7. Cardinality(Entry(t)) = BucketCap
      BY <2>2, <3>4, <3>6, <1>8 DEF EventsIndexed
    <3>. QED
      BY <3>7, <1>4
  <2>. QED
    BY <2>3, <2>4
<1>9. ASSUME NEW d \in N, NEW e \in d + 1 .. Len(clusters'), NEW b, b = clusters'[e][1], \A m \in Members(d)' : SameEvent(b, m)'
      PROVE  \A t \in Index(b)' : (\E m \in Members(d)' : m < b /\ t \in Index(m)') => Cardinality(Entry(t)') = BucketCap
  BY <1>6, <1>8, <1>9
<1>10. \A d \in DOMAIN clusters' : \A e \in d + 1 .. Len(clusters') :
         (\A m \in Members(d)' : SameEvent(clusters[e][1], m)') =>
           \A t \in Index(clusters[e][1])' : (\E m \in Members(d)' : m < clusters'[e][1] /\ t \in Index(m)') => Cardinality(Entry(t)') = BucketCap
  BY <1>9
<1>. QED
  BY <1>10 DEF EventsWhole

\* Division, as it is used in the score
LEMMA DivMeans ==
  ASSUME NEW a \in Nat, NEW b \in Nat, b >= 1
  PROVE  a \div b \in Nat /\ b * (a \div b) <= a /\ a < b * (a \div b) + b
OBVIOUS

LEMMA DivLeast ==
  ASSUME NEW a \in Nat, NEW b \in Nat, b >= 1, NEW k \in Int, b * k <= a
  PROVE  k <= a \div b
<1> DEFINE q == a \div b
<1>1. q \in Nat /\ a < b * q + b
  BY DivMeans
<1> HIDE DEF q
<1>2. b * k < b * q + b
  BY <1>1
<1>3. SUFFICES ASSUME k >= q + 1 PROVE FALSE
  BY <1>1 DEF q
<1>4. b * k >= b * (q + 1)
  BY <1>1, <1>3
<1>5. b * (q + 1) = b * q + b
  BY <1>1
<1>. QED
  BY <1>1, <1>2, <1>4, <1>5

LEMMA DivMost ==
  ASSUME NEW a \in Nat, NEW b \in Nat, b >= 1, NEW k \in Int, a < b * k + b
  PROVE  a \div b <= k
<1> DEFINE q == a \div b
<1>1. q \in Nat /\ b * q <= a
  BY DivMeans
<1> HIDE DEF q
<1>2. b * q < b * k + b
  BY <1>1
<1>3. SUFFICES ASSUME q >= k + 1 PROVE FALSE
  BY <1>1 DEF q
<1>4. b * q >= b * (k + 1)
  BY <1>1, <1>3
<1>5. b * (k + 1) = b * k + b
  BY <1>1
<1>. QED
  BY <1>1, <1>2, <1>4, <1>5

\* A media group more is worth 476 in diversity at least.
LEMMA DiversityGrows ==
  ASSUME NEW G \in 1 .. 21, NEW g \in Nat, NEW h \in Nat, h < g, g <= G
  PROVE  /\ (10000 * g) \div G \in Nat /\ (10000 * h) \div G \in Nat
         /\ (10000 * g) \div G <= 10000 /\ (10000 * h) \div G <= 10000
         /\ (10000 * g) \div G >= (10000 * h) \div G + 476 * (g - h)
         /\ (10000 * h) \div G >= 476 * h
<1> DEFINE x == (10000 * g) \div G
           y == (10000 * h) \div G
<1>0. G \in Nat /\ G >= 1 /\ G <= 21 /\ 10000 * g \in Nat /\ 10000 * h \in Nat
  OBVIOUS
<1>1. x \in Nat /\ y \in Nat /\ G * y <= 10000 * h
  BY <1>0, DivMeans
<1>2. x <= 10000 /\ y <= 10000
  <2>1. 10000 * g < G * 10000 + G /\ 10000 * h < G * 10000 + G
    BY <1>0
  <2>. QED
    BY <2>1, <1>0, DivMost
<1>3. \A k \in Nat : G * (476 * k) <= 10000 * k
  <2>1. SUFFICES ASSUME NEW k \in Nat PROVE G * (476 * k) <= 10000 * k
    OBVIOUS
  <2>2. G * (476 * k) = 476 * (G * k)
    BY <1>0
  <2>3. G * k <= 21 * k
    BY <1>0
  <2>. QED
    BY <2>2, <2>3, <1>0
<1>4. y >= 476 * h
  BY <1>0, <1>3, DivLeast
<1>5. x >= y + 476 * (g - h)
  <2> DEFINE d == g - h
  <2>1. d \in Nat
    OBVIOUS
  <2>2. G * (y + 476 * d) = G * y + G * (476 * d)
    BY <1>0, <1>1, <2>1
  <2>3. G * (476 * d) <= 10000 * d
    BY <1>3, <2>1
  <2>4. G * (y + 476 * d) <= 10000 * g
    BY <1>1, <2>2, <2>3, <1>0, <2>1
  <2>5. y + 476 * d \in Int
    BY <1>1, <2>1
  <2> HIDE DEF y, d
  <2>6. y + 476 * d <= (10000 * g) \div G
    BY <2>4, <2>5, <1>0, DivLeast
  <2>. QED
    BY <2>6 DEF d, y
<1>. QED
  BY <1>1, <1>2, <1>4, <1>5

\* An outlet more costs 5000 in follow-ups at most.
LEMMA FollowUpsFall ==
  ASSUME NEW n \in Nat, n >= 3, NEW o \in Nat, NEW p \in Nat, p <= o, o <= n
  PROVE  /\ (10000 * (n - o)) \div (n - 1) \in Nat /\ (10000 * (n - p)) \div (n - 1) \in Nat
         /\ (10000 * (n - p)) \div (n - 1) <= (10000 * (n - o)) \div (n - 1) + 5000 * (o - p)
<1> DEFINE x == (10000 * (n - o)) \div (n - 1)
           d == o - p
           m == n - 1
<1>0. d \in Nat /\ m \in Nat /\ m >= 2 /\ 10000 * (n - o) \in Nat /\ 10000 * (n - p) \in Nat
  OBVIOUS
<1>1. x \in Nat /\ 10000 * (n - o) < m * x + m
  <2> DEFINE k == 10000 * (n - o)
  <2>1. k \in Nat
    BY <1>0
  <2> HIDE DEF k, m
  <2>2. k \div m \in Nat /\ k < m * (k \div m) + m
    BY <2>1, <1>0, DivMeans
  <2>. QED
    BY <2>2 DEF k, m
<1>2. (10000 * (n - p)) \div m \in Nat
  BY <1>0, DivMeans
<1>3. 10000 * (n - p) = 10000 * (n - o) + 10000 * d
  OBVIOUS
<1>4. 10000 * d <= m * (5000 * d)
  <2>1. m * (5000 * d) = 5000 * (m * d)
    BY <1>0
  <2>2. m * d >= 2 * d
    BY <1>0
  <2>. QED
    BY <2>1, <2>2, <1>0
<1>5. m * (x + 5000 * d) = m * x + m * (5000 * d)
  BY <1>0, <1>1
<1>6. 10000 * (n - p) < m * (x + 5000 * d) + m
  <2> HIDE DEF x, d, m
  <2>. QED
    BY <1>0, <1>1, <1>3, <1>4, <1>5
<1>7. (10000 * (n - p)) \div m <= x + 5000 * d
  <2>1. x + 5000 * d \in Int
    BY <1>0, <1>1
  <2> HIDE DEF x, d, m
  <2>. QED
    BY <2>1, <1>0, <1>6, DivMost
<1>. QED
  BY <1>1, <1>2, <1>7

\* The weighted sum grows with the groups, and the score with it.
CapOf(P, o) == IF 9 * P + 16 * o <= 20 * P THEN 9 * P + 16 * o ELSE 20 * P
ScoreOf(P, v, o) == Rounded(v * CapOf(P, o), 17000 * P)

\* One event counts for more than another, over no fewer groups.
OutAhead(P, v, o, w, p) ==
  /\ P \in 1 .. 22 /\ v \in Nat /\ w \in Nat /\ o \in Nat /\ p \in Nat /\ p <= o /\ 1 <= p
  /\ w >= 26180 /\ v >= w + 1180 /\ (o = p => v >= w + 26180)
Outscores(P, v, o, w, p) == ScoreOf(P, v, o) > ScoreOf(P, w, p)

LEMMA ScoreGrows ==
  ASSUME NEW P, NEW v, NEW o, NEW w, NEW p, OutAhead(P, v, o, w, p)
  PROVE  Outscores(P, v, o, w, p)
<1> DEFINE C == CapOf(P, o)
           B == CapOf(P, p)
<1>b. /\ P \in 1 .. 22 /\ v \in Nat /\ w \in Nat /\ o \in Nat /\ p \in Nat /\ p <= o /\ 1 <= p
      /\ w >= 26180 /\ v >= w + 1180 /\ (o = p => v >= w + 26180)
  BY DEF OutAhead
<1>a. /\ C = IF 9 * P + 16 * o <= 20 * P THEN 9 * P + 16 * o ELSE 20 * P
      /\ B = IF 9 * P + 16 * p <= 20 * P THEN 9 * P + 16 * p ELSE 20 * P
  BY DEF CapOf
<1> HIDE DEF C, B
<1>0. /\ P \in Nat /\ P >= 1 /\ P <= 22 /\ C \in Nat /\ B \in Nat /\ B <= C
      /\ v \in Nat /\ w \in Nat /\ o \in Nat /\ p \in Nat /\ p <= o /\ 1 <= p
      /\ w >= 26180 /\ v >= w + 1180 /\ (o = p => v >= w + 26180)
  BY <1>a, <1>b
<1>1. v * C \in Nat /\ w * B \in Nat
  BY <1>0
<1>2. v * C >= w * B + 17000 * P
  <2>1. CASE o = p
    <3>1. C = B /\ C >= 9 * P
      BY <2>1, <1>a, <1>b
    <3>2. v * C >= (w + 26180) * C
      BY <1>0, <2>1
    <3>3. (w + 26180) * C = w * C + 26180 * C
      BY <1>0
    <3>. QED
      BY <3>1, <3>2, <3>3, <1>0
  <2>2. CASE o # p
    <3>1. v * C >= (w + 1180) * C
      BY <1>0
    <3>2. (w + 1180) * C = w * C + 1180 * C
      BY <1>0
    <3> DEFINE d == C - B
    <3>3. d \in Nat /\ w * C = w * B + w * d
      BY <1>0
    <3>4. w * d >= 26180 * d
      BY <3>3, <1>0
    <3>5. 1180 * C + 26180 * d >= 17000 * P
      <4>1. CASE C = 20 * P
        BY <4>1, <1>0, <3>3
      <4>2. CASE C # 20 * P
        <5>1. C = 9 * P + 16 * o /\ B = 9 * P + 16 * p
          BY <4>2, <1>0, <1>a
        <5>2. d >= 16 /\ C >= 9 * P
          BY <5>1, <2>2, <1>b
        <5>. QED
          BY <5>2, <1>0, <3>3
      <4>. QED
        BY <4>1, <4>2
    <3> DEFINE wb == w * B
               wd == w * d
               wc == w * C
               vc == v * C
    <3>6. wb \in Nat /\ wd \in Nat /\ wc \in Nat /\ vc \in Nat
      BY <1>0, <3>3
    <3> HIDE DEF wb, wd, wc, vc, d
    <3>7. vc >= wc + 1180 * C /\ wc = wb + wd
      BY <3>1, <3>2, <3>3, <1>0, <3>6 DEF wb, wd, wc, vc
    <3>8. wd >= 26180 * d
      BY <3>4 DEF wd
    <3>. QED
      BY <3>3, <3>5, <3>6, <3>7, <3>8, <1>0 DEF vc, wb
  <2>. QED
    BY <2>1, <2>2
<1> DEFINE q == 17000 * P
           x == v * C
           y == w * B
           u == 2 * x + q
           t == 2 * y + q
           e == 2 * q
<1>3. q \in Nat /\ e \in Nat /\ e >= 1 /\ u \in Nat /\ t \in Nat /\ u >= t + e
  <2> HIDE DEF q, x, y
  <2>1. q \in Nat /\ q >= 1 /\ x \in Nat /\ y \in Nat /\ x >= y + q
    BY <1>0, <1>1, <1>2 DEF q, x, y
  <2>. QED
    BY <2>1
<1>4. Rounded(v * C, 17000 * P) = u \div e /\ Rounded(w * B, 17000 * P) = t \div e
  BY DEF Rounded, C, B
<1> HIDE DEF u, t, e, q, x, y
<1> DEFINE r == t \div e
<1>5. r \in Nat /\ e * r <= t
  BY <1>3, DivMeans
<1>6. u \div e \in Nat
  BY <1>3, DivMeans
<1> HIDE DEF r
<1>7. e * (r + 1) = e * r + e
  BY <1>3, <1>5
<1>8. e * (r + 1) <= u
  <2> DEFINE k == e * r
  <2>1. k \in Nat
    BY <1>3, <1>5
  <2> HIDE DEF k
  <2>2. k + e <= u
    BY <2>1, <1>3, <1>5 DEF k
  <2>. QED
    BY <2>2, <1>7 DEF k
<1>9. r + 1 <= u \div e
  BY <1>3, <1>5, <1>8, DivLeast
<1>. QED
  BY <1>4, <1>5, <1>6, <1>9 DEF r, C, B, ScoreOf, Outscores

\* An event has as many articles as its sequence is long, and its outlets are among them.
LEMMA EventCounts ==
  ASSUME EventsFormed, NEW c \in DOMAIN clusters
  PROVE  /\ IsFiniteSet(Members(c)) /\ Cardinality(Members(c)) = Size(c) /\ Size(c) \in Nat /\ Size(c) >= 1
         /\ Size(c) \in DOMAIN Log1p
         /\ Cardinality(Outlets(c)) \in Nat /\ Cardinality(Outlets(c)) >= 1 /\ Cardinality(Outlets(c)) <= Size(c)
         /\ Cardinality(Groups(c)) \in Nat /\ Cardinality(Groups(c)) >= 1
<1> DEFINE f == [i \in DOMAIN clusters[c] |-> clusters[c][i]]
           S == DOMAIN clusters[c]
           M == Members(c)
<1>1. /\ IsFiniteSet(S) /\ S = 1 .. Size(c) /\ Size(c) \in Nat /\ M \subseteq 1 .. placed
      /\ 1 .. placed \subseteq DOMAIN corpus
  BY MembersPlaced DEF Size
<1>2. Size(c) >= 1
  BY DEF EventsFormed, Size
<1>3. \A i, j \in S : clusters[c][i] = clusters[c][j] => i = j
  BY DEF EventsFormed
<1>4. f \in Surjection(S, M)
  BY DEF Members, Surjection
<1>5. f \in Injection(S, M)
  <2>1. f \in [S -> M]
    BY DEF Members
  <2>2. \A i, j \in S : f[i] = f[j] => i = j
    BY <1>3
  <2> HIDE DEF f, S, M
  <2>. QED
    BY <2>1, <2>2 DEF Injection, IsInjective
<1>6. Cardinality(S) = Size(c)
  BY <1>1, FS_Interval
<1>7. IsFiniteSet(M) /\ Cardinality(M) = Size(c)
  <2> HIDE DEF f, S, M
  <2>. QED
    BY <1>1, <1>4, <1>5, <1>6, FS_Surjection
<1>8. Size(c) \in DOMAIN Log1p
  <2>1. placed \in Nat /\ Len(corpus) \in Nat /\ placed <= Len(corpus) /\ DOMAIN corpus = 1 .. Len(corpus)
        /\ DOMAIN corpus \subseteq DOMAIN Log1p
    BY DEF EventsFormed, CorpusRead
  <2>2. IsFiniteSet(1 .. placed) /\ Cardinality(1 .. placed) = placed
    BY <2>1, FS_Interval
  <2>3. Cardinality(M) <= placed
    BY <1>1, <2>2, FS_Subset
  <2>. QED
    BY <1>1, <1>2, <1>7, <2>1, <2>3
<1> DEFINE out == [a \in DOMAIN corpus |-> corpus[a].outlet]
           grp == [o \in Outlets(c) |-> PanelGroup[o]]
<1>9. Outlets(c) = {out[a] : a \in M}
  BY <1>1 DEF Outlets
<1>10. IsFiniteSet(Outlets(c)) /\ Cardinality(Outlets(c)) <= Size(c)
  <2> HIDE DEF out, M
  <2>. QED
    BY <1>7, <1>9, ImageOf
<1>11. Groups(c) = {grp[o] : o \in Outlets(c)}
  BY DEF Groups
<1>12. IsFiniteSet(Groups(c))
  <2> HIDE DEF grp
  <2>. QED
    BY <1>10, <1>11, ImageOf
<1>13. M # {}
  BY MembersPlaced
<1>14. Outlets(c) # {} /\ Groups(c) # {}
  <2>1. PICK a \in M : TRUE
    BY <1>13
  <2>2. corpus[a].outlet \in Outlets(c)
    BY DEF Outlets
  <2>3. PanelGroup[corpus[a].outlet] \in Groups(c)
    BY <2>2 DEF Groups
  <2>. QED
    BY <2>2, <2>3
<1>15. Cardinality(Outlets(c)) \in Nat /\ Cardinality(Outlets(c)) >= 1 /\ Cardinality(Groups(c)) \in Nat /\ Cardinality(Groups(c)) >= 1
  BY <1>10, <1>12, <1>14, TwoOf
<1>. QED
  BY <1>1, <1>2, <1>7, <1>8, <1>10, <1>15

\* Events of one size have one volume.
LEMMA VolumeSame ==
  ASSUME EventsFormed, NEW c \in DOMAIN clusters, NEW e \in DOMAIN clusters, Size(c) = Size(e)
  PROVE  Volume(c) \in Nat /\ Volume(c) = Volume(e)
<1> DEFINE S == {Size(f) : f \in DOMAIN clusters}
           top == Max(S)
           size == [f \in DOMAIN clusters |-> Size(f)]
<1>1. S \subseteq DOMAIN Log1p /\ S \in SUBSET Nat /\ S # {}
  BY EventCounts
<1>2. IsFiniteSet(S)
  <2>1. S = {size[f] : f \in DOMAIN clusters} /\ IsFiniteSet(DOMAIN clusters)
    BY MembersPlaced
  <2> HIDE DEF S, size
  <2>. QED
    BY <2>1, ImageOf
<1>3. top \in S
  <2> HIDE DEF S
  <2>1. PICK x \in S : \A y \in S : y <= x
    BY <1>1, <1>2, EndsOf
  <2>2. x \in S /\ \A y \in S : x >= y
    BY <2>1, <1>1
  <2>. QED
    BY <2>2 DEF Max
<1> HIDE DEF top
<1>4. Log1p[top] \in Nat \ {0} /\ Log1p[Size(c)] \in Nat \ {0}
  BY <1>1, <1>3, EventsAssumption, EventCounts
<1>5. Volume(c) = (10000 * Log1p[Size(c)]) \div Log1p[top] /\ Volume(e) = (10000 * Log1p[Size(e)]) \div Log1p[top]
  BY DEF Volume, top
<1> DEFINE k == 10000 * Log1p[Size(c)]
           d == Log1p[top]
<1>6. k \in Nat /\ d \in Nat /\ d >= 1
  BY <1>4
<1>7. Volume(c) = k \div d
  BY <1>5
<1> HIDE DEF k, d
<1>8. k \div d \in Nat
  BY <1>6, DivMeans
<1>. QED
  BY <1>5, <1>7, <1>8

\* The event that is reported more widely has the higher score.
LEMMA WiderScores ==
  ASSUME EventsFormed, NEW c \in DOMAIN clusters, NEW e \in DOMAIN clusters,
         WiderThan(IssueOf(c), IssueOf(e)), Cardinality(IssueOf(c).members) >= 3
  PROVE  Score(c) > Score(e)
<1> DEFINE n == Size(c)
           g == Cardinality(Groups(c))
           h == Cardinality(Groups(e))
           o == Cardinality(Outlets(c))
           p == Cardinality(Outlets(e))
           dx == (10000 * g) \div PanelGroups
           dy == (10000 * h) \div PanelGroups
           fx == (10000 * (n - o)) \div (n - 1)
           fy == (10000 * (n - p)) \div (n - 1)
           vol == Volume(c)
           v == 55 * dx + 25 * vol + 5 * fx
           w == 55 * dy + 25 * vol + 5 * fy
           C == CapOf(PanelOutlets, o)
           B == CapOf(PanelOutlets, p)
<1>1. /\ IssueOf(c).members = Members(c) /\ IssueOf(e).members = Members(e)
      /\ IssueOf(c).groups = g /\ IssueOf(e).groups = h
      /\ IssueOf(c).outlets = o /\ IssueOf(e).outlets = p
      /\ (IssueOf(c).observed <=> Observed(c) # {}) /\ (IssueOf(e).observed <=> Observed(e) # {})
  BY DEF IssueOf
<1>2. n \in Nat /\ n = Size(e) /\ n >= 3 /\ h < g /\ g <= PanelGroups /\ p <= o /\ o - p <= g - h
      /\ Observed(c) = {} /\ Observed(e) = {}
  BY <1>1, EventCounts DEF WiderThan
<1>3. g \in Nat /\ h \in Nat /\ h >= 1 /\ o \in Nat /\ p \in Nat /\ p >= 1 /\ o <= n /\ PanelGroups \in 1 .. 21 /\ PanelOutlets \in 1 .. 22
  BY <1>2, EventCounts, EventsAssumption
<1>4. vol \in Nat /\ vol = Volume(e)
  BY <1>2, VolumeSame
<1>5. Diversity(c) = dx /\ Diversity(e) = dy /\ dx \in Nat /\ dy \in Nat /\ dx >= dy + 476 * (g - h) /\ dy >= 476 * h
  <2>1. dx \in Nat /\ dy \in Nat /\ dx <= 10000 /\ dy <= 10000 /\ dx >= dy + 476 * (g - h) /\ dy >= 476 * h
    <3> HIDE DEF g, h
    <3>. QED
      BY <1>2, <1>3, DiversityGrows
  <2>2. Diversity(c) = (IF dx > 10000 THEN 10000 ELSE dx) /\ Diversity(e) = (IF dy > 10000 THEN 10000 ELSE dy)
    BY DEF Diversity
  <2> HIDE DEF dx, dy
  <2>. QED
    BY <2>1, <2>2
<1>6. FollowUps(c) = fx /\ FollowUps(e) = fy /\ fx \in Nat /\ fy \in Nat /\ fy <= fx + 5000 * (o - p)
  <2>1. fx \in Nat /\ fy \in Nat /\ fy <= fx + 5000 * (o - p)
    <3> HIDE DEF n, o, p
    <3>1. n \in Nat /\ n >= 3 /\ o \in Nat /\ p \in Nat /\ p <= o /\ o <= n
      BY <1>2, <1>3
    <3>. QED
      BY ONLY <3>1, FollowUpsFall
  <2>2. FollowUps(c) = fx /\ FollowUps(e) = fy
    BY <1>2 DEF FollowUps
  <2>. QED
    BY <2>1, <2>2
<1>7. Weighted(c) = v /\ Weighted(e) = w
  BY <1>4, <1>5, <1>6 DEF Weighted
<1>8. Coverage(c) = C /\ Coverage(e) = B
  <2>1. \A i, j \in Nat : Min({i, j}) = IF i <= j THEN i ELSE j
    <3>1. SUFFICES ASSUME NEW i \in Nat, NEW j \in Nat PROVE Min({i, j}) = IF i <= j THEN i ELSE j
      OBVIOUS
    <3> DEFINE m == IF i <= j THEN i ELSE j
    <3>2. m \in {i, j} /\ (\A y \in {i, j} : m <= y) /\ \A x \in {i, j} : (\A y \in {i, j} : x <= y) => x = m
      OBVIOUS
    <3> HIDE DEF m
    <3>3. Min({i, j}) = m
      BY <3>2 DEF Min
    <3>. QED
      BY <3>3 DEF m
  <2>2. 9 * PanelOutlets + 16 * o \in Nat /\ 9 * PanelOutlets + 16 * p \in Nat /\ 20 * PanelOutlets \in Nat
    BY <1>3
  <2>. QED
    BY <2>1, <2>2 DEF Coverage, CapOf
<1>9. Score(c) = Rounded(v * C, 17000 * PanelOutlets) /\ Score(e) = Rounded(w * B, 17000 * PanelOutlets)
  <2>1. 200 * 85 * PanelOutlets = 17000 * PanelOutlets
    BY <1>3
  <2> HIDE DEF v, w, C, B
  <2>. QED
    BY <2>1, <1>2, <1>7, <1>8 DEF Score
<1> HIDE DEF n, g, h, o, p, dx, dy, fx, fy, vol
<1>10. v \in Nat /\ w \in Nat /\ w >= 26180 /\ v >= w + 1180 /\ (o = p => v >= w + 26180)
  BY <1>2, <1>3, <1>4, <1>5, <1>6
<1> HIDE DEF v, w
<1>11. PanelOutlets \in 1 .. 22 /\ o \in Nat /\ p \in Nat /\ p <= o /\ 1 <= p
  BY <1>2, <1>3
<1>12. ScoreOf(PanelOutlets, v, o) > ScoreOf(PanelOutlets, w, p)
  <2> HIDE DEF C, B
  <2>1. OutAhead(PanelOutlets, v, o, w, p)
    BY ONLY <1>10, <1>11 DEF OutAhead
  <2>2. Outscores(PanelOutlets, v, o, w, p)
    BY ONLY <2>1, ScoreGrows
  <2>. QED
    BY ONLY <2>2 DEF Outscores
<1>. QED
  BY <1>9, <1>12 DEF ScoreOf

\* So it leads, whatever the ranks that follow say.
LEMMA WiderLeads ==
  ASSUME EventsFormed, NEW c \in DOMAIN clusters, NEW e \in DOMAIN clusters,
         WiderThan(IssueOf(c), IssueOf(e)), Cardinality(IssueOf(c).members) >= 3
  PROVE  Ahead(IssueOf(c), IssueOf(e))
<1> DEFINE x == IssueOf(c)
           y == IssueOf(e)
<1>1. x.score > y.score
  BY WiderScores DEF IssueOf
<1>2. x.secondary = y.secondary
  BY DEF WiderThan
<1> HIDE DEF x, y
<1>3. Ranks(x)[2] = x.score /\ Ranks(y)[2] = y.score /\ Ranks(x)[1] = Ranks(y)[1]
  BY <1>2 DEF Ranks
<1>4. \A j \in 1 .. 2 - 1 : Ranks(x)[j] = Ranks(y)[j]
  BY <1>3
<1>5. Ranks(x)[2] > Ranks(y)[2] /\ 2 \in 1 .. 6
  BY <1>1, <1>3
<1>6. Ahead(x, y)
  BY <1>4, <1>5 DEF Ahead
<1>. QED
  BY <1>6 DEF x, y

\* While articles, events and index stay, so does what holds of them.
LEMMA EventsStay ==
  ASSUME corpus' = corpus, placed' = placed, clusters' = clusters, bucket' = bucket,
         EventsFormed, EventsIndexed, EventsClean, EventsWhole
  PROVE  EventsFormed' /\ EventsIndexed' /\ EventsClean' /\ EventsWhole'
<1>1. \A c : Members(c)' = Members(c)
  BY DEF Members
<1>2. \A t : Entry(t)' = Entry(t)
  BY DEF Entry
<1>3. (\A a : Index(a)' = Index(a)) /\ (\A a, b : SameEvent(a, b)' <=> SameEvent(a, b))
      /\ (\A a, b : EventsApart(a, b)' <=> EventsApart(a, b)) /\ (\A a, b : Banned(a, b)' <=> Banned(a, b))
      /\ (\A a, b : SameWording(a, b)' <=> SameWording(a, b))
  BY CorpusKept
<1>4. EventsFormed'
  <2>1. (UNION {Members(c) : c \in DOMAIN clusters})' = UNION {Members(c) : c \in DOMAIN clusters}
    BY <1>1
  <2>2. CorpusRead(corpus)'
    BY DEF EventsFormed, CorpusRead
  <2>. QED
    BY <1>1, <2>1, <2>2 DEF EventsFormed
<1>5. EventsIndexed'
  BY <1>1, <1>2, <1>3 DEF EventsIndexed
<1>6. \A a, b : CleanPair(a, b)' <=> CleanPair(a, b)
  <2> SUFFICES ASSUME NEW a, NEW b PROVE CleanPair(a, b)' <=> CleanPair(a, b)
    OBVIOUS
  <2>1. corpus[a]' = corpus[a] /\ corpus[b]' = corpus[b]
    OBVIOUS
  <2>2. Disjoint(corpus[a].actors, corpus[b].actors)' <=> Disjoint(corpus[a].actors, corpus[b].actors)
    BY DEF Disjoint
  <2>. QED
    BY <2>2, <1>3, Zenon DEF CleanPair
<1>7. EventsClean'
  <2>1. \A c \in DOMAIN clusters : \A a, b \in Members(c) : CleanPair(a, b)
    BY DEF EventsClean, CleanPair
  <2>2. \A c \in DOMAIN clusters' : \A a, b \in Members(c)' : CleanPair(a, b)'
    BY <2>1, <1>1, <1>6
  <2>. QED
    BY <2>2 DEF EventsClean, CleanPair
<1>8. EventsWhole'
  <2>1. \A c \in DOMAIN clusters : \A e \in c + 1 .. Len(clusters) : \A b : b = clusters[e][1] /\
          (\A m \in Members(c) : SameEvent(b, m)) =>
            \A t \in Index(b) : (\E m \in Members(c) : m < b /\ t \in Index(m)) => Cardinality(Entry(t)) = BucketCap
    BY DEF EventsWhole
  <2>2. \A c \in DOMAIN clusters' : \A e \in c + 1 .. Len(clusters') : \A b : b = clusters'[e][1] /\
          (\A m \in Members(c)' : SameEvent(b, m)') =>
            \A t \in Index(b)' : (\E m \in Members(c)' : m < b /\ t \in Index(m)') => Cardinality(Entry(t)') = BucketCap
    BY <2>1, <1>1, <1>2, <1>3
  <2>3. \A c \in DOMAIN clusters' : \A e \in c + 1 .. Len(clusters') :
          (\A m \in Members(c)' : SameEvent(clusters[e][1], m)') =>
            \A t \in Index(clusters[e][1])' : (\E m \in Members(c)' : m < clusters'[e][1] /\ t \in Index(m)') => Cardinality(Entry(t)') = BucketCap
    BY <2>2
  <2>. QED
    BY <2>3 DEF EventsWhole
<1>. QED
  BY <1>4, <1>5, <1>7, <1>8

LEMMA EventsInvStep == EventsInv /\ [EventsNext]_eventVars => EventsInv'
<1> SUFFICES ASSUME EventsInv, [EventsNext]_eventVars PROVE EventsInv'
  OBVIOUS
<1>0. EventsFormed /\ EventsIndexed /\ EventsClean /\ EventsWhole /\ EventsListed /\ CoverageLeads
  BY DEF EventsInv
<1>1. CASE ReadCorpus
  <2>1. corpus = << >> /\ corpus' \in Corpora /\ placed' = placed /\ clusters' = clusters /\ bucket' = bucket /\ issues' = issues
    BY <1>1 DEF ReadCorpus
  <2>2. placed = 0 /\ clusters \in Seq(Seq(Nat)) /\ Len(clusters) \in Nat /\ Len(clusters) <= 0
    BY <2>1, <1>0 DEF EventsFormed
  <2>3. DOMAIN clusters = {}
    BY <2>2
  <2>4. issues = << >>
    BY <2>1, <1>0 DEF EventsListed
  <2>5. CorpusRead(corpus') /\ Len(corpus') \in Nat
    BY <2>1, EventsAssumption DEF CorpusRead
  <2>6. (UNION {Members(c) : c \in DOMAIN clusters})' = 1 .. placed
    BY <2>1, <2>2, <2>3
  <2>7. CorpusRead(corpus)'
    BY <2>5 DEF CorpusRead
  <2>8. EventsFormed'
    BY <2>1, <2>2, <2>3, <2>5, <2>6, <2>7 DEF EventsFormed
  <2>9. EventsIndexed'
    BY <2>1, <2>3, <1>0 DEF EventsIndexed
  <2>10. EventsClean' /\ EventsWhole'
    BY <2>1, <2>3 DEF EventsClean, EventsWhole
  <2>11. EventsListed' /\ CoverageLeads'
    BY <2>1, <2>4 DEF EventsListed, CoverageLeads
  <2>. QED
    BY <2>8, <2>9, <2>10, <2>11 DEF EventsInv
<1>2. CASE PlaceArticle
  <2>1. PICK c \in (IF Homes(placed + 1) = {} THEN {Len(clusters) + 1} ELSE Homes(placed + 1)) : Join(placed + 1, c)
    BY <1>2, Zenon DEF PlaceArticle
  <2>2. placed < Len(corpus) /\ placed' = placed + 1 /\ corpus' = corpus /\ issues' = issues
    BY <1>2 DEF PlaceArticle
  <2>3. c \in Homes(placed + 1) \/ c = Len(clusters) + 1
    BY <2>1
  <2>4. c \in DOMAIN clusters \/ c = Len(clusters) + 1
    BY <2>3, HomesFit
  <2>5. EventsFormed' /\ EventsIndexed'
    BY <2>1, <2>2, <2>4, <1>0, JoinFormed, JoinIndexed
  <2>6. EventsClean'
    BY <2>1, <2>2, <2>3, <1>0, JoinClean
  <2>7. EventsWhole'
    BY <2>1, <2>2, <1>0, JoinWhole
  <2>8. issues = << >>
    <3>1. placed \in Nat /\ Len(corpus) \in Nat
      BY <1>0 DEF EventsFormed, CorpusRead
    <3>. QED
      BY <3>1, <2>2, <1>0 DEF EventsListed
  <2>9. EventsListed' /\ CoverageLeads'
    BY <2>2, <2>8 DEF EventsListed, CoverageLeads
  <2>. QED
    BY <2>5, <2>6, <2>7, <2>9 DEF EventsInv
<1>3. CASE Rank
  <2>1. corpus # << >> /\ placed = Len(corpus) /\ issues' = [c \in DOMAIN clusters |-> IssueOf(c)]
        /\ corpus' = corpus /\ placed' = placed /\ clusters' = clusters /\ bucket' = bucket
    BY <1>3 DEF Rank
  <2>2. EventsListed'
    BY <2>1 DEF EventsListed
  <2>3. ASSUME NEW c \in DOMAIN issues', NEW e \in DOMAIN issues', WiderThan(issues'[c], issues'[e]), Cardinality(issues'[c].members) >= 3
        PROVE  Ahead(issues'[c], issues'[e])
    <3>1. c \in DOMAIN clusters /\ e \in DOMAIN clusters /\ issues'[c] = IssueOf(c) /\ issues'[e] = IssueOf(e)
      BY <2>1
    <3>. QED
      BY <3>1, <2>3, <1>0, WiderLeads
  <2>4. CoverageLeads'
    <3>1. \A x, y : (WiderThan(x, y)' <=> WiderThan(x, y)) /\ (Ahead(x, y)' <=> Ahead(x, y))
      OBVIOUS
    <3>. QED
      BY <2>3, <3>1 DEF CoverageLeads
  <2>5. EventsFormed' /\ EventsIndexed' /\ EventsClean' /\ EventsWhole'
    BY <2>1, <1>0, EventsStay
  <2>. QED
    BY <2>2, <2>4, <2>5 DEF EventsInv
<1>4. CASE UNCHANGED eventVars
  <2>1. corpus' = corpus /\ placed' = placed /\ clusters' = clusters /\ bucket' = bucket /\ issues' = issues
    BY <1>4 DEF eventVars
  <2>2. EventsFormed' /\ EventsIndexed' /\ EventsClean' /\ EventsWhole'
    BY <2>1, <1>0, EventsStay
  <2>3. EventsListed' /\ CoverageLeads'
    BY <2>1, <1>0 DEF EventsListed, CoverageLeads
  <2>. QED
    BY <2>2, <2>3 DEF EventsInv
<1>. QED
  BY <1>1, <1>2, <1>3, <1>4 DEF EventsNext

LEMMA EventsHold == EventsSpec => []EventsInv
BY EventsInvInit, EventsInvStep, PTL DEF EventsSpec

LEMMA EventsTyped == EventsInv => EventsTypeOK
<1> SUFFICES ASSUME EventsInv PROVE EventsTypeOK
  OBVIOUS
<1>1. EventsFormed /\ EventsIndexed /\ EventsListed
  BY DEF EventsInv
<1>2. DOMAIN issues \in {{}, DOMAIN clusters}
  BY <1>1 DEF EventsListed
<1>. QED
  BY <1>1, <1>2 DEF EventsTypeOK, EventsFormed, EventsIndexed

\* What the engine makes of a day's articles: events that partition the placed ones, an
\* index of small entries, and a ranking of all events or none.
THEOREM EventTypesHold == EventsSpec => []EventsTypeOK
BY EventsTyped, EventsHold, PTL

\* Events of any day hold together, are not reported twice where the index can tell, and
\* the more widely reported of two leads, whatever the day's articles, the panel of at
\* most 22 outlets, and the caps.
THEOREM EventsAreSound == EventsSpec => []EventsSound
<1>1. EventsInv => EventsSound
  BY DEF EventsInv, EventsSound
<1>. QED
  BY <1>1, EventsHold, PTL

----------------------------------------------------------------------------
(* ArticleProfile: what the rules make of an article *)

LEMMA FirstFound ==
  ASSUME NEW S \in SUBSET Nat, IsFiniteSet(S), S # {}, NEW k \in Nat, k >= 1
  PROVE  /\ FirstSentence(S) \in S
         /\ FirstOf(S, k) # {} /\ FirstOf(S, k) \subseteq S /\ Cardinality(FirstOf(S, k)) <= Cardinality(S)
<1>1. PICK x \in S : \A y \in S : x <= y
  BY EndsOf
<1>2. FirstSentence(S) \in S
  BY <1>1 DEF FirstSentence
<1>3. {m \in S : m < x} = {}
  <2>1. SUFFICES ASSUME NEW m \in S, m < x PROVE FALSE
    OBVIOUS
  <2>2. m \in Nat /\ x \in Nat /\ x <= m
    BY <1>1
  <2>. QED
    BY <2>1, <2>2
<1>4. Cardinality({m \in S : m < x}) = 0
  BY <1>3, FS_EmptySet
<1>5. x \in FirstOf(S, k)
  BY <1>4 DEF FirstOf
<1>6. FirstOf(S, k) \subseteq S
  BY DEF FirstOf
<1>7. Cardinality(FirstOf(S, k)) <= Cardinality(S)
  BY <1>6, FS_Subset
<1>. QED
  BY <1>2, <1>5, <1>6, <1>7

\* Sentences of one kind and the others make up all.
LEMMA HalvesOf ==
  ASSUME NEW S, IsFiniteSet(S), NEW T, NEW U, T \cup U = S, T \cap U = {}
  PROVE  Cardinality(T) + Cardinality(U) = Cardinality(S) /\ (S # {} => Cardinality(U) + Cardinality(T) > 0)
<1>1. IsFiniteSet(T) /\ IsFiniteSet(U)
  BY FS_Subset
<1>2. Cardinality(T \cup U) = Cardinality(T) + Cardinality(U) - Cardinality(T \cap U)
  BY <1>1, FS_Union
<1>3. Cardinality(T \cap U) = 0
  BY FS_EmptySet
<1>4. Cardinality(T) \in Nat /\ Cardinality(U) \in Nat /\ Cardinality(S) \in Nat
  BY <1>1, FS_CardinalityType
<1>5. S # {} => Cardinality(S) >= 1
  BY TwoOf
<1>. QED
  BY <1>2, <1>3, <1>4, <1>5

\* What is held of an article that was read: its tokens, and the sentences they make
TextHeld ==
  /\ Len(text.body) \in Nat /\ DOMAIN text.body = 1 .. Len(text.body)
  /\ text.sentences = Segmented(text.body)

\* The tokens of an article are finitely many.
LEMMA TokensFinite ==
  ASSUME TextHeld
  PROVE  Len(text.body) \in Nat /\ IsFiniteSet(1 .. Len(text.body))
<1>1. Len(text.body) \in Nat
  BY DEF TextHeld
<1>2. \A n \in Nat : IsFiniteSet(1 .. n)
  BY FS_Interval
<1>. QED
  BY <1>1, <1>2

LEMMA SentencesOf ==
  ASSUME TextHeld
  PROVE  /\ Sentences \in SUBSET Nat /\ IsFiniteSet(Sentences) /\ Sentences \subseteq SentenceEnds(text.body)
         /\ SentenceEnds(text.body) \subseteq DOMAIN text.body
         /\ \A n \in Sentences : Piece(n) =
              {i \in DOMAIN text.body : i <= n /\ \A e \in SentenceEnds(text.body) : e < n => e < i}
         /\ \A T \in SUBSET Sentences : T \in SUBSET Nat /\ IsFiniteSet(T)
<1>1. Sentences \subseteq SentenceEnds(text.body)
  BY DEF TextHeld, Sentences, Segmented
<1>2. SentenceEnds(text.body) \subseteq DOMAIN text.body
  BY DEF SentenceEnds
<1>3. \A n \in Sentences : Piece(n) =
        {i \in DOMAIN text.body : i <= n /\ \A e \in SentenceEnds(text.body) : e < n => e < i}
  BY DEF TextHeld, Sentences, Segmented, Piece
<1>4. Sentences \subseteq 1 .. Len(text.body) /\ Len(text.body) \in Nat
  BY <1>1, <1>2 DEF TextHeld
<1>5. IsFiniteSet(Sentences) /\ Sentences \in SUBSET Nat
  <2>1. IsFiniteSet(1 .. Len(text.body))
    BY TokensFinite
  <2>2. Sentences \in SUBSET Nat
    BY <1>4
  <2>. QED
    BY <1>4, <2>1, <2>2, FS_Subset
<1>. QED
  BY <1>1, <1>2, <1>3, <1>5, FS_Subset

\* A quotation that no end of a sentence cuts is found in the sentence of what it holds.
LEMMA UncutFound ==
  ASSUME TextHeld, NEW n \in Sentences, NEW i \in Piece(n), NEW q \in UncutQuotations, q[1] < i, i < q[2]
  PROVE  Quoted(n, i)
<1> DEFINE ends == SentenceEnds(text.body)
<1>1. /\ q[1] \in DOMAIN text.body /\ q[2] \in DOMAIN text.body
      /\ Here(q[1], "open") /\ Here(q[2], "close")
      /\ \A j \in DOMAIN text.body : q[1] < j /\ j < q[2] => ~Here(j, "close")
      /\ \A e \in ends : ~(q[1] <= e /\ e < q[2])
  BY DEF UncutQuotations, Quotations
<1>2. /\ Piece(n) = {j \in DOMAIN text.body : j <= n /\ \A e \in ends : e < n => e < j}
      /\ n \in ends /\ ends \subseteq DOMAIN text.body
  BY SentencesOf
<1>3. DOMAIN text.body \subseteq Nat
  BY DEF TextHeld
<1> HIDE DEF ends
<1>4. i \in Nat /\ n \in Nat /\ q[1] \in Nat /\ q[2] \in Nat /\ i <= n /\ \A e \in ends : e \in Nat /\ (e < n => e < i)
  BY <1>1, <1>2, <1>3
<1>5. q[1] \in Piece(n)
  <2>1. ASSUME NEW e \in ends, e < n PROVE e < q[1]
    BY <2>1, <1>1, <1>4
  <2>. QED
    BY <2>1, <1>1, <1>2, <1>4
<1>6. q[2] \in Piece(n)
  <2>1. q[2] <= n
    BY <1>1, <1>2, <1>4
  <2>2. ASSUME NEW e \in ends, e < n PROVE e < q[2]
    BY <2>2, <1>4
  <2>. QED
    BY <2>1, <2>2, <1>1, <1>2
<1>7. \A j \in Piece(n) : q[1] < j /\ j < q[2] => ~Here(j, "close")
  BY <1>1, <1>2
<1>. QED
  BY <1>1, <1>5, <1>6, <1>7, Zenon DEF Quoted

\* A claim is taken from a sentence that makes it, in the scope it is taken in.
LEMMA ItemFound ==
  ASSUME TextHeld, NEW rule, NEW scope, Matching(rule, scope) # {}
  PROVE  LET n == FrameItem(rule, scope).at
         IN  /\ n \in Sentences /\ Bearers(n, rule) # {} /\ Scope(n, rule) = scope
             /\ FrameItem(rule, scope).rule = rule /\ FrameItem(rule, scope).kind = Voice(n, rule)
             /\ FrameItem(rule, scope).speaker
                  = IF Voice(n, rule) = "journalist_narration" THEN NoSpeaker ELSE SpeakerOf(n)
<1> DEFINE n == FirstSentence(Matching(rule, scope))
<1>1. Matching(rule, scope) \in SUBSET Sentences
  BY DEF Matching
<1>2. n \in Matching(rule, scope)
  BY <1>1, SentencesOf, FirstFound
<1>3. n \in Sentences /\ Bearers(n, rule) # {} /\ Scope(n, rule) = scope
  BY <1>2 DEF Matching
<1>4. /\ FrameItem(rule, scope).at = n /\ FrameItem(rule, scope).rule = rule
      /\ FrameItem(rule, scope).kind = Voice(n, rule)
      /\ FrameItem(rule, scope).speaker
           = IF Voice(n, rule) = "journalist_narration" THEN NoSpeaker ELSE SpeakerOf(n)
  BY DEF FrameItem
<1> HIDE DEF n
<1>. QED
  BY <1>3, <1>4

LEMMA ItemsOf ==
  ASSUME NEW d, NEW i
  PROVE  i \in FrameItems(d) <=> \E rule \in DimensionRules[d], scope \in {"narration", "source"} :
           Matching(rule, scope) # {} /\ i = FrameItem(rule, scope)
<1>1. ASSUME i \in FrameItems(d)
      PROVE  \E rule \in DimensionRules[d], scope \in {"narration", "source"} : Matching(rule, scope) # {} /\ i = FrameItem(rule, scope)
  <2>1. PICK p \in {q \in DimensionRules[d] \X {"narration", "source"} : Matching(q[1], q[2]) # {}} : i = FrameItem(p[1], p[2])
    BY <1>1, Zenon DEF FrameItems
  <2>2. p[1] \in DimensionRules[d] /\ p[2] \in {"narration", "source"} /\ Matching(p[1], p[2]) # {}
    BY <2>1
  <2>. QED
    BY <2>1, <2>2
<1>2. ASSUME NEW rule \in DimensionRules[d], NEW scope \in {"narration", "source"}, Matching(rule, scope) # {}, i = FrameItem(rule, scope)
      PROVE  i \in FrameItems(d)
  <2> DEFINE p == <<rule, scope>>
  <2>1. p \in {q \in DimensionRules[d] \X {"narration", "source"} : Matching(q[1], q[2]) # {}} /\ p[1] = rule /\ p[2] = scope
    BY <1>2
  <2> HIDE DEF p
  <2>2. i = FrameItem(p[1], p[2])
    BY <1>2, <2>1
  <2>. QED
    BY <2>1, <2>2, Zenon DEF FrameItems
<1>. QED
  BY <1>1, <1>2

\* A sentence that matches a rule is found in its scope, which its voice tells.
LEMMA VoiceTells ==
  ASSUME NEW s, NEW rule
  PROVE  /\ Scope(s, rule) \in {"narration", "source"}
         /\ Voice(s, rule) = "journalist_narration" <=> Scope(s, rule) = "narration"
         /\ Voice(s, rule) = "journalist_narration" <=> ~InQuotation(s, rule) /\ ~Attributes(s)
         /\ Voice(s, rule) = "indirect_source" => Attributes(s)
BY DEF Scope, Voice

\* A dimension is the outlet's own by words that are in no quotation it could find.
LEMMA OwnWords ==
  ASSUME TextHeld, NEW d, DimensionStatus(FrameItems(d)) = "observed"
  PROVE  \E n \in Sentences : ~Attributes(n) /\ \E i \in Piece(n) :
           /\ text.body[i].rules \cap DimensionRules[d] # {}
           /\ \A q \in UncutQuotations : ~(q[1] < i /\ i < q[2])
<1>1. PICK c \in FrameItems(d) : c.kind = "journalist_narration"
  BY DEF DimensionStatus
<1>2. PICK rule \in DimensionRules[d], scope \in {"narration", "source"} :
        Matching(rule, scope) # {} /\ c = FrameItem(rule, scope)
  BY ItemsOf
<1> DEFINE n == c.at
           bearers == Bearers(n, rule)
           i == FirstSentence(bearers)
<1>3. n \in Sentences /\ bearers # {} /\ c.kind = Voice(n, rule)
  BY <1>2, ItemFound
<1>4. ~InQuotation(n, rule) /\ ~Attributes(n)
  BY <1>1, <1>3, VoiceTells
<1>5. i \in Piece(n) /\ rule \in text.body[i].rules
  <2>1. bearers \subseteq Piece(n) /\ \A j \in bearers : rule \in text.body[j].rules
    BY DEF Bearers
  <2>2. Piece(n) \subseteq 1 .. Len(text.body)
    BY <1>3, SentencesOf DEF TextHeld
  <2> HIDE DEF bearers, n
  <2>3. bearers \in SUBSET Nat /\ IsFiniteSet(bearers)
    <3>1. Len(text.body) \in Nat /\ IsFiniteSet(1 .. Len(text.body))
      BY TokensFinite
    <3>. QED
      BY <2>1, <2>2, <3>1, FS_Subset
  <2>4. FirstSentence(bearers) \in bearers
    <3>1. 1 \in Nat /\ 1 >= 1
      OBVIOUS
    <3>. QED
      BY <2>3, <1>3, <3>1, FirstFound
  <2>. QED
    BY <2>1, <2>4
<1>6. ~Quoted(n, i)
  BY <1>4 DEF InQuotation
<1> HIDE DEF n, i, bearers
<1>7. \A q \in UncutQuotations : ~(q[1] < i /\ i < q[2])
  BY <1>3, <1>5, <1>6, UncutFound
<1>8. text.body[i].rules \cap DimensionRules[d] # {}
  BY <1>5
<1>. QED
  BY <1>3, <1>4, <1>5, <1>7, <1>8

\* Whoever is said to hold a view is among the sources, with sentences of his own.
LEMMA SourceFound ==
  ASSUME TextHeld, NEW n \in Sentences, Attributes(n)
  PROVE  \E a \in SourceProfile : a.name = SpeakerOf(n) /\ a.evidence # {} /\ a.indirect + a.direct > 0
<1> DEFINE name == SpeakerOf(n)
           M == Mentions(name)
           a == [name |-> name, role |-> RoleOf(name),
                 direct |-> Cardinality({m \in M : Quotes(m)}),
                 indirect |-> Cardinality({m \in M : ~Quotes(m)}),
                 evidence |-> FirstOf(M, 3)]
<1>1. M \in SUBSET Sentences /\ n \in M
  BY DEF Mentions
<1>2. a \in SourceProfile
  BY DEF SourceProfile
<1>3. a.evidence # {}
  <2>1. M \in SUBSET Nat /\ IsFiniteSet(M) /\ M # {}
    BY <1>1, SentencesOf
  <2>2. FirstOf(M, 3) # {}
    <3> HIDE DEF M
    <3>. QED
      BY <2>1, FirstFound
  <2>. QED
    BY <2>2
<1> DEFINE T == {m \in M : Quotes(m)}
           U == {m \in M : ~Quotes(m)}
<1>4. T \cup U = M /\ T \cap U = {} /\ IsFiniteSet(M) /\ M # {}
  BY <1>1, SentencesOf
<1>5. Cardinality(U) + Cardinality(T) > 0
  <2> HIDE DEF T, U, M
  <2>. QED
    BY <1>4, HalvesOf
<1>6. a.indirect = Cardinality(U) /\ a.direct = Cardinality(T) /\ a.name = name
  OBVIOUS
<1> HIDE DEF a, T, U, name
<1>. QED
  BY <1>2, <1>3, <1>5, <1>6 DEF name

\* What the profile of an article holds
ProfileHolds(p) ==
  /\ \A d \in DOMAIN DimensionRules : p.dimensions[d].items = FrameItems(d)
                                      /\ p.dimensions[d].status = DimensionStatus(FrameItems(d))
  /\ p.actors = SourceProfile /\ p.devices = FramingDevices /\ p.scope = ScopeCode
  /\ p.frames = Signals([c \in GenericFrames \cup DOMAIN Policy |-> Described(c)])

LEMMA MadeHolds == ProfileMade.status = "profiled" /\ ProfileHolds(ProfileMade)
<1>1. \A d \in DOMAIN DimensionRules : ProfileMade.dimensions[d] = Dimension(d)
  BY DEF ProfileMade
<1>2. \A d : Dimension(d).items = FrameItems(d) /\ Dimension(d).status = DimensionStatus(FrameItems(d))
  BY DEF Dimension
<1>3. /\ ProfileMade.actors = SourceProfile /\ ProfileMade.devices = FramingDevices /\ ProfileMade.scope = ScopeCode
      /\ ProfileMade.frames = Signals([c \in GenericFrames \cup DOMAIN Policy |-> Described(c)])
      /\ ProfileMade.status = "profiled"
  BY DEF ProfileMade
<1>. QED
  BY <1>1, <1>2, <1>3 DEF ProfileHolds

\* The engine takes every profile it makes.
LEMMA MadeValid == Valid(ProfileMade)
<1>1. ~ProfileMade.semantic /\ ~ProfileMade.bodyKept
  BY DEF ProfileMade
<1>2. \A t \in ProfileMade.terms : \E e \in ProfileMade.termEvidence : e.term = t
  <2>1. ProfileMade.terms = UNION {TermsOf(n) : n \in Sentences} /\ ProfileMade.termEvidence = MorphologyEvidence
    BY DEF ProfileMade
  <2>2. SUFFICES ASSUME NEW t \in UNION {TermsOf(n) : n \in Sentences} PROVE \E e \in MorphologyEvidence : e.term = t
    BY <2>1
  <2> DEFINE e == [term |-> t, at |-> FirstSentence({n \in Sentences : t \in TermsOf(n)})]
  <2>3. e \in MorphologyEvidence
    BY DEF MorphologyEvidence
  <2>4. e.term = t
    OBVIOUS
  <2> HIDE DEF e
  <2>. QED
    BY <2>3, <2>4
<1>3. DOMAIN ProfileMade.dimensions = DOMAIN DimensionRules
      /\ \A d \in DOMAIN DimensionRules : ProfileMade.dimensions[d] = Dimension(d)
  BY DEF ProfileMade
<1>4. ASSUME NEW d \in DOMAIN DimensionRules
      PROVE  /\ Dimension(d).status = "not_observed" => Dimension(d).items = {}
             /\ Dimension(d).status = "source_attributed" => ~Dimension(d).narrated
  <2>1. /\ Dimension(d).items = FrameItems(d) /\ Dimension(d).status = DimensionStatus(FrameItems(d))
        /\ Dimension(d).narrated = (DimensionStatus(FrameItems(d)) = "observed")
    BY DEF Dimension
  <2>2. DimensionStatus(FrameItems(d)) = "not_observed" => FrameItems(d) = {}
    BY DEF DimensionStatus
  <2>. QED
    BY <2>1, <2>2
<1>. QED
  BY <1>1, <1>2, <1>3, <1>4 DEF Valid

\* Who is said to hold a view indirectly is a source, and no claim is made twice with one voice.
LEMMA ClaimsNamed ==
  ASSUME TextHeld, NEW d
  PROVE  /\ \A i \in FrameItems(d) : i.kind = "indirect_source" =>
              \E a \in SourceProfile : a.name = i.speaker /\ a.evidence # {} /\ a.indirect + a.direct > 0
         /\ \A i, j \in FrameItems(d) : i.rule = j.rule /\ i.kind = j.kind => i = j
<1>1. ASSUME NEW i \in FrameItems(d), i.kind = "indirect_source"
      PROVE  \E a \in SourceProfile : a.name = i.speaker /\ a.evidence # {} /\ a.indirect + a.direct > 0
  <2>1. PICK rule \in DimensionRules[d], scope \in {"narration", "source"} : Matching(rule, scope) # {} /\ i = FrameItem(rule, scope)
    BY ItemsOf
  <2>2. i.at \in Sentences /\ i.kind = Voice(i.at, rule)
        /\ i.speaker = IF Voice(i.at, rule) = "journalist_narration" THEN NoSpeaker ELSE SpeakerOf(i.at)
    BY <2>1, ItemFound
  <2>3. i.speaker = SpeakerOf(i.at) /\ Attributes(i.at)
    BY <2>2, <1>1, VoiceTells
  <2>. QED
    BY <2>2, <2>3, SourceFound
<1>2. ASSUME NEW i \in FrameItems(d), NEW j \in FrameItems(d), i.rule = j.rule, i.kind = j.kind PROVE i = j
  <2>1. PICK r \in DimensionRules[d], s \in {"narration", "source"} : Matching(r, s) # {} /\ i = FrameItem(r, s)
    BY ItemsOf
  <2>2. PICK q \in DimensionRules[d], t \in {"narration", "source"} : Matching(q, t) # {} /\ j = FrameItem(q, t)
    BY ItemsOf
  <2>3. i.rule = r /\ i.kind = Voice(i.at, r) /\ Scope(i.at, r) = s
    BY <2>1, ItemFound
  <2>4. j.rule = q /\ j.kind = Voice(j.at, q) /\ Scope(j.at, q) = t
    BY <2>2, ItemFound
  <2>5. s = "narration" <=> t = "narration"
    BY <2>3, <2>4, <1>2, VoiceTells
  <2>. QED
    BY <2>1, <2>2, <2>3, <2>4, <2>5, <1>2
<1>. QED
  BY <1>1, <1>2

\* The counts of sources, signs and devices are of the sentences that bear them out.
LEMMA CountsFound ==
  ASSUME TextHeld
  PROVE  /\ \A dev \in FramingDevices : dev.code \in Devices => dev.evidence \subseteq Bearing(dev.code)
         /\ \A a \in SourceProfile : a.direct + a.indirect = Cardinality(Mentions(a.name))
         /\ \A f \in Signals([c \in GenericFrames \cup DOMAIN Policy |-> Described(c)]) :
              f.evidence # {} /\ Cardinality(f.evidence) <= f.count
         /\ ScopeCode = "episodic" => Bearing("episodic") # {}
<1>1. ASSUME NEW dev \in FramingDevices, dev.code \in Devices PROVE dev.evidence \subseteq Bearing(dev.code)
  <2>1. Attribution(SourceProfile).code = "source_attribution"
    BY DEF Attribution
  <2>2. dev # Attribution(SourceProfile)
    BY <2>1, <1>1, ArticleProfileAssumption
  <2>3. PICK c \in {x \in Devices \cup {"evaluative_headline"} : DeviceEvidence(x) # {}} :
          dev = [code |-> c, count |-> Cardinality(DeviceEvidence(c)), lead |-> DeviceEvidence(c) \cap FirstOf(Sentences, 2) # {},
                 evidence |-> FirstOf(DeviceEvidence(c), 2)]
    BY <2>2, <1>1 DEF FramingDevices
  <2>4. dev.code = c /\ dev.evidence = FirstOf(DeviceEvidence(c), 2)
    BY <2>3
  <2>5. c # "evaluative_headline"
    BY <2>4, <1>1, ArticleProfileAssumption
  <2>6. DeviceEvidence(c) = Bearing(c)
    BY <2>5 DEF DeviceEvidence
  <2>. QED
    BY <2>4, <2>6 DEF FirstOf
<1>2. ASSUME NEW a \in SourceProfile PROVE a.direct + a.indirect = Cardinality(Mentions(a.name))
  <2>1. PICK name : a = [name |-> name, role |-> RoleOf(name),
        direct |-> Cardinality({n \in Mentions(name) : Quotes(n)}),
        indirect |-> Cardinality({n \in Mentions(name) : ~Quotes(n)}),
        evidence |-> FirstOf(Mentions(name), 3)]
    BY DEF SourceProfile
  <2> DEFINE M == Mentions(name)
             T == {n \in M : Quotes(n)}
             U == {n \in M : ~Quotes(n)}
  <2>2. a.name = name /\ a.direct = Cardinality(T) /\ a.indirect = Cardinality(U)
    BY <2>1
  <2>3. IsFiniteSet(M) /\ T \cup U = M /\ T \cap U = {}
    BY SentencesOf DEF Mentions
  <2>4. Cardinality(T) + Cardinality(U) = Cardinality(M)
    <3> HIDE DEF T, U, M
    <3>. QED
      BY <2>3, HalvesOf
  <2>. QED
    BY <2>2, <2>4
<1>3. ASSUME NEW f \in Signals([c \in GenericFrames \cup DOMAIN Policy |-> Described(c)])
      PROVE  f.evidence # {} /\ Cardinality(f.evidence) <= f.count
  <2> DEFINE found == [c \in GenericFrames \cup DOMAIN Policy |-> Described(c)]
  <2>1. PICK c \in {x \in DOMAIN found : found[x] # {}} :
          f = [code |-> c, count |-> Cardinality(found[c]), evidence |-> FirstOf(found[c], 2)]
    BY Zenon DEF Signals
  <2>2. found[c] \in SUBSET Sentences /\ found[c] # {}
    BY <2>1 DEF Described, Bearing
  <2>3. f.count = Cardinality(found[c]) /\ f.evidence = FirstOf(found[c], 2)
    BY <2>1
  <2> DEFINE S == found[c]
  <2> HIDE DEF found, S
  <2>4. S \in SUBSET Nat /\ IsFiniteSet(S) /\ S # {}
    BY <2>2, SentencesOf DEF S
  <2>5. FirstOf(S, 2) # {} /\ Cardinality(FirstOf(S, 2)) <= Cardinality(S)
    BY <2>4, FirstFound
  <2>. QED
    BY <2>3, <2>5 DEF S
<1>4. ScopeCode = "episodic" => Bearing("episodic") # {}
  <2>1. Cardinality({}) = 0
    BY FS_EmptySet
  <2>. QED
    BY <2>1 DEF ScopeCode
<1>. QED
  BY <1>1, <1>2, <1>3, <1>4

\* While the article stays, its sentences and what is read in them stay.
LEMMA TextKept ==
  ASSUME text' = text
  PROVE  /\ Sentences' = Sentences /\ UncutQuotations' = UncutQuotations
         /\ \A n : Piece(n)' = Piece(n) /\ (Attributes(n)' <=> Attributes(n))
         /\ \A name : Mentions(name)' = Mentions(name)
         /\ \A code : Bearing(code)' = Bearing(code)
<1>1. Sentences' = Sentences /\ (\A n : Piece(n)' = Piece(n)) /\ (\A i, k : Here(i, k)' <=> Here(i, k))
  BY DEF Sentences, Piece, Here, Is
<1>2. UncutQuotations' = UncutQuotations
  BY <1>1 DEF UncutQuotations, Quotations
<1>3. \A n : /\ Leading(n)' = Leading(n) /\ CitedNames(n)' = CitedNames(n)
             /\ Reporting(n)' = Reporting(n) /\ Teller(n)' = Teller(n)
  BY <1>1 DEF Leading, CitedNames, Reporting, Teller
<1>4. \A n : SpeakerOf(n)' = SpeakerOf(n)
  <2>. SUFFICES ASSUME NEW n PROVE SpeakerOf(n)' = SpeakerOf(n)
    OBVIOUS
  <2> DEFINE names(l, c, t, b) == IF l # {} /\ b[LastToken(l)].sort = "name" THEN {LastToken(l)}
                                  ELSE IF c # {} THEN c ELSE t
             told1(S, b) == IF S = {} THEN NoSpeaker ELSE b[FirstSentence(S)].name
  <2>1. SpeakerOf(n) = told1(names(Leading(n), CitedNames(n), Teller(n), text.body), text.body)
    BY DEF SpeakerOf, Here, Is
  <2>2. SpeakerOf(n)' = told1(names(Leading(n)', CitedNames(n)', Teller(n)', text'.body), text'.body)
    BY DEF SpeakerOf, Here, Is
  <2> HIDE DEF names, told1
  <2>. QED
    BY <2>1, <2>2, <1>3
<1>5. \A n : Attributes(n)' <=> Attributes(n)
  BY <1>1, <1>4 DEF Attributes
<1>. QED
  BY <1>1, <1>2, <1>4, <1>5 DEF Mentions, Bearing

ProfileInv == (text = NoArticle \/ TextHeld) /\ ProfileTypeOK /\ ProfileSound

LEMMA ProfileInvInit == ProfileInit => ProfileInv
<1> SUFFICES ASSUME ProfileInit PROVE ProfileInv
  OBVIOUS
<1>1. text = NoArticle /\ profile.status = "none"
  BY DEF ProfileInit, NoProfile
<1>. QED
  BY <1>1 DEF ProfileInv, ProfileTypeOK, ProfileSound, AlwaysProfiled, OwnWordsOnly, SourcesNamed, CountsHold

LEMMA ProfileInvStep == ProfileInv /\ [ProfileNext]_profileVars => ProfileInv'
<1> SUFFICES ASSUME ProfileInv, [ProfileNext]_profileVars PROVE ProfileInv'
  OBVIOUS
<1>1. CASE ReadArticle
  <2>1. profile' = profile /\ profile.status = "none"
    BY <1>1 DEF ReadArticle, NoProfile
  <2>2. TextHeld'
    <3>1. PICK x \in ArticleTexts : text'.body = x.body /\ text'.sentences = Segmented(x.body)
      BY <1>1 DEF ReadArticle
    <3>2. TextRead(x)
      BY ArticleProfileAssumption
    <3>. QED
      BY <3>1, <3>2 DEF TextHeld, TextRead
  <2>3. profile'.status = "none"
    BY <2>1
  <2>4. AlwaysProfiled' /\ ProfileTypeOK'
    BY <2>3 DEF AlwaysProfiled, ProfileTypeOK
  <2>5. OwnWordsOnly'
    BY <2>3 DEF OwnWordsOnly
  <2>6. SourcesNamed' /\ CountsHold'
    BY <2>3 DEF SourcesNamed, CountsHold
  <2>. QED
    BY <2>2, <2>4, <2>5, <2>6 DEF ProfileInv, ProfileSound
<1>2. CASE ProfileArticle
  <2>1. text' = text
    BY <1>2 DEF ProfileArticle
  <2>2. TextHeld
    BY <1>2 DEF ProfileArticle, ProfileInv
  <2>5. TextHeld'
    BY <2>1, <2>2 DEF TextHeld
  <2>3. CASE text.body = << >>
    <3>1. profile'.status = "rejected"
      BY <2>3, <1>2 DEF ProfileArticle, Rejected
    <3>2. AlwaysProfiled' /\ ProfileTypeOK'
      BY <3>1, <2>1, <2>3 DEF AlwaysProfiled, ProfileTypeOK
    <3>3. OwnWordsOnly'
      BY <3>1 DEF OwnWordsOnly
    <3>4. SourcesNamed' /\ CountsHold'
      BY <3>1 DEF SourcesNamed, CountsHold
    <3>. QED
      BY <2>5, <3>2, <3>3, <3>4 DEF ProfileInv, ProfileSound
  <2>4. CASE text.body # << >>
    <3>1. profile' = ProfileMade
      BY <2>4, <1>2, MadeValid DEF ProfileArticle
    <3>2. profile'.status = "profiled" /\ ProfileHolds(profile')
      BY <3>1, MadeHolds
    <3>3. (\A name : Mentions(name)' = Mentions(name)) /\ (\A code : Bearing(code)' = Bearing(code))
      BY <2>1, TextKept
    <3>6. OwnWordsOnly'
      <4>1. \A d \in DOMAIN DimensionRules : profile'.dimensions[d].status = DimensionStatus(FrameItems(d))
        BY <3>2 DEF ProfileHolds
      <4>2. SUFFICES ASSUME NEW d \in DOMAIN DimensionRules, DimensionStatus(FrameItems(d)) = "observed"
                     PROVE  \E n \in Sentences : ~Attributes(n)' /\ \E i \in Piece(n)' :
                              /\ text.body[i].rules \cap DimensionRules[d] # {}
                              /\ \A q \in UncutQuotations : ~(q[1] < i /\ i < q[2])
        BY <4>1, <2>1, TextKept DEF OwnWordsOnly
      <4>. QED
        BY <4>2, <2>1, <2>2, OwnWords, TextKept
    <3>7. SourcesNamed'
      BY <3>2, <2>2, ClaimsNamed DEF SourcesNamed, ProfileHolds
    <3>8. CountsHold'
      BY <3>2, <3>3, <2>2, CountsFound DEF CountsHold, ProfileHolds
    <3>9. AlwaysProfiled' /\ ProfileTypeOK'
      BY <3>2 DEF AlwaysProfiled, ProfileTypeOK
    <3>. QED
      BY <2>5, <3>6, <3>7, <3>8, <3>9 DEF ProfileInv, ProfileSound
  <2>. QED
    BY <2>3, <2>4
<1>3. CASE UNCHANGED profileVars
  <2>1. text' = text /\ profile' = profile
    BY <1>3 DEF profileVars
  <2>2. /\ Sentences' = Sentences /\ UncutQuotations' = UncutQuotations
        /\ \A n : Piece(n)' = Piece(n) /\ (Attributes(n)' <=> Attributes(n))
        /\ \A name : Mentions(name)' = Mentions(name)
        /\ \A code : Bearing(code)' = Bearing(code)
    BY <2>1, TextKept
  <2>4. OwnWordsOnly' /\ SourcesNamed' /\ CountsHold' /\ AlwaysProfiled' /\ ProfileTypeOK'
    <3>1. OwnWordsOnly /\ SourcesNamed /\ CountsHold /\ AlwaysProfiled /\ ProfileTypeOK
      BY DEF ProfileInv, ProfileSound
    <3>. QED
      BY <3>1, <2>1, <2>2 DEF OwnWordsOnly, SourcesNamed, CountsHold, AlwaysProfiled, ProfileTypeOK
  <2>5. (text = NoArticle \/ TextHeld)'
    <3>1. text = NoArticle \/ TextHeld
      BY DEF ProfileInv
    <3>. QED
      BY <3>1, <2>1 DEF TextHeld
  <2>. QED
    BY <2>5, <2>4 DEF ProfileInv, ProfileSound
<1>. QED
  BY <1>1, <1>2, <1>3 DEF ProfileNext

=============================================================================
