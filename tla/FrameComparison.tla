-------------------------- MODULE FrameComparison ---------------------------
(***************************************************************************)
(* The comparison of how the outlets of one event frame it: the engine of  *)
(* site/worker/framing-engine.mjs over the profiles of the articles, the   *)
(* public form and its contract in site/worker/runtime.mjs, and the loop   *)
(* of handleAnalyze that decides issue after issue and fails the whole     *)
(* date when one of them throws.                                           *)
(*                                                                         *)
(* A profile holds, for each dimension, items - a frame, the voice that    *)
(* brings it and the place of the item among the others -, and the roles   *)
(* the article quotes.  Frames are numbers; the articles are numbered in   *)
(* the order of the issue, which is taken to be the order of their ids.    *)
(***************************************************************************)
EXTENDS Integers, FiniteSets, Sequences

CONSTANTS
  OutletOf, GroupOf,  \* the outlet of an article, the media group of an outlet
  Days,               \* bound: profiles, issues and approvals of a date
  EvidenceCap,        \* evidence kept of a pattern
  VariantCap          \* patterns of a dimension that are published

Problem    == 1
Dimensions == 1 .. 5
Voices     == {"narration", "attributed"}

\* What is read of a date: profiles of articles, the issues in their order, the approvals
DayRead(d) ==
  /\ IsFiniteSet(DOMAIN d.profile) /\ DOMAIN d.profile \subseteq Nat
  /\ \A a \in DOMAIN d.profile :
       /\ \A k \in Dimensions : LET items == d.profile[a].items[k]
                               IN IsFiniteSet(items) /\ items \subseteq Nat \X Voices \X Nat
       /\ IsFiniteSet(d.profile[a].roles) /\ d.profile[a].conflicting \subseteq Dimensions
  /\ d.issues \in Seq([articles : SUBSET Nat, review : BOOLEAN])

ASSUME ComparisonAssumption ==
  /\ EvidenceCap \in Nat /\ VariantCap \in Nat
  /\ \A d \in Days : DayRead(d)

VARIABLES
  day,       \* [profile, issues, approvals]: what the run reads
  decided,   \* the comparisons of the issues so far
  outcome    \* the run

comparisonVars == <<day, decided, outcome>>

Downstream == Dimensions \ {Problem}
NoApproval == [id |-> 0, articles |-> {}]

NoDay == [profile |-> << >>, issues |-> << >>, approvals |-> {}]
ComparisonInit == day = NoDay /\ decided = << >> /\ outcome = "idle"

----------------------------------------------------------------------------
(* The profiles of an issue: ps stands for its articles that have one *)

Said(a, d)      == {<<i[1], i[2]>> : i \in day.profile[a].items[d]}
Narrated(a, d)  == {x[1] : x \in {y \in Said(a, d) : y[2] = "narration"}}
Lineage(a)      == day.profile[a].lineage
OutletsOf(ps)   == {OutletOf[a] : a \in ps}
GroupsOf(ps)    == {GroupOf[OutletOf[a]] : a \in ps}
Draft(ps)       == \E a \in ps : Lineage(a).semantic /\ ~Lineage(a).reviewed

\* buildAxis: a pattern is a frame with the voice that brings it.
Patterns(ps, d)    == UNION {Said(a, d) : a \in ps}
Saying(ps, d, x)   == {a \in ps : x \in Said(a, d)}
Narrating(ps, d, f) == Saying(ps, d, <<f, "narration">>)
Frames(ps, d)      == UNION {Narrated(a, d) : a \in ps}

\* sortedPatterns: the larger pattern first, and of each the first pieces of evidence
Before(ps, d, x, y) ==
  LET m == Cardinality(Saying(ps, d, x))
      n == Cardinality(Saying(ps, d, y))
  IN  m > n \/ (m = n /\ (x[1] < y[1] \/ (x[1] = y[1] /\ x[2] = "attributed" /\ y[2] # x[2])))
Shown(ps, d) ==
  {x \in Patterns(ps, d) : Cardinality({y \in Patterns(ps, d) : Before(ps, d, y, x)}) < VariantCap}
\* Every item brings its evidence, the article's first items first.
Passages(ps, d, x) ==
  {q \in ps \X UNION {day.profile[a].items[d] : a \in ps} :
     q[2] \in day.profile[q[1]].items[d] /\ <<q[2][1], q[2][2]>> = x}
Earlier(ps, d, x, a) == {q \in Passages(ps, d, x) : q[1] < a}
\* the articles with evidence among the first that are kept
Evidence(ps, d, x) == {a \in Saying(ps, d, x) : Cardinality(Earlier(ps, d, x, a)) < EvidenceCap}

----------------------------------------------------------------------------
(* Divergence *)

\* Fault: a group of its own on either side is enough.
OneSided(ps, d, f, g) == ~(GroupsOf(Narrating(ps, d, f)) = GroupsOf(Narrating(ps, d, g)))
Exclusive(ps, d, f, g) ==
  LET left == GroupsOf(Narrating(ps, d, f))
      right == GroupsOf(Narrating(ps, d, g))
  IN  left \ right # {} /\ right \ left # {}

Divergent(ps) == \E d \in Dimensions : \E f, g \in Frames(ps, d) : f < g /\ Exclusive(ps, d, f, g)

\* sourceDominance: a voice counts once for each article and dimension.
Heard(ps, voice) == {p \in ps \X Dimensions : \E x \in Said(p[1], p[2]) : x[2] = voice}
Dominated(ps) ==
  LET attributed == Cardinality(Heard(ps, "attributed"))
      narrated   == Cardinality(Heard(ps, "narration"))
  IN  /\ Cardinality(ps) >= 2 /\ \A a \in ps : day.profile[a].news
      /\ attributed > 0 /\ 10 * attributed >= 7 * (attributed + narrated)

\* Fault: drafts of the model are compared as if they had been reviewed.
DraftsToo(ps) == Divergent(ps) /\ ~Dominated(ps)
Detected(ps) == Divergent(ps) /\ ~Dominated(ps) /\ ~Draft(ps)

----------------------------------------------------------------------------
(* The issue map: two problem definitions, and where each outlet stands *)

\* Math.round(1000 * p / q)
Thousandths(p, q) == (2000 * p + q) \div (2 * q)

MapSample(ps) ==
  /\ ~Dominated(ps)
  /\ Cardinality(ps) >= 4 /\ Cardinality(OutletsOf(ps)) >= 3 /\ Cardinality(GroupsOf(ps)) >= 2

Anchors(ps) == {f \in Frames(ps, Problem) : Cardinality(Narrating(ps, Problem, f)) >= 2}
Pairs(ps) ==
  {p \in Anchors(ps) \X Anchors(ps) :
     p[1] # p[2] /\ Before(ps, Problem, <<p[1], "narration">>, <<p[2], "narration">>)}

\* harmonic coverage * (1 - overlap), then the smaller anchor, then the articles covered
PairRank(ps, p) ==
  LET left == Narrating(ps, Problem, p[1])
      right == Narrating(ps, Problem, p[2])
      l == Cardinality(left)
      r == Cardinality(right)
      both == Cardinality(left \cup right)
  IN  <<Thousandths(2 * l * r * (both - Cardinality(left \cap right)), Cardinality(ps) * (l + r) * both),
        IF l < r THEN l ELSE r, both>>
Above(x, y) == \E i \in 1 .. 3 : x[i] > y[i] /\ \A j \in 1 .. i - 1 : x[j] = y[j]
BestPair(ps) ==
  CHOOSE p \in Pairs(ps) : \A q \in Pairs(ps) :
    \/ Above(PairRank(ps, p), PairRank(ps, q))
    \/ PairRank(ps, p) = PairRank(ps, q)
         /\ (p[1] < q[1] \/ (p[1] = q[1] /\ p[2] <= q[2]))

TooFew(eligible) == Cardinality(eligible) < 2

\* The score is rounded before it is compared with a third.
Side(ps, pair, o) ==
  LET own == {a \in ps : OutletOf[a] = o}
      left == Narrating(own, Problem, pair[1])
      right == Narrating(own, Problem, pair[2])
      score == Thousandths(Cardinality(right \ left) - Cardinality(left \ right), Cardinality(left \cup right))
  IN  CASE TooFew(left \cup right)                          -> "insufficient"
        [] ~TooFew(left \cup right) /\ 3 * score <= -1000   -> "left"
        [] ~TooFew(left \cup right) /\ 3 * score >= 1000    -> "right"
        [] OTHER                                            -> "mixed"

IssueMap(ps) ==
  IF MapSample(ps) /\ Pairs(ps) # {}
  THEN LET pair == BestPair(ps)
       IN  [status |-> IF Draft(ps) THEN "provisional" ELSE "available", anchors |-> pair,
            side |-> [o \in OutletsOf(ps) |-> Side(ps, pair, o)]]
  ELSE [status |-> "withheld", anchors |-> << >>, side |-> << >>]

----------------------------------------------------------------------------
(* Narratives: articles that agree on the problem and on most of what follows *)

\* A dimension in which the model found the article in conflict with itself is passed over.
NarrativeSignature(a, d) == IF d \in day.profile[a].conflicting THEN {} ELSE Narrated(a, d)
SignedBy(ps, d, f) == {a \in ps : f \in NarrativeSignature(a, d)}
Telling(a) == {d \in Dimensions : NarrativeSignature(a, d) # {}}
Agree(a, b, d) == NarrativeSignature(a, d) \cap NarrativeSignature(b, d) # {}
Compatible(a, b) ==
  LET shared == Telling(a) \cap Telling(b) \cap Downstream
  IN  /\ Agree(a, b, Problem) /\ \A d \in shared : Agree(a, b, d)
      /\ Cardinality(shared) >= 2

First(S) == CHOOSE a \in S : \A b \in S : a <= b
Final(S) == CHOOSE a \in S : \A b \in S : b <= a
\* Fault: an article joins a cluster that has one member like it.
SingleLink(a, cluster) == \E b \in cluster : Compatible(a, b)
Linked(a, cluster) == \A b \in cluster : Compatible(a, b)

\* One article after the other joins the largest cluster it fits.
Joined(clusters, a) ==
  LET fitting == {c \in clusters : Linked(a, c)}
      home == CHOOSE c \in fitting : \A e \in fitting :
                \/ Cardinality(c) > Cardinality(e)
                \/ Cardinality(c) = Cardinality(e) /\ First(c) <= First(e)
  IN  IF fitting = {} THEN clusters \cup {{a}} ELSE (clusters \ {home}) \cup {home \cup {a}}

Clusters(ps) ==
  LET grown[read \in SUBSET ps] ==
        IF read = {} THEN {} ELSE Joined(grown[read \ {Final(read)}], Final(read))
  IN  grown[ps]

\* The frame most members narrate: at least two, alone, three in five of those who narrate one
Leads(cluster, d, f) ==
  LET n(g) == Cardinality(SignedBy(cluster, d, g))
  IN  /\ n(f) >= 2 /\ \A g \in Frames(cluster, d) \ {f} : n(g) < n(f)
      /\ 10 * n(f) >= 6 * Cardinality({a \in cluster : d \in Telling(a)})
Clauses(cluster) == {p \in Dimensions \X UNION {Frames(cluster, d) : d \in Dimensions} : Leads(cluster, p[1], p[2])}

Told(cluster) ==
  /\ Cardinality(cluster) >= 2
  /\ \E c \in Clauses(cluster) : c[1] = Problem
  /\ Cardinality({c \in Clauses(cluster) : c[1] # Problem}) >= 2
NarrativeRank(c) == <<Cardinality(c), Cardinality(OutletsOf(c)), Cardinality(Clauses(c))>>
Narratives(ps) ==
  LET told == {c \in Clusters(ps) : Told(c)}
  IN  {c \in told : Cardinality({e \in told : Above(NarrativeRank(e), NarrativeRank(c))
                         \/ (NarrativeRank(e) = NarrativeRank(c) /\ First(e) < First(c))}) < 2}

----------------------------------------------------------------------------
(* Voices, and the questions for the reader *)

Quoting(ps, r) == {a \in ps : r \in day.profile[a].roles}
Roles(ps)      == UNION {day.profile[a].roles : a \in ps}
SharedVoices(ps) ==
  {r \in Roles(ps) : Cardinality(OutletsOf(ps)) >= 2 /\ OutletsOf(Quoting(ps, r)) = OutletsOf(ps)}
SomeVoices(ps) ==
  LET n == Cardinality(OutletsOf(ps))
  IN  {r \in Roles(ps) : Cardinality(OutletsOf(Quoting(ps, r))) < (IF n < 2 THEN 2 ELSE n)}

\* One outlet's share of articles that quote the role is half or more above another's.
Gap(ps, r) == \E o, p \in OutletsOf(ps) :
  LET of(q) == {a \in ps : OutletOf[a] = q}
      m == Cardinality(of(o))
      n == Cardinality(of(p))
  IN  2 * (Cardinality(Quoting(of(o), r)) * n - Cardinality(Quoting(of(p), r)) * m) >= m * n

\* Context counts only where the whole article was read.
Present(ps, d) == OutletsOf({a \in ps : ~day.profile[a].truncated /\ Said(a, d) # {}})
Absent(ps, d)  == OutletsOf({a \in ps : ~day.profile[a].truncated /\ Said(a, d) = {}})

Asked(ps) ==
  {q \in 1 .. 8 :
     CASE q = 1 -> \E c, e \in Narratives(ps) : c # e /\
                     Cardinality({d \in Dimensions : \E x \in Clauses(c), y \in Clauses(e) :
                                    x[1] = d /\ y[1] = d /\ x[2] # y[2]}) >= 2
       [] q = 2 -> IssueMap(ps).status # "withheld"
       [] q = 3 -> \E r \in Roles(ps) : Gap(ps, r)
       [] q > 3 -> /\ Cardinality(Present(ps, q - 3)) >= 2 /\ Absent(ps, q - 3) # {}
                   /\ Frames(ps, q - 3) # {}}
Questions(ps) == {q \in Asked(ps) : Cardinality({p \in Asked(ps) : p < q}) < 3}

----------------------------------------------------------------------------
(* The public form and its contract *)

Comparable(ps) ==
  /\ Cardinality(ps) >= 2 /\ Cardinality(GroupsOf(ps)) >= 2
  /\ \E d \in Dimensions : Patterns(ps, d) # {}

Status(ps) == IF Comparable(ps) /\ Detected(ps) THEN "available" ELSE "partial"
PublicForm(ps, approval) ==
  [articles |-> ps, status |-> Status(ps), detected |-> Detected(ps), approval |-> approval,
   map |-> IssueMap(ps), narratives |-> Narratives(ps), questions |-> Questions(ps),
   shared |-> SharedVoices(ps), some |-> SomeVoices(ps)]
Withheld(ps) ==
  [articles |-> ps, status |-> "withheld", detected |-> FALSE, approval |-> NoApproval,
   map |-> [status |-> "withheld", anchors |-> << >>, side |-> << >>], narratives |-> {},
   questions |-> {}, shared |-> {}, some |-> {}]
NoProfiles == [Withheld({}) EXCEPT !.status = "none"]

\* Every article a published pattern names comes with the claim it makes.
Cited(ps) == \A d \in Dimensions : \A x \in Shown(ps, d) : Saying(ps, d, x) \subseteq Evidence(ps, d, x)
\* isPublicNarrative, isPublicNarrativeClause
Tellable(c) ==
  /\ Cardinality(c) >= 2 /\ Cardinality(Clauses(c)) >= 3
  /\ \E x \in Clauses(c) : x[1] = Problem
  /\ \A x \in Clauses(c) : Cardinality(SignedBy(c, x[1], x[2])) >= 2
Contract(ps, public) ==
  /\ Cited(ps)
  /\ public.map.status # "withheld" =>
       \A i \in 1 .. 2 : Cardinality(Narrating(ps, Problem, public.map.anchors[i])) >= 2
  /\ Cardinality(public.narratives) <= 2 /\ \A c \in public.narratives : Tellable(c)
  /\ Cardinality(public.questions) <= 3

----------------------------------------------------------------------------
(* The approvals of reviewers, bound to exact sets of articles *)

Issue(n) == day.issues[n]
Profiled(n) == Issue(n).articles \cap DOMAIN day.profile

\* approvedClusterApprovals has refused two approvals of one set.
ApprovalOf(n) ==
  IF \E p \in day.approvals : p.articles = Issue(n).articles /\ Cardinality(p.articles) >= 2
  THEN CHOOSE p \in day.approvals : p.articles = Issue(n).articles ELSE NoApproval
Approved(n) == ApprovalOf(n) # NoApproval

\* resolveClusterApproval: a profile of the model was written for the approval of this set.
Resolves(n) ==
  IF Approved(n) THEN \A a \in Profiled(n) : Lineage(a).approval = ApprovalOf(n)
  ELSE \A a \in Profiled(n) : ~Lineage(a).semantic

\* comparisonAnalysisLineage
OneEngine(ps) == \A a, b \in ps :
  Lineage(a).semantic = Lineage(b).semantic /\ Lineage(a).version = Lineage(b).version

----------------------------------------------------------------------------
(* handleAnalyze: one issue after the other, then the approvals nobody used *)

\* Articles, profiles and approvals are read before the run is inserted.
ReadDay == outcome = "idle" /\ outcome' = "running" /\ day' \in Days /\ UNCHANGED decided

Decides(public) == decided' = Append(decided, public) /\ UNCHANGED outcome
Throws == outcome' = "failed" /\ UNCHANGED decided

DecideIssue ==
  /\ outcome = "running" /\ Len(decided) < Len(day.issues)
  /\ LET n == Len(decided) + 1
         ps == Profiled(n)
         public == PublicForm(ps, ApprovalOf(n))
     IN  IF ps = {} THEN Decides(NoProfiles)
         ELSE IF ~Resolves(n) \/ ~OneEngine(ps) THEN Throws
         ELSE IF Issue(n).review /\ ~Approved(n) THEN Decides(Withheld(ps))
         ELSE IF Contract(ps, public) THEN Decides(public) ELSE Throws
  /\ UNCHANGED day

Used(p) == \E n \in DOMAIN day.issues : Profiled(n) # {} /\ ApprovalOf(n) = p

FinishDecisions ==
  /\ outcome = "running" /\ Len(decided) = Len(day.issues)
  /\ outcome' = IF \A p \in day.approvals : Used(p) THEN "analysed" ELSE "failed"
  /\ UNCHANGED <<day, decided>>

ComparisonNext == ReadDay \/ DecideIssue \/ FinishDecisions
ComparisonSpec == ComparisonInit /\ [][ComparisonNext]_comparisonVars

----------------------------------------------------------------------------
(* Properties *)

ComparisonTypeOK ==
  /\ outcome \in {"idle", "running", "analysed", "failed"}
  /\ Len(decided) <= Len(day.issues)
  /\ \A n \in DOMAIN decided : decided[n].status \in {"none", "withheld", "partial", "available"}

\* A difference is reported only between media groups that narrate apart: some article
\* narrates a frame nobody in another's group does, and the other way round, and none of
\* the profiles is a draft of the model.
DifferenceOwn(c) == c.detected => /\ \A a \in c.articles : Lineage(a).semantic => Lineage(a).reviewed
  /\ \E a, b \in c.articles, d \in Dimensions :
       /\ \E f \in Narrated(a, d) : \A e \in c.articles :
            GroupsOf({e}) = GroupsOf({b}) => f \notin Narrated(e, d)
       /\ \E g \in Narrated(b, d) : \A e \in c.articles :
            GroupsOf({e}) = GroupsOf({a}) => g \notin Narrated(e, d)

\* An outlet stands on a side only with two articles that take one, and with more of them
\* on that side alone than on the other alone.
SidesEarned(c) == \A o \in DOMAIN c.map.side : c.map.side[o] \in {"left", "right"} =>
  LET side == IF c.map.side[o] = "left" THEN 1 ELSE 2
      own == {a \in c.articles : OutletOf[a] = o}
      for == Narrating(own, Problem, c.map.anchors[side])
      against == Narrating(own, Problem, c.map.anchors[3 - side])
  IN  Cardinality(for \cup against) >= 2 /\ Cardinality(for \ against) > Cardinality(against \ for)

\* No article is in two narratives, and those of one never contradict each other where
\* neither contradicts itself.
NarrativesWhole(c) == \A x, y \in c.narratives :
  /\ x # y => x \cap y = {}
  /\ \A a, b \in x : \A d \in Telling(a) \cap Telling(b) : Agree(a, b, d)

\* Every voice heard is in one of the two lists.
VoicesSplit(c) == c.status \in {"partial", "available"} =>
  c.shared \cap c.some = {} /\ c.shared \cup c.some = Roles(c.articles)

\* What a model wrote is published only under an approval of exactly the articles of the
\* issue, the one its profiles were written for.
UnderApproval(n) == LET c == decided[n] IN
  c.status # "none" /\ (\E a \in c.articles : Lineage(a).semantic) =>
    c.approval \in day.approvals /\ c.approval.articles = Issue(n).articles
      /\ \A a \in c.articles : Lineage(a).approval = c.approval

\* An issue fails its date only for the approvals and versions of its profiles, or for a
\* published pattern of more items than evidence is kept of.
OnlyBeyondCap ==
  outcome = "failed" /\ Len(decided) < Len(day.issues) =>
    LET n == Len(decided) + 1
        ps == Profiled(n)
    IN  \/ ~Resolves(n) \/ ~OneEngine(ps)
        \/ \E d \in Dimensions : \E x \in Shown(ps, d) : Cardinality(Passages(ps, d, x)) > EvidenceCap

\* What a date publishes about framing is founded on its profiles and approvals, and the
\* engine builds no comparison its contract refuses for another reason than the cap.
ComparisonFounded ==
  /\ OnlyBeyondCap
  /\ \A n \in DOMAIN decided :
       /\ DifferenceOwn(decided[n]) /\ SidesEarned(decided[n]) /\ NarrativesWhole(decided[n])
       /\ VoicesSplit(decided[n]) /\ UnderApproval(n)

\* The comparison the engine builds of an issue meets the contract of its public form.
ComparisonAccepted ==
  outcome = "failed" /\ Len(decided) < Len(day.issues) =>
    LET n == Len(decided) + 1
    IN  ~Resolves(n) \/ ~OneEngine(Profiled(n)) \/ Contract(Profiled(n), PublicForm(Profiled(n), ApprovalOf(n)))
=============================================================================
