---------------------------- MODULE AgendaEvents ----------------------------
(***************************************************************************)
(* The grouping of a day's articles into events and the ranking of the     *)
(* events, site/worker/analysis.mjs.                                       *)
(*                                                                         *)
(* An article is what the engine draws from it: the tokens of its title    *)
(* and body, the actors and actions it names, the agenda concepts and the  *)
(* hard-negative patterns its title matches, its wording.  Articles are    *)
(* numbered in the order of their ids, the order they are grouped in.      *)
(* Titles have at most 70 characters, so that no length counts against a   *)
(* representative.                                                         *)
(***************************************************************************)
EXTENDS Integers, FiniteSets, Sequences, FiniteSetsExt

CONSTANTS
  Corpora,            \* bound: the articles of a day
  Generic, Offices,     \* tokens that name no event, tokens of offices
  Distinctive,        \* tokens that tell events apart
  Stems,              \* <<s, t>>: token t begins with s and is longer by two
  Opposed,            \* <<p, q>>: the pairs of hard-negative patterns
  Secondary,          \* categories that rank after the others
  PanelOutlets, PanelGroups, PanelGroup, \* the panel, and the group of an outlet
  FrequencyFloor, AnchorFloor,  \* bodies a token may be in whatever their number
  BucketCap,          \* events an index entry holds
  Log1p,              \* 10000 * ln(n + 1), as far as a day has articles
  MaxIssues

\* What is read of a day: articles in the order of their ids, with finitely many tokens
CorpusRead(c) ==
  /\ Len(c) \in Nat /\ DOMAIN c = 1 .. Len(c) /\ DOMAIN c \subseteq DOMAIN Log1p
  /\ \A a \in DOMAIN c : IsFiniteSet(c[a].title) /\ IsFiniteSet(c[a].body)

\* The registry has 22 outlets of 21 media groups, of which some are active.
ASSUME EventsAssumption ==
  /\ PanelOutlets \in 1 .. 22 /\ PanelGroups \in 1 .. 21
  /\ {FrequencyFloor, AnchorFloor, BucketCap, MaxIssues} \subseteq Nat
  /\ \A n \in DOMAIN Log1p : Log1p[n] \in Nat \ {0}
  /\ \A c \in Corpora : CorpusRead(c)

VARIABLES
  corpus,    \* the articles
  placed,    \* how many of them are in an event
  clusters,  \* the events, each the sequence of its articles
  bucket,    \* the inverted index: the events under a token
  issues     \* the ranked events

eventVars == <<corpus, placed, clusters, bucket, issues>>

EventsInit == corpus = << >> /\ placed = 0 /\ clusters = << >> /\ bucket = << >> /\ issues = << >>

Rounded(p, q)  == (2 * p + q) \div (2 * q)
Larger(m, n)   == IF m > n THEN m ELSE n
Members(c)     == {clusters[c][i] : i \in DOMAIN clusters[c]}

----------------------------------------------------------------------------
(* What of a body counts: tokens too frequent in the day's bodies do not *)

Frequency(t) == Cardinality({a \in DOMAIN corpus : t \in corpus[a].body})
AtMost(floor, percent) == Larger(floor, (percent * Len(corpus) + 99) \div 100)
Title(a)   == corpus[a].title
Body(a)    == {t \in corpus[a].body : Frequency(t) <= AtMost(FrequencyFloor, 8)}
BodyAnchors(a) == {t \in Body(a) : Frequency(t) <= AtMost(AnchorFloor, 2)}
Bundle(a)  == Title(a) \cup Body(a)
Subject(a) == Bundle(a) \ Generic
Topic(a)   == Subject(a) \ Offices

----------------------------------------------------------------------------
(* Similarity, in parts of Unit, which every number of tokens here divides *)

Unit == 693000
Jaccard(S, T) == IF S \cup T = {} THEN 0 ELSE (Unit * Cardinality(S \cap T)) \div Cardinality(S \cup T)
Bodies(a, b) == Body(a) # {} /\ Body(b) # {}
TitleSimilarity(a, b)   == Jaccard(Title(a), Title(b))
ContentSimilarity(a, b) == IF Bodies(a, b) THEN Jaccard(Bundle(a), Bundle(b)) ELSE 0
\* with bodies, 65 to 35, rounded to a thousandth
Similarity(a, b) ==
  IF Bodies(a, b)
  THEN (Unit \div 1000) * Rounded(65 * TitleSimilarity(a, b) + 35 * ContentSimilarity(a, b), Unit \div 10)
  ELSE TitleSimilarity(a, b)
Overlap(a, b) ==
  Cardinality(Title(a) \cap Title(b)) + (IF Bodies(a, b) THEN Cardinality(Bundle(a) \cap Bundle(b)) ELSE 0)
Percent(similarity, n) == 100 * similarity >= n * Unit

----------------------------------------------------------------------------
(* compatibleEvent *)

Alike(s, t) == s = t \/ <<s, t>> \in Stems \/ <<t, s>> \in Stems
SharedTopics(a, b) == Cardinality({s \in Topic(a) : \E t \in Topic(b) : Alike(s, t)})

EventsApart(a, b) ==
  LET left == Topic(a) \cap Distinctive
      right == Topic(b) \cap Distinctive
  IN  left # {} /\ right # {} /\ \A s \in left, t \in right : ~Alike(s, t)
Disjoint(S, T) == S # {} /\ T # {} /\ S \cap T = {}
Banned(a, b) == \E p \in corpus[a].patterns, q \in corpus[b].patterns : {<<p, q>>, <<q, p>>} \cap Opposed # {}

\* A later stage of one event: other actions, but names and places in common
Staged(a, b) ==
  LET topics == SharedTopics(a, b)
      titles == Cardinality(Title(a) \cap Title(b))
  IN  \/ /\ topics >= 1 /\ Larger(Cardinality(Subject(a) \cap Subject(b)), topics) >= 2
         /\ Percent(TitleSimilarity(a, b), 15) /\ titles >= 3
         /\ corpus[a].actors \cap corpus[b].actors # {} \/ topics >= 2
      \/ Cardinality(BodyAnchors(a) \cap BodyAnchors(b)) >= 2 /\ titles >= 1

BodiesAgree(a, b) ==
  LET anchors == Cardinality(BodyAnchors(a) \cap BodyAnchors(b))
      titles == Cardinality(Title(a) \cap Title(b))
      content == ContentSimilarity(a, b)
  IN  \/ anchors >= 3 /\ Percent(content, 18) /\ corpus[a].actions \cap corpus[b].actions # {}
      \/ anchors >= 2 /\ titles >= 1 /\ Percent(content, 10)
      \/ /\ anchors >= 1 /\ Cardinality(Body(a) \cap Body(b)) >= 4 /\ titles >= 2
         /\ Percent(TitleSimilarity(a, b), 15) /\ Percent(content, 14)

TitlesAgree(a, b) ==
  /\ Cardinality(corpus[a].actors) = Cardinality(corpus[b].actors) \/ Percent(Similarity(a, b), 35)
  /\ Overlap(a, b) >= 2 /\ SharedTopics(a, b) >= 1 /\ Percent(Similarity(a, b), 25)

SameWording(a, b) == corpus[a].wording = corpus[b].wording
SameEvent(a, b) ==
  \/ SameWording(a, b)
  \/ /\ ~Banned(a, b) /\ corpus[a].category = corpus[b].category
     /\ \/ corpus[a].concepts \cap corpus[b].concepts # {}
        \/ /\ ~Disjoint(corpus[a].actors, corpus[b].actors) /\ ~EventsApart(a, b)
           /\ ~Disjoint(corpus[a].actions, corpus[b].actions) \/ Staged(a, b)
           /\ \/ /\ Staged(a, b) /\ Cardinality(Title(a) \cap Title(b)) >= 3
                 /\ Percent(TitleSimilarity(a, b), 18)
              \/ /\ \/ Cardinality(corpus[a].actors) < 2 \/ Cardinality(corpus[b].actors) < 2
                    \/ Subject(a) \cap Subject(b) # {}
                 /\ BodiesAgree(a, b) \/ TitlesAgree(a, b)

----------------------------------------------------------------------------
(* clusterArticles *)

\* The member most like the others, the first of equals
Likeness(members, i) ==
  MapThenSumSet(LAMBDA j : Similarity(members[i], members[j]), DOMAIN members \ {i})
Representative(members) ==
  members[CHOOSE i \in DOMAIN members : \A j \in DOMAIN members :
            \/ Likeness(members, i) > Likeness(members, j)
            \/ Likeness(members, i) = Likeness(members, j) /\ i <= j]

Index(a) == IF Subject(a) # {} THEN Subject(a) ELSE Title(a)
Entry(t) == IF t \in DOMAIN bucket THEN bucket[t] ELSE {}
SharedIndex(a, c) == Cardinality({t \in Index(a) : c \in Entry(t)})

\* Fault: an article joins an event that has one article like it.
FitsOne(a, c) == SharedIndex(a, c) >= 1 /\ \E m \in Members(c) : SameEvent(a, m)
Fits(a, c)    == SharedIndex(a, c) >= 1 /\ \A m \in Members(c) : SameEvent(a, m)

\* The most similar representative, then the most index tokens in common; which of
\* equals comes first depends on the order of the tokens.
Homes(a) ==
  LET fitting == {c \in DOMAIN clusters : Fits(a, c)}
      like(c) == Similarity(a, Representative(clusters[c]))
  IN  {c \in fitting : \A e \in fitting :
         like(c) > like(e) \/ (like(c) = like(e) /\ SharedIndex(a, c) >= SharedIndex(a, e))}

Join(a, c) ==
  /\ clusters' = IF c \in DOMAIN clusters THEN [clusters EXCEPT ![c] = Append(clusters[c], a)]
                 ELSE Append(clusters, <<a>>)
  /\ bucket' = [t \in DOMAIN bucket \cup Index(a) |->
                  IF t \in Index(a) /\ Cardinality(Entry(t)) < BucketCap
                  THEN Entry(t) \cup {c} ELSE Entry(t)]

ReadCorpus == corpus = << >> /\ corpus' \in Corpora /\ UNCHANGED <<placed, clusters, bucket, issues>>

PlaceArticle ==
  /\ placed < Len(corpus)
  /\ LET a == placed + 1
     IN  \E c \in (IF Homes(a) = {} THEN {Len(clusters) + 1} ELSE Homes(a)) : Join(a, c)
  /\ placed' = placed + 1
  /\ UNCHANGED <<corpus, issues>>

----------------------------------------------------------------------------
(* weightedAgendaScore in tenths, of parts in hundredths and weights in percent *)

Outlets(c) == {corpus[a].outlet : a \in Members(c)}
Groups(c)  == {PanelGroup[o] : o \in Outlets(c)}
Size(c)    == Len(clusters[c])
Observed(c) == {a \in Members(c) : corpus[a].zone > 0}

Diversity(c) == LET d == (10000 * Cardinality(Groups(c))) \div PanelGroups IN IF d > 10000 THEN 10000 ELSE d
Volume(c) == (10000 * Log1p[Size(c)]) \div Log1p[Max({Size(e) : e \in DOMAIN clusters})]
FollowUps(c) == IF Size(c) > 1 THEN (10000 * (Size(c) - Cardinality(Outlets(c)))) \div (Size(c) - 1) ELSE 0
Placement(c) ==
  (100 * MapThenSumSet(LAMBDA a : corpus[a].zone, Observed(c))) \div Cardinality(Observed(c))
\* 0.45 + 0.8 * outlets / panel, at most one, in parts of 20 * PanelOutlets
Coverage(c) == Min({9 * PanelOutlets + 16 * Cardinality(Outlets(c)), 20 * PanelOutlets})

\* Fault: groups and repeated reports weigh the same.
Repeated(c) == 30 * Diversity(c) + 25 * Volume(c) + 30 * FollowUps(c)
Weighted(c) == 55 * Diversity(c) + 25 * Volume(c) + 5 * FollowUps(c)
Score(c) ==
  IF Observed(c) = {} THEN Rounded(Weighted(c) * Coverage(c), 200 * 85 * PanelOutlets)
  ELSE Rounded((Weighted(c) + 15 * Placement(c)) * Coverage(c), 200 * 100 * PanelOutlets)

\* The similarities to the representative, itself included
Cohesion(c) ==
  LET rep == Representative(clusters[c])
      like(a) == IF a = rep THEN Unit ELSE Similarity(rep, a)
      least == Min({like(a) : a \in Members(c)})
  IN  Rounded(35 * least * Size(c) + 65 * MapThenSumSet(like, Members(c)),
              Size(c) * (Unit \div 10))

IssueOf(c) ==
  LET rep == corpus[Representative(clusters[c])]
  IN  [members |-> Members(c), groups |-> Cardinality(Groups(c)), outlets |-> Cardinality(Outlets(c)),
       observed |-> Observed(c) # {}, score |-> Score(c), cohesion |-> Cohesion(c),
       secondary |-> rep.category \in Secondary, title |-> rep.wording]

\* Ranks are compared one after the other; the title decides at last.
Ranks(x) == <<IF x.secondary THEN 0 ELSE 1, x.score, x.outlets, Cardinality(x.members), x.cohesion, 0 - x.title>>
Ahead(x, y) ==
  \E i \in 1 .. 6 : Ranks(x)[i] > Ranks(y)[i] /\ \A j \in 1 .. i - 1 : Ranks(x)[j] = Ranks(y)[j]

Rank ==
  /\ corpus # << >> /\ placed = Len(corpus) /\ issues = << >>
  /\ issues' = [c \in DOMAIN clusters |-> IssueOf(c)]
  /\ UNCHANGED <<corpus, placed, clusters, bucket>>
OnAgenda == {c \in DOMAIN issues : Cardinality({e \in DOMAIN issues : Ahead(issues[e], issues[c])}) < MaxIssues}

EventsNext == ReadCorpus \/ PlaceArticle \/ Rank
EventsSpec == EventsInit /\ [][EventsNext]_eventVars

----------------------------------------------------------------------------
(* Properties *)

EventsTypeOK ==
  /\ placed \in 0 .. Len(corpus) /\ Len(clusters) <= placed
  /\ UNION {Members(c) : c \in DOMAIN clusters} = 1 .. placed
  /\ \A c, e \in DOMAIN clusters : c # e => Members(c) \cap Members(e) = {}
  /\ \A t \in DOMAIN bucket : bucket[t] \subseteq DOMAIN clusters /\ Cardinality(bucket[t]) <= BucketCap
  /\ DOMAIN issues \in {{}, DOMAIN clusters}

\* Only one wording brings articles of two desks, or of a hard-negative pair, into one event;
\* and only that, or an agenda concept, articles about different people or different crimes.
EventsClean == \A c \in DOMAIN clusters : \A a, b \in Members(c) : SameWording(a, b) \/
  /\ corpus[a].category = corpus[b].category /\ ~Banned(a, b)
  /\ \/ corpus[a].concepts \cap corpus[b].concepts # {}
     \/ ~Disjoint(corpus[a].actors, corpus[b].actors) /\ ~EventsApart(a, b)

\* An event is not reported twice: the first article of a later one did not fit an earlier
\* one, unless it shares no token with what was there, or that token's entry is full.
EventsWhole == \A c \in DOMAIN clusters : \A e \in c + 1 .. Len(clusters) :
  LET a == clusters[e][1]
  IN  (\A m \in Members(c) : SameEvent(a, m)) =>
        \A t \in Index(a) : (\E m \in Members(c) : m < a /\ t \in Index(m)) => Cardinality(Entry(t)) = BucketCap

\* As many articles, no placement, more media groups of the panel, and an outlet more for
\* each of them at most
WiderThan(x, y) ==
  /\ Cardinality(x.members) = Cardinality(y.members) /\ x.secondary = y.secondary
  /\ ~x.observed /\ ~y.observed
  /\ x.groups > y.groups /\ x.groups <= PanelGroups
  /\ x.outlets >= y.outlets /\ x.outlets - y.outlets <= x.groups - y.groups

\* Of two events with as many articles, three or more, and no placement, the one that more
\* media groups report, and no more outlets than that explains, is never behind: reports that
\* follow up on one's own weigh less.
CoverageLeads == \A c, e \in DOMAIN issues :
  WiderThan(issues[c], issues[e]) /\ Cardinality(issues[c].members) >= 3 => Ahead(issues[c], issues[e])

\* What readers see as one event is one event, and what ranks it is its coverage.
EventsSound == EventsClean /\ EventsWhole /\ CoverageLeads
=============================================================================
