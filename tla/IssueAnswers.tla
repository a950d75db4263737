---------------------------- MODULE IssueAnswers ----------------------------
(***************************************************************************)
(* Answers to a reader's question about an issue, from the analysis that   *)
(* is there: the page's route (site/app/api/initial-five/ask/route.ts) and *)
(* the worker's (site/worker/initial-five-api.mjs) each with a groundedAnswer *)
(* of its own over the successful profiles, and the rules of               *)
(* rule-answers.mjs for what both leave open.  A question is the set of    *)
(* its words; a hash is known by the article whose sentence it is.         *)
(***************************************************************************)
EXTENDS Naturals, FiniteSets, FiniteSetsExt, Sequences

CONSTANTS
  AskBundles,   \* bound: what has been analysed
  AskQuestions,    \* bound: sets of words
  WordsOf,      \* the words of each paraphrase
  AskWindow,    \* the window of the rate limit (60 000 ms)
  AskLimit,     \* answers to a client in one window (20)
  AskHorizon    \* bound: the time

IsList(s) == Len(s) \in Nat /\ DOMAIN s = 1 .. Len(s)
\* An article that is named is not 0, and a sentence given with one is of that article.
RowRead(r) == r.article # 0 => r.of \in {0, r.article}
\* What an analysed issue gives to the handlers: a profile quotes its own article only.
AskRead(b) ==
  /\ IsList(b.pieces) /\ IsList(b.entries) /\ IsList(b.patterns) /\ IsList(b.common)
  /\ \A i \in DOMAIN b.pieces : b.pieces[i] # 0
  /\ \A i \in DOMAIN b.entries :
       LET e == b.entries[i]
       IN /\ IsList(e.items) /\ IsList(e.actors)
          /\ \A j \in DOMAIN e.items : e.items[j].of \in {0, e.article}
          /\ \A j \in DOMAIN e.actors : e.actors[j].of \in {0, e.article} /\ e.actors[j].count \in Nat
  /\ \A i \in DOMAIN b.patterns :
       LET p == b.patterns[i]
       IN /\ IsList(p.evidence) /\ IsList(p.articles) /\ p.count \in Nat
          /\ \A j \in DOMAIN p.evidence : RowRead(p.evidence[j])
  /\ \A i \in DOMAIN b.common : RowRead(b.common[i])

ASSUME IssueAnswersAssumption ==
  /\ AskWindow \in Nat \ {0} /\ AskLimit \in Nat \ {0} /\ AskHorizon \in Nat
  /\ \A b \in AskBundles : AskRead(b)
  /\ \A q \in AskQuestions : IsFiniteSet(q)

VARIABLES
  surface,  \* which of the two handlers a client asks; each process keeps its own times
  askClock,
  recent,   \* requestsByClient: times of the requests let through
  through,  \* history: the same, whatever the handler forgets in one process
  reply     \* the last answer, with the bundle and the question
answersVars == <<surface, askClock, recent, through, reply>>

NoReply == [status |-> "none"]
AnswersInit ==
  /\ surface \in {"page", "api"} /\ askClock = 0
  /\ recent = << >> /\ through = << >> /\ reply = NoReply

----------------------------------------------------------------------------
(* Lists: filter, a stable sort and flatMap, each as the places it keeps in *)
(* the order it gives them.                                                *)

\* the members of S, each after those that R puts before it
InOrder(S, R) ==
  [n \in 1 .. Cardinality(S) |-> CHOOSE x \in S : Cardinality({y \in S : <<y, x>> \in R}) = n - 1]
Chosen(s, I) ==
  LET at == InOrder(I, {p \in I \X I : p[1] < p[2]}) IN [n \in DOMAIN at |-> s[at[n]]]
\* the largest key first
Sorted(s, key) ==
  LET I  == DOMAIN s
      at == InOrder(I, {p \in I \X I : key[p[1]] > key[p[2]] \/ (key[p[1]] = key[p[2]] /\ p[1] < p[2])})
  IN [n \in DOMAIN at |-> s[at[n]]]
Along(ss) ==
  LET I  == UNION {{i} \X DOMAIN ss[i] : i \in DOMAIN ss}
      at == InOrder(I, {p \in I \X I : p[1][1] < p[2][1] \/ (p[1][1] = p[2][1] /\ p[1][2] < p[2][2])})
  IN [n \in DOMAIN at |-> ss[at[n][1]][at[n][2]]]
Upto(s, n) == [i \in 1 .. (IF Len(s) < n THEN Len(s) ELSE n) |-> s[i]]

----------------------------------------------------------------------------
(* The question *)

\* namedDimension, dimensionForQuestion: the first pattern that fits
PatternOrder == <<"responsibility", "cause", "remedy", "evaluation", "problem">>
DimensionOrder == <<"problem", "cause", "responsibility", "evaluation", "remedy">>
NamedIn(q) ==
  {PatternOrder[i] : i \in {j \in 1 .. 5 : PatternOrder[j] \in q /\ \A k \in 1 .. j - 1 : PatternOrder[k] \notin q}}

Asks(q, cues) == q \cap cues # {}
AsksCommon(q)     == Asks(q, {"common", "agreed"})
AsksCommonRule(q) == Asks(q, {"common", "agreed", "agreement"})
\* "different" is a cue of the worker and of the rules, "differ" one of the page
AsksDifferencePage(q) == Asks(q, {"difference", "differ"})
AsksDifference(q)     == Asks(q, {"difference", "different"})
Spoken(q) == IF surface = "page" THEN "source" \in q \/ ("who" \in q /\ NamedIn(q) = {})
             ELSE Asks(q, {"source", "who"})

----------------------------------------------------------------------------
(* Evidence *)

InBundle(b, a) == \E i \in DOMAIN b.pieces : b.pieces[i] = a
\* answerEvidence, publicEvidence: an article that is not there or has no url is not cited
Citable(b, a) == InBundle(b, a) /\ a \in b.linked
Cites(b, rows) ==
  Chosen([i \in DOMAIN rows |-> [article |-> rows[i].article, of |-> rows[i].of]],
         {i \in DOMAIN rows : Citable(b, rows[i].article)})
\* evidenceFor of the rules: the first article stands in for one that is not there
StandIn(b, a) == IF InBundle(b, a) \/ DOMAIN b.pieces = {} THEN a ELSE b.pieces[1]
CitesRule(b, rows) == Cites(b, [i \in DOMAIN rows |-> [article |-> StandIn(b, rows[i].article), of |-> rows[i].of]])

AskAnswered(by, texts, cited) == [status |-> "answered", by |-> by, texts |-> texts, cited |-> cited]
NoGrounds == [status |-> "withheld", by |-> "none", texts |-> << >>, cited |-> << >>]

----------------------------------------------------------------------------
(* Claims of the successful profiles *)

successfulProfiles(b) == Chosen(b.entries, {i \in DOMAIN b.entries : b.entries[i].succeeded})
ClaimAt(e, j) ==
  [article |-> e.article, of |-> e.items[j].of, dim |-> e.items[j].dim, family |-> e.items[j].family, text |-> e.items[j].text]

\* semanticClaims: an item without a paraphrase is none
semanticClaims(b) ==
  LET es  == successfulProfiles(b)
      all == Along([i \in DOMAIN es |-> [j \in DOMAIN es[i].items |-> ClaimAt(es[i], j)]])
  IN Chosen(all, {i \in DOMAIN all : all[i].text # ""})

\* the page drops what is the same to the sentence
SameClaim(c, d) == c.article = d.article /\ c.dim = d.dim /\ c.text = d.text /\ c.of = d.of
Once(cs) == Chosen(cs, {i \in DOMAIN cs : \A j \in 1 .. i - 1 : ~SameClaim(cs[j], cs[i])})
WordsShared(q, words) == Cardinality(q \cap words)
RankedClaims(q, cs) == Sorted(cs, [i \in DOMAIN cs |-> WordsShared(q, WordsOf[cs[i].text])])
\* the places picked one by one, no two of one article or of one text
OneMoreApart(cs, I) ==
  LET free == {i \in DOMAIN cs : \A j \in I : cs[i].article # cs[j].article /\ cs[i].text # cs[j].text}
  IN IF free = {} THEN I ELSE I \cup {Min(free)}
TwoApart(cs)   == Chosen(cs, OneMoreApart(cs, OneMoreApart(cs, {})))
ThreeApart(cs) == Chosen(cs, OneMoreApart(cs, OneMoreApart(cs, OneMoreApart(cs, {}))))
AnswerTold(by, b, cs) == IF DOMAIN cs = {} THEN NoGrounds
                         ELSE AskAnswered(by, [i \in DOMAIN cs |-> cs[i].text], Cites(b, cs))
Relevant(q, cs) == Upto(Chosen(cs, {i \in DOMAIN cs : WordsShared(q, WordsOf[cs[i].text]) > 0}), 3)

----------------------------------------------------------------------------
(* Who speaks *)

\* the actors of the profiles, one by one
ActorRows(b) ==
  LET es == successfulProfiles(b)
  IN Along([i \in DOMAIN es |->
       [j \in DOMAIN es[i].actors |-> [role |-> es[i].actors[j].role, count |-> es[i].actors[j].count,
                                       article |-> es[i].article, of |-> es[i].actors[j].of]]])
\* each role keeps the article it first came from and the first evidence found for it
SpeakerIn(rows, i) ==
  LET same == {j \in DOMAIN rows : rows[j].role = rows[i].role}
      with == {j \in same : rows[j].of # 0}
  IN [article |-> rows[i].article, of |-> IF with = {} THEN 0 ELSE rows[Min(with)].of, text |-> rows[i].role,
      count |-> Cardinality(UNION {{j} \X (1 .. rows[j].count) : j \in same})]
Speakers(b) ==
  LET rows == ActorRows(b)
  IN Chosen([i \in DOMAIN rows |-> SpeakerIn(rows, i)],
            {i \in DOMAIN rows : \A j \in 1 .. i - 1 : rows[j].role # rows[i].role})
SpeakersAnswer(b) ==
  AnswerTold("speakers", b, Upto(Sorted(Speakers(b), [i \in DOMAIN Speakers(b) |-> Speakers(b)[i].count]), 5))

----------------------------------------------------------------------------
(* groundedAnswer *)

\* Fault: the families of all the dimensions are taken together.
AnyDimension(cs, d) == cs
InDimension(cs, d)  == Chosen(cs, {i \in DOMAIN cs : cs[i].dim = d})
\* the families, the largest first, each by its first claim
Families(cs) ==
  LET firsts == Chosen(cs, {i \in DOMAIN cs : \A j \in 1 .. i - 1 : cs[j].family # cs[i].family})
  IN Sorted(firsts, [i \in DOMAIN firsts |-> Cardinality({j \in DOMAIN cs : cs[j].family = firsts[i].family})])

DifferencePage(b, q, ranked) ==
  LET divided == {i \in DOMAIN DimensionOrder : /\ NamedIn(q) = {} \/ DimensionOrder[i] \in NamedIn(q)
                                                /\ Len(Families(InDimension(ranked, DimensionOrder[i]))) >= 2}
      alike == {i \in DOMAIN ranked : ranked[i].article # ranked[1].article /\ ranked[i].dim = ranked[1].dim}
  IN IF divided # {} THEN AnswerTold("families", b, Upto(Families(InDimension(ranked, DimensionOrder[Min(divided)])), 2))
     ELSE IF DOMAIN ranked = {} THEN NoGrounds
     ELSE AnswerTold("claims", b, Chosen(ranked, {1} \cup (IF alike = {} THEN {} ELSE {Min(alike)})))

ClaimsPage(b, q) ==
  LET all == Once(semanticClaims(b))
      scoped == Chosen(all, {i \in DOMAIN all : NamedIn(q) = {} \/ all[i].dim \in NamedIn(q)})
      ranked == RankedClaims(q, IF DOMAIN scoped = {} THEN all ELSE scoped)
  IN IF AsksDifferencePage(q) THEN DifferencePage(b, q, ranked)
     ELSE AnswerTold("claims", b, IF NamedIn(q) # {} /\ DOMAIN scoped # {} THEN ThreeApart(ranked) ELSE Relevant(q, ranked))

GroundedPage(b, q) ==
  IF DOMAIN successfulProfiles(b) = {} THEN NoGrounds
  ELSE IF Spoken(q) THEN SpeakersAnswer(b)
  ELSE IF AsksCommon(q) /\ (b.ground \/ b.subjects) THEN AskAnswered("summary", <<"ground">>, Cites(b, Upto(b.common, 3)))
  ELSE ClaimsPage(b, q)

GroundedApi(b, q) ==
  LET ranked == RankedClaims(q, semanticClaims(b))
      pair   == TwoApart(ranked)
  IN IF DOMAIN successfulProfiles(b) = {} THEN NoGrounds
     ELSE IF Spoken(q) THEN SpeakersAnswer(b)
     ELSE IF AsksDifference(q) THEN IF Len(pair) < 2 THEN NoGrounds ELSE AnswerTold("pair", b, pair)
     ELSE AnswerTold("claims", b, Relevant(q, ranked))

----------------------------------------------------------------------------
(* ruleGroundedAnswer *)

RankedPatterns(b, q) ==
  LET fit == Chosen(b.patterns, {i \in DOMAIN b.patterns : /\ b.patterns[i].text # ""
                                                           /\ NamedIn(q) = {} \/ b.patterns[i].dim \in NamedIn(q)})
      score(p) == 10 * WordsShared(q, WordsOf[p.text] \cup {p.dim}) + p.count
  IN Sorted(fit, [i \in DOMAIN fit |-> 100 * score(fit[i]) + fit[i].count])
\* patternEvidence: the rows of the pattern, or its articles; its first article stands for one not named
RowArticle(p, r) == IF r.article = 0 /\ DOMAIN p.articles # {} THEN p.articles[1] ELSE r.article
PatternRows(p) ==
  Upto(IF DOMAIN p.evidence # {}
       THEN [i \in DOMAIN p.evidence |-> [article |-> RowArticle(p, p.evidence[i]), of |-> p.evidence[i].of]]
       ELSE [i \in DOMAIN p.articles |-> [article |-> p.articles[i], of |-> 0]], 2)
Samples(b, ps) ==
  AskAnswered("rules", [i \in DOMAIN ps |-> ps[i].text],
              Upto(CitesRule(b, Along([i \in DOMAIN ps |-> PatternRows(ps[i])])), 4))
FromSummary(b, text) == AskAnswered("rules", <<text>>, CitesRule(b, Upto(b.common, 3)))

RuleAnswer(b, q) ==
  LET ranked == RankedPatterns(b, q)
  IN IF AsksCommonRule(q) /\ b.ground THEN FromSummary(b, "ground")
     ELSE IF DOMAIN ranked # {} THEN Samples(b, Upto(ranked, IF NamedIn(q) = {} /\ AsksDifference(q) THEN 2 ELSE 3))
     ELSE IF AsksDifference(q) /\ b.difference THEN AskAnswered("rules", <<"difference">>, << >>)
     ELSE IF b.summary \/ b.difference \/ b.ground THEN FromSummary(b, "summary")
     ELSE AskAnswered("rules", << >>, << >>)

----------------------------------------------------------------------------
(* A request *)

\* POST and handleAsk
Ask(b, q) ==
  reply = NoReply /\
  LET young == Chosen(recent, {i \in DOMAIN recent : askClock - recent[i] < AskWindow})
      grounded == IF surface = "page" THEN GroundedPage(b, q) ELSE GroundedApi(b, q)
  IN IF Len(young) >= AskLimit
     THEN /\ reply' = [status |-> "limited"] /\ UNCHANGED <<surface, askClock, recent, through>>
     ELSE /\ reply' = [status |-> "given", bundle |-> b, question |-> q,
                       answer |-> IF grounded.status = "withheld" THEN RuleAnswer(b, q) ELSE grounded]
          /\ recent' = Append(young, askClock) /\ through' = Append(through, askClock)
          /\ UNCHANGED <<surface, askClock>>

\* the reader turns to the next question
ReadAnswer ==
  /\ reply # NoReply /\ reply' = NoReply
  /\ UNCHANGED <<surface, askClock, recent, through>>

AskTick ==
  /\ reply = NoReply
  /\ askClock < AskHorizon /\ askClock' = askClock + 1
  /\ UNCHANGED <<surface, recent, through, reply>>

\* the platform starts another process: it knows of no request
NewProcess ==
  /\ reply = NoReply
  /\ recent' = << >> /\ through' = << >>
  /\ UNCHANGED <<surface, askClock, reply>>

AnswersNext == (\E b \in AskBundles, q \in AskQuestions : Ask(b, q)) \/ ReadAnswer \/ AskTick \/ NewProcess

----------------------------------------------------------------------------

AnswersTypeOK ==
  /\ surface \in {"page", "api"} /\ askClock \in 0 .. AskHorizon
  /\ \A i \in DOMAIN recent : recent[i] \in 0 .. askClock
  /\ reply.status \in {"none", "limited", "given"}

Elements(s) == {s[i] : i \in DOMAIN s}
Succeeded(b) == {e \in Elements(b.entries) : e.succeeded}
\* Every row of the comparison names an article that is there and every speaker has evidence:
\* else the code cites the sentence of one article under the name of another.
WellNamed(b) ==
  /\ \A p \in Elements(b.patterns) : \A r \in Elements(PatternRows(p)) : InBundle(b, r.article) /\ RowRead(r)
  /\ \A r \in Elements(b.common) : InBundle(b, r.article)
  /\ \A e \in Succeeded(b) : \A s \in Elements(e.actors) : s.of # 0

(* An answer cites only articles of the issue that a reader can open, each *)
(* sentence under its own article; what is given as the analysis by Claude *)
(* is said by a profile that succeeded, two explanations called different  *)
(* are of two families in one dimension (the page) or of two articles (the *)
(* worker); and no process answers a client more often than the limit in   *)
(* any window (groundedAnswer, ruleGroundedAnswer, rateLimited).           *)
AnswersGrounded ==
  /\ Cardinality({i \in DOMAIN through : askClock - through[i] < AskWindow}) <= AskLimit
  /\ reply.status = "given" =>
       LET b == reply.bundle
           texts == Elements(reply.answer.texts)
           Says(es) == UNION {Elements(e.items) : e \in es}
       IN /\ \A c \in Elements(reply.answer.cited) :
               InBundle(b, c.article) /\ c.article \in b.linked /\ (WellNamed(b) => c.of \in {0, c.article})
          /\ reply.answer.by \in {"claims", "families", "pair"} =>
               texts \subseteq {c.text : c \in Says(Succeeded(b))}
          /\ reply.answer.by = "families" =>
               \E c, d \in Says(Succeeded(b)) :
                 texts = {c.text, d.text} /\ c.dim = d.dim /\ c.family # d.family
          /\ reply.answer.by = "pair" =>
               \E e, f \in Succeeded(b) : \E c \in Elements(e.items), d \in Elements(f.items) :
                 e # f /\ c.text # d.text /\ texts = {c.text, d.text}
=============================================================================
