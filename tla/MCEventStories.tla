--------------------------- MODULE MCEventStories ----------------------------
(* Constants for the checks of ArticleProfile and EventSynthesis: two rules of  *)
(* a dimension and one of another, quotations kept in a sentence and cut by its *)
(* end, articles of up to three passages; an event of three articles of two     *)
(* outlets, with profiles that agree, differ or lack an anchor, and bundles of  *)
(* any standing.                                                                *)
EXTENDS ArticleProfile, EventSynthesis, TLC

TwoRules   == [cause |-> {"policy_failure", "market"}, remedy |-> {"reform"}]
TwoRoles   == [minister |-> "government_official", citizen |-> "affected_person"]
TwoPolicies == [economic |-> {"price", "budget"}]

Token(sort, name, rules, reports, cites, signs, terms, concepts) ==
  [sort |-> sort, name |-> name, rules |-> rules, reports |-> reports, cites |-> cites,
   signs |-> signs, terms |-> terms, concepts |-> concepts]
Mark(sort) == Token(sort, "", {}, FALSE, FALSE, {}, {}, {})
Name(n)    == Token("name", n, {}, FALSE, FALSE, {}, {}, {})
SaysSo       == Token("words", "", {}, TRUE, FALSE, {"episodic"}, {"budget"}, {})
Failure    == Token("words", "", {"policy_failure"}, FALSE, FALSE, {"thematic"}, {"price", "budget"}, {1, 2})
Reform     == Token("words", "", {"reform"}, FALSE, FALSE, {"statistics", "conflict"}, {}, {1, 2, 3})
AsCited    == Token("words", "", {"reform"}, FALSE, TRUE, {"economic"}, {"price"}, {3})
\* the outlet's own words; a quotation with a speaker, without one, of two sentences; words
\* reported without one, cited, and reported of a name that stands inside the quotation
PassagesOfWords ==
  {<<Failure, Mark("stop")>>,
   <<Name("minister"), Mark("open"), Failure, Mark("close"), SaysSo, Mark("stop")>>,
   <<Mark("open"), Failure, Mark("close"), Reform, Mark("break")>>,
   <<Name("minister"), Mark("open"), Failure, Mark("stop"), Reform, Mark("stop"), Mark("close"), SaysSo, Mark("stop")>>,
   <<Name("minister"), Reform, SaysSo, Mark("stop")>>,
   <<Name("citizen"), AsCited, Mark("stop"), Mark("stop")>>,
   <<Failure, Mark("open"), Name("spokesman"), Reform, Mark("close"), SaysSo>>}
MCArticleTexts ==
  {[title |-> t, genre |-> IF t = {} THEN "straight_news" ELSE "editorial", body |-> b] :
     t \in {{}, {"evaluative_headline"}},
     b \in {<< >>} \cup PassagesOfWords \cup {x \o y : x, y \in PassagesOfWords} \cup {x \o y \o z : x, y, z \in PassagesOfWords}}

MCStoryOutlet == 1 :> "daily" @@ 2 :> "daily" @@ 3 :> "wire"

Words(t, found) == [text |-> t, anchored |-> found]
NoWords == Words(Unsaid, FALSE)
\* The aspects an article has: the problem, the cause and the remedy, in one wording or another.
Tells(problem, cause, remedy) == <<problem, cause, NoWords, cause, remedy>>
Tellings ==
  {Tells(Words("x", TRUE), Words("x", TRUE), Words("y", TRUE)),
   Tells(Words("y", TRUE), Words("x", FALSE), NoWords),
   Tells(Words("x", FALSE), Words("y", TRUE), Words("y", TRUE)),
   Tells(NoWords, NoWords, NoWords)}
OwnWork(usable, direct, receipt, difference) ==
  [usable |-> usable, direct |-> direct, run |-> 1, receipt |-> receipt, difference |-> difference,
   what |-> "x"]
NoOwn == OwnWork(FALSE, FALSE, FALSE, FALSE)
MCStories ==
  {[step |-> "stored", run |-> r, profile |-> says, own |-> own, titled |-> titled,
    roles |-> [a \in DOMAIN says |-> {"official"}], lens |-> {}, brief |-> [common |-> common, difference |-> line],
    liveDay |-> day, lacks |-> lacks, reviewed |-> TRUE] :
      r \in {1, 2}, says \in UNION {[as -> Tellings] : as \in {{}, {1, 2}, {1, 2, 3}}},
      own \in {NoOwn, OwnWork(TRUE, FALSE, FALSE, TRUE), OwnWork(TRUE, TRUE, TRUE, TRUE)},
      titled \in BOOLEAN, common \in {Unsaid}, line \in {"none", "stored"}, day \in BOOLEAN,
      lacks \in {{}, {"receipts"}}}
=============================================================================
