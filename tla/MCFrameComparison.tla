------------------------- MODULE MCFrameComparison --------------------------
(* Constants for the checks of FrameComparison: four articles of three outlets *)
(* and two media groups.                                                       *)
EXTENDS FrameComparison, TLC

FourArticles == 1 .. 4
Outlets4 == <<1, 1, 2, 3>>
Groups3  == <<1, 2, 2>>

\* What an article may say: one frame throughout, two problems and then a frame twice, a
\* cause of its own, one it contradicts elsewhere, only what its sources say, or nothing.
SaysAt(ps, own, frame, voice, places) ==
  [d \in Dimensions |-> (IF d = Problem THEN ps ELSE IF d \in own THEN {frame} ELSE {}) \X {voice}
                         \X (IF d = Problem THEN {1} ELSE places)]
Says(ps, own, frame, voice) == SaysAt(ps, own, frame, voice, {1})
Article(items, roles, truncated) ==
  [items |-> items, roles |-> roles, truncated |-> truncated, conflicting |-> {}]
Sayings ==
  {Article(Says({1}, 2 .. 5, 1, "narration"), {"official"}, FALSE),
   Article(Says({2}, 2 .. 5, 2, "narration"), {"affected"}, FALSE),
   Article(SaysAt({1, 2}, 2 .. 3, 1, "narration", {1, 2}), {}, TRUE),
   Article([Says({1}, 2 .. 3, 1, "narration") EXCEPT ![4] = {<<2, "narration", 1>>}], {"official", "affected"}, FALSE),
   [Article([Says({1}, 2 .. 4, 1, "narration") EXCEPT ![2] = {<<2, "narration", 1>>}], {}, FALSE)
      EXCEPT !.conflicting = {2}],
   Article(Says({1}, 2 .. 3, 1, "attributed"), {"official"}, FALSE),
   Article(Says({}, {}, 1, "narration"), {}, FALSE)}
Plain == CHOOSE s \in Sayings : s.roles = {"official"} /\ s.items[5] # {}

Whole  == [id |-> 1, articles |-> FourArticles]
Half   == [id |-> 2, articles |-> {1, 2}]
Rules(v) == [semantic |-> FALSE, version |-> v, approval |-> NoApproval, reviewed |-> FALSE]
Model(p, reviewed) == [semantic |-> TRUE, version |-> 1, approval |-> p, reviewed |-> reviewed]

ProfileOf(saying, lineage) ==
  [items |-> saying.items, roles |-> saying.roles, truncated |-> saying.truncated,
   conflicting |-> saying.conflicting, news |-> TRUE,
   lineage |-> lineage]
OneIssue(review)  == <<[articles |-> FourArticles, review |-> review]>>
TwoIssues(review) == <<[articles |-> {1, 2}, review |-> review], [articles |-> {3, 4}, review |-> FALSE]>>

\* Any articles under the rules; those of a model, reviewed or not; any lineages of one article, some of them not profiled.
AnyArticles ==
  {[profile |-> [a \in FourArticles |-> ProfileOf(says[a], Rules(1))], issues |-> OneIssue(FALSE),
    approvals |-> {}] : says \in [FourArticles -> Sayings]}
Drafts ==
  {[profile |-> [a \in FourArticles |-> ProfileOf(says[a], Model(Whole, reviewed))], issues |-> OneIssue(TRUE),
    approvals |-> {Whole}] :
      says \in [FourArticles -> {s \in Sayings : s.items[5] # {}}], reviewed \in BOOLEAN}
Lineages == {Rules(1), Rules(2), Model(Whole, FALSE), Model(Half, TRUE)}
AnyLineages ==
  {[profile |-> [a \in DOMAIN by |-> ProfileOf(Plain, by[a])], issues |-> issues, approvals |-> approvals] :
      by \in UNION {[profiled -> Lineages] : profiled \in {{}, {1, 3, 4}}}
              \cup {f \in [FourArticles -> Lineages] : f[1] = f[2]},
      issues \in {OneIssue(FALSE), OneIssue(TRUE), TwoIssues(TRUE)},
      approvals \in {{}, {Whole}, {Whole, Half}}}
AnyDays == AnyArticles \cup Drafts \cup AnyLineages
=============================================================================
