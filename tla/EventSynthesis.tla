--------------------------- MODULE EventSynthesis ----------------------------
(***************************************************************************)
(* What a page says of an event whose comparison is missing: the synthesis *)
(* composed from the profiles (site/lib/initial-five/compose-synthesis.mjs)*)
(* and the check that withholds an analysis without its receipts           *)
(* (site/lib/analysis-verification.mjs).  The bundle comes from a snapshot *)
(* or is built in; it passes through here each time it is read.            *)
(***************************************************************************)
EXTENDS Naturals, FiniteSets, Sequences

CONSTANTS
  StoryOutlet,   \* the outlet of each article of the event
  Paraphrases,   \* texts of items: equal texts are the same after normalising
  StoryBundles   \* bound: the bundles read

\* What is read of a bundle: finitely many profiles, and a line of its own that is no mark of ours
StoryRead(b) ==
  /\ b.step = "stored" /\ b.brief.common # "repeated"
  /\ DOMAIN b.profile \subseteq Nat /\ IsFiniteSet(DOMAIN b.profile)

ASSUME EventSynthesisAssumption ==
  /\ StoryOutlet \in [DOMAIN StoryOutlet -> STRING]
  /\ \A b \in StoryBundles : StoryRead(b)

VARIABLES
  story,  \* the bundle as it is stored
  told    \* the bundle as the pages get it
synthesisVars == <<story, told>>

EventArticles    == DOMAIN StoryOutlet
Unsaid     == "none"
NothingYet == [step |-> "rest"]
Aspects == <<"problem_definition", "causal_interpretation", "responsibility_attribution",
             "moral_evaluation", "treatment_recommendation">>

SynthesisInit == story = NothingYet /\ told = NothingYet

----------------------------------------------------------------------------
(* analysis-verification.mjs *)

\* every part a verified bundle needs; a person's review of the cluster stands for its receipt
Needed(b) == {"run", "model", "source", "semantic", "cluster", "receipts", "profiles", "evidence", "issue"}
               \cup (IF b.reviewed THEN {} ELSE {"cluster_receipt"})
Verified(b) == b.lacks \cap Needed(b) = {}

\* hasVerifiedDirectSynthesis: a comparison of this run with the receipt of its call
DirectVerified(b) == b.own.usable /\ b.own.direct /\ b.own.run = b.run /\ b.own.receipt

----------------------------------------------------------------------------
(* compose-synthesis.mjs: the first item of each profile with a paraphrase, if it is anchored *)

AspectRow(b, a, d)  == b.profile[a][d]
HasRow(b, a, d) == AspectRow(b, a, d).text # Unsaid /\ AspectRow(b, a, d).anchored
RowsOf(b, d)  == {a \in DOMAIN b.profile : HasRow(b, a, d)}
SayingIt(b, d, x) == {a \in RowsOf(b, d) : AspectRow(b, a, d).text = x}
First4(S) == {a \in S : Cardinality({c \in S : c < a}) < 4}
LowestArticle(S) == CHOOSE a \in S : \A c \in S : a <= c

\* exactRepeated: the same words in two articles, the first such group
\* Fault: one article with an anchor is enough.
SaidOnce(b, d) == {x \in Paraphrases : SayingIt(b, d, x) # {}}
ExactRepeated(b, d) == {x \in Paraphrases : Cardinality(SayingIt(b, d, x)) >= 2}
FirstRepeated(b, d) ==
  CHOOSE x \in ExactRepeated(b, d) : \A y \in ExactRepeated(b, d) : LowestArticle(SayingIt(b, d, x)) <= LowestArticle(SayingIt(b, d, y))
SharedClaim(b, d) ==
  IF ExactRepeated(b, d) = {} THEN {}
  ELSE {[dimension |-> d, text |-> FirstRepeated(b, d), evidence |-> SayingIt(b, d, FirstRepeated(b, d))]}

\* claim: a text without evidence is not stated; the title alone has none
WhatHappened(b) ==
  IF RowsOf(b, 1) = {} THEN [text |-> Unsaid, evidence |-> {}]
  ELSE [text |-> AspectRow(b, LowestArticle(RowsOf(b, 1)), 1).text, evidence |-> First4(RowsOf(b, 1))]

Composed(b) ==
  [what |-> WhatHappened(b), agreed |-> SharedClaim(b, 2) \cup SharedClaim(b, 3),
   facts |-> SharedClaim(b, 2) \cup SharedClaim(b, 3) \cup SharedClaim(b, 4),
   functions |-> UNION {SharedClaim(b, d) : d \in 1 .. 5},
   proofs |-> {p \in (DOMAIN b.profile) \X (1 .. 5) : HasRow(b, p[1], p[2])},
   status |-> "held_for_analysis", opposition |-> FALSE,
   outlets |-> Cardinality({StoryOutlet[a] : a \in DOMAIN b.profile \cap EventArticles})]
\* a title makes the text of what happened, even when nothing bears it
Composable(b) == DOMAIN b.profile # {} /\ (b.titled \/ RowsOf(b, 1) # {} \/ Composed(b).facts # {})

\* sourceLensFromProfiles: a source without counts counts once
LensOf(b) ==
  IF b.lens # {} THEN b.lens
  ELSE UNION {{<<StoryOutlet[a], r>> : r \in b.roles[a]} : a \in DOMAIN b.roles}

----------------------------------------------------------------------------
(* withEventSynthesis *)

\* Fault: the receipts of the articles are looked at only where no comparison came.
TrustsOwn(b) == b.liveDay /\ ~Verified(b) /\ ~b.own.usable
LiveUnverified(b) == b.liveDay /\ ~Verified(b) /\ ~DirectVerified(b)

\* the line of the brief on the difference: none, the one stored, or that there is no opposition
Page(step, b, what, agreed, difference, line, evidence) ==
  [step |-> step, what |-> what, agreed |-> agreed, difference |-> difference, line |-> line,
   evidence |-> evidence, lens |-> b.lens]
\* the bundle as it is, with its own brief, whatever made that
AsStored(b) == Page("stored", b, b.own.what, b.brief.common, b.own.usable /\ b.own.difference, b.brief.difference, {})
HeldBack(b) == Page("withheld", b, Unsaid, Unsaid, FALSE, "none", {})
FromProfiles(b) ==
  LET c == Composed(b) IN
  [Page("composed", b, c.what.text, IF c.agreed = {} THEN b.brief.common ELSE "repeated", FALSE, "no_opposition",
        c.what.evidence \cup UNION {s.evidence : s \in c.agreed})
     EXCEPT !.lens = LensOf(b)]

ReadStory == story.step = "rest" /\ story' \in StoryBundles /\ UNCHANGED told
TellStory ==
  /\ story.step = "stored" /\ told.step = "rest"
  /\ told' = IF LiveUnverified(story) THEN HeldBack(story)
             ELSE IF story.own.usable \/ ~Composable(story) THEN AsStored(story)
             ELSE FromProfiles(story)
  /\ UNCHANGED story
SynthesisNext == ReadStory \/ TellStory

----------------------------------------------------------------------------
(* Properties *)

SynthesisTypeOK ==
  /\ story.step \in {"rest", "stored"} /\ told.step \in {"rest", "stored", "withheld", "composed"}

\* A difference between outlets is told only from a comparison made for the event, or by the
\* line stored with the bundle where there is nothing to compose: never from the profiles,
\* and on the day under review never without the receipts of one.
DifferenceCompared == told.step # "rest" /\ (told.difference \/ told.line = "stored") =>
  /\ told.difference => story.own.usable
  /\ story.own.usable \/ ~Composable(story)
  /\ story.liveDay => Verified(story) \/ DirectVerified(story)

\* What is said to be agreed stands in the same words, with its place, in two articles at
\* least, unless it is the line that came with the bundle.
AgreedTwice == told.step = "composed" /\ told.agreed = "repeated" =>
  \E a, c \in told.evidence, d \in {2, 3} : a # c /\ HasRow(story, a, d) /\ HasRow(story, c, d)
                                            /\ AspectRow(story, a, d).text = AspectRow(story, c, d).text

\* What happened is told with an article that says it, and a bundle withheld says nothing.
WordsBorne ==
  /\ told.step = "composed" /\ told.what # Unsaid => \E a \in told.evidence : AspectRow(story, a, 1).text = told.what
  /\ told.step = "withheld" => told.what = Unsaid /\ told.agreed = Unsaid

SynthesisFounded == DifferenceCompared /\ AgreedTwice /\ WordsBorne
=============================================================================
