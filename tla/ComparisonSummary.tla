------------------------- MODULE ComparisonSummary --------------------------
(***************************************************************************)
(* The comparison a page gives of an issue of the snapshot it resolved     *)
(* (site/lib/initial-five/analysis-summary.ts): the result of the          *)
(* synthesis is checked again, point by point and layer by layer, against  *)
(* the profiles of the bundle, whether the snapshot came from the pointer, *)
(* a replay, a saved file or the demo; beside it the page of the layers    *)
(* counts the same profiles by its own rows (semantic-analysis-pages.tsx). *)
(***************************************************************************)
EXTENDS ActiveSnapshot

CONSTANTS
  CompareLayers, \* layers, in the order of the display
  ShownGroups    \* groups shown first (3)

ASSUME ComparisonSummaryAssumption ==
  CompareLayers \subseteq Nat \ {0} /\ IsFiniteSet(CompareLayers) /\ ShownGroups \in Nat \ {0}

VARIABLE summary \* the comparison shown, or none
summaryVars == <<snapshotVars, summary>>

NoSummary == [status |-> "none"]
Wordless   == 0   \* an item without a paraphrase
FailedStates == {"analysis_failed", "conflicting", "dead_letter", "failed"}
OpenStates   == {"insufficient_evidence", "held_for_analysis"}
SourceVoices == {"direct_quote", "indirect_source", "uncertain_quote", "source_attributed", "mixed"}

----------------------------------------------------------------------------
(* What the profiles say *)

\* semanticEntryIsEligible
Eligible(b, a) == Intact(b, a) /\ b.semantic \notin FailedStates \cup {"insufficient_evidence"}
\* the items of a layer, and of those alike the first: by claim, or on the page of layers by family
ItemsIn(b, a, d) == {i \in b.profile[a].items : i.layer = d}
SameItem(i, j) == i.says = j.says /\ i.anchor.hash = j.anchor.hash
ByClaim(is) == {i \in is : ~\E j \in is : j.n < i.n /\ SameItem(i, j) /\ i.claim = j.claim}
ByFamily(is) == {i \in is : ~\E j \in is : j.n < i.n /\ SameItem(i, j) /\ i.family = j.family}

\* observationsFor: of a layer that is not in doubt, the items with words and a whole place
ObservationsFor(b, d, voices) ==
  UNION {{[article |-> a, says |-> i.says] :
            i \in {j \in ByClaim(ItemsIn(b, a, d)) :
                     /\ j.state # "blocked" /\ j.voice \in voices /\ j.says # Wordless
                     /\ PlacedWhole(j.anchor) /\ j.anchor \in b.profile[a].evidence}} :
           a \in {x \in b.articles : Eligible(b, x)}}

\* rowsForDimension and semanticRowState: a row of a profile in doubt shows its state alone,
\* and half a place is enough for another (hasValidEvidence), with words or without
StateOnly(b, a, i) == ~Eligible(b, a) \/ i.state \in {"blocked", "not_observed"}
PlacedHalf(x) == x.hash # 0 /\ (x.paragraph # 0 \/ x.sentence # 0)
LedgerRows(b, d) ==
  UNION {{[article |-> a, item |-> i] :
            i \in {j \in ByFamily(ItemsIn(b, a, d)) : /\ ~StateOnly(b, a, j) /\ PlacedHalf(j.anchor)
                                                       /\ j.anchor \in b.profile[a].evidence}} :
           a \in b.articles}
\* analyzeDimension
LedgerArticles(b, d, voices) == {r.article : r \in {s \in LedgerRows(b, d) : s.item.voice \in voices}}

----------------------------------------------------------------------------
(* One point, one layer *)

\* boundedEvidence: what some item of a sound profile supports, in any voice
Bounded(b, es) == {e \in es : EvidenceValid(b, e, "none")}

\* observationsFromPoint: a point that is not bound is left out
PointGroups(b, d, ps) ==
  {[layer |-> d, relation |-> p.relation, voice |-> p.voice, says |-> p.says, articles |-> p.declared,
    outlets |-> PieceOutlets(p.declared)] :
     p \in {q \in ps : /\ PointBound(b, q) /\ q.relation # "insufficient_evidence"
                       /\ q.declared \subseteq {e.article : e \in Bounded(b, q.evidence)}}}

Differing(gs) == {g \in gs : g.relation \in DifferenceRelations}
\* Fault: one group of another relation is enough.
AnyDiffers(gs) == Differing(gs) # {}
\* supportForDifference
DifferenceSupported(gs) ==
  /\ Cardinality(UNION {g.articles : g \in Differing(gs)}) >= 2
  /\ Cardinality(UNION {g.outlets : g \in Differing(gs)}) >= 2

\* comparisonResultHasFailure and the result that dimensionComparison is given
RootStatus(b) == IF \E d \in b.synthesis.dimensions : d.status \in FailedStates
                 THEN "analysis_failed" ELSE b.synthesis.status
ResultLayers(b) == IF b.synthesis.direct /\ b.synthesis.run = b.run THEN b.synthesis.dimensions ELSE {}
\* comparisonDimension: of two results of a layer the one found first
ResultOf(b, d) ==
  LET of == {x \in ResultLayers(b) : x.layer = d} IN IF of = {} THEN {} ELSE {CHOOSE x \in of : TRUE}

\* dimensionComparison
LayerComparison(b, d) ==
  LET raw    == ResultOf(b, d)
      states == {b.semantic, RootStatus(b)} \cup {x.status : x \in raw}
      failed == states \cap FailedStates # {}
      told   == IF failed THEN {} ELSE UNION {PointGroups(b, d, x.points) : x \in raw}
      own    == {g \in told : g.voice = "journalist_narration"}
      groups == IF DifferenceSupported(own) THEN own ELSE own \ Differing(own)
      rows   == ObservationsFor(b, d, {"journalist_narration"})
  IN [status |-> CASE failed -> "analysis_failed"
                   [] ~failed /\ states \cap OpenStates # {} -> "held_for_analysis"
                   [] ~failed /\ states \cap OpenStates = {} /\ "difference_confirmed" \in {x.status : x \in raw}
                        -> IF DifferenceSupported(groups) THEN "difference_confirmed" ELSE "held_for_analysis"
                   [] ~failed /\ states \cap OpenStates = {} /\ "no_clear_difference" \in {x.status : x \in raw}
                        -> "no_clear_difference"
                   [] OTHER -> "held_for_analysis",
      groups |-> groups,
      sources |-> IF \E g \in told : g.voice \in SourceVoices THEN {g \in told : g.voice \in SourceVoices}
                  ELSE ObservationsFor(b, d, SourceVoices),
      narrated |-> IF groups # {} THEN UNION {g.articles : g \in groups} ELSE {r.article : r \in rows}]

----------------------------------------------------------------------------
(* The whole *)

\* comparisonStatusFromResult
ResultStatus(b) ==
  CASE b.semantic \in FailedStates \/ RootStatus(b) \in FailedStates -> "analysis_failed"
    [] {b.semantic, RootStatus(b)} \cap FailedStates = {} /\ {b.semantic, b.synthesis.status} \cap OpenStates # {}
         -> "held_for_analysis"
    [] OTHER -> IF Publishable(b) THEN b.synthesis.status ELSE "held_for_analysis"

\* selectPrimaryDimension: the one named, or the first of the display
PrimaryLayer(b, target) ==
  LET fit == {d \in CompareLayers : LayerComparison(b, d).status = target}
  IN IF fit = {} THEN 0
     ELSE IF b.synthesis.primary \in fit THEN b.synthesis.primary
     ELSE CHOOSE d \in fit : \A e \in fit : d <= e

\* selectRepresentativeGroups: greedily, outlets not yet covered first
Weight(g, covered) ==
  100 * Cardinality(g.outlets \ covered) + (IF g.relation \in DifferenceRelations THEN 10 ELSE 0)
    + 2 * Cardinality(g.outlets) + Cardinality(g.articles)
KeyLess(g, h) == g.layer < h.layer \/ (g.layer = h.layer /\ g.says < h.says)
Best(left, covered) ==
  CHOOSE g \in left : \A h \in left :
    \/ Weight(g, covered) > Weight(h, covered)
    \/ Weight(g, covered) = Weight(h, covered) /\ ~KeyLess(h, g)
OutletsShown(groups) == UNION {g.outlets : g \in groups}
Picked(groups, sofar) ==
  IF groups = sofar THEN sofar ELSE sofar \cup {Best(groups \ sofar, OutletsShown(sofar))}
Representatives(groups) ==
  LET first[n \in 0 .. ShownGroups] == IF n = 0 THEN {} ELSE Picked(groups, first[n - 1])
  IN first[ShownGroups]

\* the groups behind the others: those of another layer, relation or text than the first
RemainingGroups(groups) == {g \in groups : \A f \in Representatives(groups) :
                       <<f.layer, f.relation, f.says>> # <<g.layer, g.relation, g.says>>}

\* validSynthesisCoverage, with the states that hide the common ground: the articles with a
\* sentence are held against the number the issue declares
CommonGround(b) ==
  LET c == b.synthesis.common
      n == Cardinality({e.article : e \in Bounded(b, c.evidence)})
  IN IF {b.semantic, b.synthesis.status} \cap (FailedStates \cup {"insufficient_evidence"}) = {}
        /\ b.synthesis.run = b.run /\ c.says # "none" /\ n >= 2
        /\ (c.says = "all" => n >= b.count)
        /\ (c.says = "most" => 10 * n >= 7 * b.count)
     THEN c.says ELSE "none"

\* comparisonSummary
SummaryOf(b) ==
  LET layers == [d \in CompareLayers |-> LayerComparison(b, d)]
      chosen == PrimaryLayer(b, ResultStatus(b))
      groups == IF chosen # 0 THEN layers[chosen].groups ELSE UNION {layers[d].groups : d \in CompareLayers}
  IN [status |-> IF ResultStatus(b) = "difference_confirmed" /\ chosen = 0 THEN "held_for_analysis" ELSE ResultStatus(b),
      bundle |-> b, layer |-> chosen, layers |-> layers, groups |-> groups,
      first |-> Representatives(groups), remaining |-> RemainingGroups(groups),
      common |-> CommonGround(b)]

Served == IF page.source = "demo" THEN DemoBundles
          ELSE {page.envelope.bundles[i] : i \in DOMAIN page.envelope.bundles}

\* A page, not the read API, draws the comparison of one issue from the snapshot it resolved.
ShowSummary ==
  /\ page.step = "served" /\ page.status # "none" /\ summary = NoSummary
  /\ \E b \in Served : summary' = SummaryOf(b)
  /\ UNCHANGED snapshotVars
LeaveSummary ==
  /\ summary # NoSummary /\ summary' = NoSummary /\ UNCHANGED snapshotVars

SummaryInit == SnapshotInit /\ summary = NoSummary
SummaryNext == ShowSummary \/ LeaveSummary \/ (summary = NoSummary /\ SnapshotNext /\ UNCHANGED summary)
SummarySpec == SummaryInit /\ [][SummaryNext]_summaryVars

----------------------------------------------------------------------------

SummaryTypeOK == SnapshotTypeOK /\ summary.status \in {"none", "analysis_failed", "held_for_analysis",
                                                       "difference_confirmed", "no_clear_difference"}

(* Wherever the bundle came from, a difference a page calls confirmed is    *)
(* one of the layer it names, told by articles of two outlets in their own  *)
(* words; a page that denies a difference shows no layer with one; common   *)
(* ground of all the articles has a sentence of as many as the issue        *)
(* declares, so of each where it declares enough; the groups shown          *)
(* first leave out no outlet while there is room, in an issue of at most    *)
(* thirty articles (in a larger one the number of articles can outweigh a   *)
(* new outlet); and an article is counted by the page of the layers just    *)
(* when the comparison counts it, where its items of the layer have words,  *)
(* a whole place and no double: the two pages test different things         *)
(* otherwise (comparisonSummary; analyzeDimension).                         *)
MostArticles == 30
PlainlyTold(b, a, d) == \A i, j \in ItemsIn(b, a, d) :
  /\ i.state \in {"supported", "pending", "unset"} /\ i.says # Wordless /\ PlacedWhole(i.anchor)
  /\ SameItem(i, j) => i = j
SummaryFounded ==
  summary # NoSummary =>
    LET b == summary.bundle
    IN /\ summary.status = "difference_confirmed" =>
            LET as == UNION {g.articles : g \in Differing(summary.layers[summary.layer].groups)}
            IN \E x, y \in as : PieceOutlet[x] # PieceOutlet[y] /\ TrulyNarrated(b, x) /\ TrulyNarrated(b, y)
       /\ summary.status = "no_clear_difference" =>
            \A d \in CompareLayers : summary.layers[d].status # "difference_confirmed"
       /\ summary.common = "all" =>
            LET borne == {a \in b.articles : \E e \in b.synthesis.common.evidence :
                            e.article = a /\ Intact(b, a) /\ e.anchor \in b.profile[a].evidence}
            IN Cardinality(borne) >= b.count /\ (b.count >= Cardinality(b.articles) => borne = b.articles)
       /\ Cardinality(OutletsShown(summary.groups)) <= ShownGroups /\ Cardinality(b.articles) <= MostArticles
            => OutletsShown(summary.groups) = OutletsShown(summary.first)
       /\ (\A g, h \in summary.groups : g.says = h.says => g = h)
            => summary.remaining = summary.groups \ summary.first
       /\ \A d \in CompareLayers, a \in b.articles : PlainlyTold(b, a, d) =>
            (a \in LedgerArticles(b, d, {"journalist_narration"})
               <=> a \in {r.article : r \in ObservationsFor(b, d, {"journalist_narration"})})
=============================================================================
