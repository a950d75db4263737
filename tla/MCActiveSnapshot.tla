-------------------------- MODULE MCActiveSnapshot --------------------------
(* Envelopes for ActiveSnapshot: many comparisons of one issue, the ways   *)
(* an envelope can fall apart, and results of two layers for the summary.  *)
EXTENDS ComparisonSummary, TLC

MCPieceOutlet == 1 :> "A" @@ 2 :> "A" @@ 3 :> "B"
MCThree == {1, 2, 3}

Spot(p, s) == [paragraph |-> p, sentence |-> s, hash |-> 1]
Item(n, voice) == [n |-> n, anchor |-> Spot(1, 1), voice |-> voice, state |-> "supported", layer |-> 1,
                   says |-> 1, claim |-> n, family |-> 1]
MCProfile(faults, items) == [faults |-> faults, evidence |-> {Spot(1, 1), Spot(1, 0)}, items |-> items]
Narrates == Item(1, "journalist_narration")
GoodProfile == MCProfile({}, {Narrates, Item(2, "direct_quote")})
\* the profile of article 3: sound, of another text, or with only a quotation
ThirdProfiles == {GoodProfile, MCProfile({"hash"}, GoodProfile.items), MCProfile({}, {Item(2, "direct_quote")})}
\* or with one item: plain, without words, with half a place, of a layer in doubt; or a double
OddProfiles == {MCProfile({}, {Narrates}), MCProfile({}, {[Narrates EXCEPT !.says = 0]}),
                MCProfile({}, {[Narrates EXCEPT !.anchor = Spot(1, 0)]}),
                MCProfile({}, {Item(1, "uncertain_quote"), Item(2, "journalist_narration")})}
               \cup {MCProfile({}, {[Narrates EXCEPT !.state = state]}) : state \in {"unset", "not_observed", "pending", "blocked"}}
Ev(as) == {[article |-> a, anchor |-> Spot(1, 1)] : a \in as}

MCPoints == {[relation |-> r, voice |-> v, says |-> Cardinality(as) + IF r = "same_core" THEN 2 ELSE 0,
              named |-> {}, declared |-> as, evidence |-> es] :
               r \in {"contradictory", "same_core"}, v \in {"journalist_narration", "source_attributed"},
               as \in {{1}, {1, 2}, {3}}, es \in {Ev({1}), Ev({1, 2}), Ev({3})}}
MCDimensions(ps) == {{}} \cup {{[layer |-> 1, status |-> st, points |-> {p, q}]} :
                      st \in {"difference_confirmed", "no_clear_difference"}, q \in ps,
                      p \in {x \in ps : x.relation = "contradictory" /\ x.voice = "journalist_narration"}}
Shared(says, as) == [says |-> says, evidence |-> Ev(as)]
Synth(st, dims, as) == [direct |-> TRUE, run |-> 1, status |-> st, analyzed |-> as, outlets |-> 2,
                        dimensions |-> dims, primary |-> 1, common |-> Shared("none", {})]
MCBundle(i, third, s) == [issue |-> i, articles |-> MCThree, count |-> 3, run |-> 1, titleFallback |-> FALSE, semantic |-> "succeeded",
                        profile |-> [a \in MCThree |-> IF a = 3 THEN third ELSE GoodProfile], synthesis |-> s]
HeldBundle(i) == MCBundle(i, GoodProfile, Synth("held_for_analysis", {}, MCThree))
Listing(i) == [issue |-> i, articles |-> 3, outlets |-> 2]
Sound == [id |-> 1, manifestId |-> 1, clean |-> TRUE, gate |-> TRUE, replay |-> FALSE,
          issues |-> <<Listing("i"), Listing("j")>>,
          bundles |-> [i \in {"i", "j"} |-> HeldBundle(i)]]

\* points whose evidence could pass, and two that cannot
MCBound == {p \in MCPoints : p.evidence = Ev(p.declared)}
             \cup {p \in MCPoints : p.declared = {1, 2} /\ p.evidence = Ev({1})}
MCCompared == {[Sound EXCEPT !.bundles["i"] = MCBundle("i", third, Synth(st, dims, MCThree))] :
               third \in ThirdProfiles, st \in {"difference_confirmed", "no_clear_difference"},
               dims \in MCDimensions(MCBound)}
Broken == {[Sound EXCEPT !.gate = FALSE], [Sound EXCEPT !.manifestId = 2], [Sound EXCEPT !.clean = FALSE],
           [Sound EXCEPT !.issues = <<Listing("i"), Listing("i")>>],
           [Sound EXCEPT !.issues = <<Listing("i")>>],
           [Sound EXCEPT !.bundles["j"] = HeldBundle("i")],
           [Sound EXCEPT !.bundles["j"].articles = {1, 2}],
           [Sound EXCEPT !.bundles["j"].titleFallback = TRUE],
           [Sound EXCEPT !.bundles["j"].run = 2, !.replay = TRUE],
           [Sound EXCEPT !.bundles["j"].synthesis.outlets = 1]}
\* two layers, a common ground, a failed analysis, and a replay that is let through unchecked
ToldPoint(r, as, n) == [relation |-> r, voice |-> "journalist_narration", says |-> n, named |-> {},
                   declared |-> as, evidence |-> Ev(as)]
TwoLayers(third, other) ==
  Synth("difference_confirmed",
        {[layer |-> 1, status |-> other, points |-> {ToldPoint("same_core", {1, 3}, 1), ToldPoint("same_core_with_detail", {2}, 2)}],
         [layer |-> 2, status |-> "difference_confirmed",
          points |-> {ToldPoint("different_emphasis", {1}, 3), ToldPoint("contradictory", {3}, 4), ToldPoint("same_core", {2}, 5)}]}, MCThree)
MCLayered == {[MCBundle("i", third, TwoLayers(third, other)) EXCEPT !.semantic = sem, !.synthesis.common = Shared(says, as)] :
                third \in ThirdProfiles, other \in {"no_clear_difference", "difference_confirmed", "analysis_failed"},
                sem \in {"succeeded", "insufficient_evidence", "failed"}, says \in {"all", "most"}, as \in {{1, 3}, MCThree}}
MCEnvelopes == {Sound} \cup Broken \cup MCCompared
                 \cup {[Sound EXCEPT !.bundles["i"] = b, !.replay = replay] : b \in MCLayered, replay \in BOOLEAN}
\* an issue that declares fewer articles than it has, and profiles the two pages read differently
MCOdd == {[MCBundle("i", third, TwoLayers(third, "no_clear_difference")) EXCEPT !.count = n, !.synthesis.common = Shared("all", {1, 3})] :
            third \in OddProfiles, n \in {2, 4}}
MCDemo == {HeldBundle("d")} \cup MCLayered \cup MCOdd
=============================================================================
