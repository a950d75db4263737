--------------------------- MODULE MCAgendaEvents ---------------------------
(* Constants for the checks of AgendaEvents. *)
EXTENDS AgendaEvents, TLC

GenericTokens     == {"probe"}
OfficeTokens      == {"mayor"}
DistinctiveTokens == {"arson", "fraud"}
StemPairs         == {<<"har", "harbour">>}
OpposedPatterns   == {<<"speech", "walk">>}
LogTable          == <<6931, 10986, 13863, 16094, 17918, 19459>>
LateDesks         == {"sport"}
\* Outlets 1 and 2 belong to one media group.
PanelGroup22      == <<1, 1, 2, 3>>

\* What the engine draws from an article: a few stories, told in different words
Story(wording, title, body, actors, actions) ==
  [wording |-> wording, title |-> title, body |-> body, actors |-> actors, actions |-> actions,
   concepts |-> {}, patterns |-> {}, category |-> "society"]
Fire  == Story(1, {"har", "arson", "kim", "probe"}, {}, {"kim"}, {"search"})
Trial == Story(2, {"harbour", "arson", "kim", "trial"}, {}, {"kim"}, {"indictment"})
Burnt == Story(3, {"arson", "night"}, {"har", "dock", "crane", "kim", "watch"}, {}, {})
Dock  == Story(4, {"harbour", "night"}, {"har", "dock", "crane", "kim", "mayor"}, {}, {"search"})
Fraud == Story(5, {"har", "fraud", "kim", "probe"}, {}, {"kim"}, {"search"})
Park  == Story(6, {"harbour", "arson", "park", "mayor"}, {"dock", "crane"}, {"park"}, {"search"})
Terms == [Story(7, {"mayor", "probe"}, {}, {"lee", "park"}, {}) EXCEPT !.concepts = {"terms"}, !.patterns = {"speech"}]
Fees  == [Story(8, {"mayor", "lee"}, {}, {"lee"}, {}) EXCEPT !.concepts = {"terms"}, !.patterns = {"walk"}]
Wire  == [Fire EXCEPT !.category = "sport"]
Bench == [Story(9, {"mayor", "watch"}, {}, {"park"}, {}) EXCEPT !.concepts = {"terms"}]
Quota == [Story(10, {"quota", "vote"}, {}, {}, {}) EXCEPT !.concepts = {"terms"}]
Stories == {Quota, Fire, Trial, Burnt, Dock, Fraud, Park, Terms, Fees, Wire, Bench}

By(story, outlet, zone) == story @@ [outlet |-> outlet, zone |-> zone]
\* Three of any, four of some; two events of two or three articles and their outlets
ThreeOfAny == {[i \in 1 .. 3 |-> By(s[i], i, 0)] : s \in [1 .. 3 -> Stories]}
FourOfSome == {[i \in 1 .. 4 |-> By(s[i], i, 35)] : s \in [1 .. 4 -> {Fire, Trial, Dock, Park, Fraud}]}
TwoEvents(n) ==
  {[i \in 1 .. 2 * n |-> By(IF i <= n THEN Fire ELSE Bench, o[i], z[(i - 1) \div n])] :
     o \in [1 .. 2 * n -> 1 .. 3], z \in {0 :> 0 @@ 1 :> 100, 0 :> 100 @@ 1 :> 0}}
ManyDays   == ThreeOfAny \cup FourOfSome \cup TwoEvents(3)
=============================================================================
