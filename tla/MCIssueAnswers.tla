--------------------------- MODULE MCIssueAnswers ---------------------------
(* Bundles and questions for IssueAnswers. *)
EXTENDS IssueAnswers, TLC

MCWordsOf == "" :> {} @@ "t1" :> {"bridge", "mayor"} @@ "t2" :> {"bridge", "budget"} @@ "t3" :> {"strike"}
               @@ "politician" :> {} @@ "expert" :> {}

ClaimRow(d, f, t, a) == [dim |-> d, family |-> f, text |-> t, of |-> a]
Speaker(r, n, a) == [role |-> r, count |-> n, of |-> a]
Coded(a, ok, items, actors) == [article |-> a, succeeded |-> ok, items |-> items, actors |-> actors]
Pattern(d, t, n, as, rows) == [dim |-> d, text |-> t, count |-> n, articles |-> as, evidence |-> rows]
Row(a, of) == [article |-> a, of |-> of]

CodedOne == Coded(1, TRUE, <<ClaimRow("problem", "f1", "t1", 1), ClaimRow("cause", "f1", "t1", 1), ClaimRow("problem", "f1", "t1", 1)>>,
                  <<Speaker("politician", 2, 1)>>)
CodedTwo == Coded(2, TRUE, <<ClaimRow("problem", "f2", "t2", 2), ClaimRow("cause", "f1", "t3", 2)>>,
                  <<Speaker("expert", 3, 2), Speaker("politician", 1, 2)>>)
CodedSame == Coded(2, TRUE, <<ClaimRow("cause", "f2", "t2", 2), ClaimRow("remedy", "f1", "", 2)>>, << >>)
CodedBad == Coded(3, FALSE, <<ClaimRow("problem", "f3", "t3", 3)>>, <<Speaker("expert", 1, 3)>>)
Mute     == Coded(1, TRUE, << >>, <<Speaker("politician", 1, 0)>>)

RulePatterns == <<Pattern("problem", "t1", 2, <<1, 2>>, <<Row(1, 1), Row(2, 2)>>),
                  Pattern("cause", "t2", 1, <<2>>, <<Row(0, 2)>>), Pattern("cause", "t3", 3, <<3, 1>>, << >>)>>
LostPatterns == <<Pattern("problem", "t1", 1, << >>, <<Row(0, 2)>>)>>

MCAskBundle(entries, patterns, said) ==
  [pieces |-> <<1, 2, 3>>, linked |-> {1, 2}, entries |-> entries, patterns |-> patterns,
   common |-> IF said THEN <<Row(2, 2), Row(3, 3)>> ELSE << >>,
   ground |-> said, subjects |-> said, difference |-> said, summary |-> said]
MCAskBundles ==
  {MCAskBundle(es, ps, said) :
     es \in {<<CodedOne, CodedTwo, CodedBad>>, <<CodedBad>>, <<CodedOne, CodedSame>>, <<Mute, CodedTwo>>},
     ps \in {RulePatterns, LostPatterns, << >>}, said \in BOOLEAN}
MCQuestions == {{"problem", "who"}, {"who", "bridge"}, {"source"}, {"common"}, {"agreement", "bridge"},
                {"difference", "bridge"}, {"different", "cause"}, {"differ", "cause"}, {"difference"},
                {"remedy", "difference"}, {"bridge"}, {"cause"}, {"responsibility"}, {"weather"}}
=============================================================================
