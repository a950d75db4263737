----------------------------- MODULE MCIssueView -----------------------------
(* Two issues of two outlets over two layers: an outlet with two articles,  *)
(* and files that are absent, blocked, or hold claims of two families in    *)
(* either voice, with and without evidence, in one row or in two.           *)
EXTENDS IssueView, TLC

Line(c, f, v, b) == [claim |-> c, family |-> f, voice |-> v, bound |-> b]
OwnLine(c, f)   == Line(c, f, "journalist_narration", TRUE)
Quote(c, f) == Line(c, f, "direct_quote", TRUE)
File(r1, n1, r2, n2) ==
  [status |-> "succeeded", blocked |-> FALSE, rows |-> <<r1, r2>>, node |-> <<n1, n2>>]
NoFile == [File(<< >>, "not_observed", << >>, "not_observed") EXCEPT !.status = "absent"]

MCWriterOf == 1 :> "a" @@ 2 :> "a" @@ 3 :> "b" @@ 4 :> "b"
MCIssueWritings == <<{1, 2, 3}, {4}>>
MCCodings ==
  {NoFile,
   File(<<OwnLine(1, 1)>>, "observed", << >>, "not_observed"),
   File(<<OwnLine(1, 2), OwnLine(1, 2)>>, "observed", <<Quote(2, 1)>>, "source_attributed"),
   File(<<Quote(1, 2), OwnLine(2, 1)>>, "observed", <<OwnLine(3, 2)>>, "observed"),
   File(<<Line(1, 3, "journalist_narration", FALSE), Quote(2, 3)>>, "observed", <<OwnLine(3, 1)>>, "observed"),
   [File(<<OwnLine(1, 3)>>, "observed", << >>, "not_observed") EXCEPT !.blocked = TRUE]}
=============================================================================
