--------------------------- MODULE QualityReview ----------------------------
(***************************************************************************)
(* The review of an analysis by hand: the desk of an administrator         *)
(* (site/app/admin/quality-review.tsx) loads an issue and its review, the  *)
(* administrator edits, and the handler of site/worker/runtime.mjs writes  *)
(* the verdicts, the misplaced articles and the missing ones in one batch. *)
(* Two administrators work on the same issues.                             *)
(***************************************************************************)
EXTENDS Naturals, FiniteSets

CONSTANTS
  Desks,       \* administrators
  RunIssues,      \* issues of the run
  ArticlesOf,  \* the articles of each issue
  NoIssue,
  Saves        \* bound: saves in all

ASSUME QualityAssumption ==
  NoIssue \notin RunIssues /\ Saves \in Nat /\ DOMAIN ArticlesOf = RunIssues

VARIABLES
  review,   \* quality_reviews with their article flags, by issue
  desk,     \* the desks
  raced,    \* history: issues whose first review was saved by two at once
  saves     \* saves begun; the number of a save stands for its verdicts and notes

qualityVars == <<review, desk, raced, saves>>

AllArticles == UNION {ArticlesOf[i] : i \in RunIssues}
NoReview == [save |-> 0, flags |-> {}, sent |-> {}]
\* sent: history, the articles that came with the verdicts the row holds
ReviewRow == [save : 0 .. Saves, flags : SUBSET AllArticles, sent : SUBSET AllArticles]

DeskSteps == {"rest", "open", "edit", "check", "decide", "write"}
Desk == [step : DeskSteps, issue : RunIssues \cup {NoIssue}, flags : SUBSET AllArticles,
         save : 0 .. Saves, known : BOOLEAN]
Closed == [step |-> "rest", issue |-> NoIssue, flags |-> {}, save |-> 0, known |-> FALSE]

QualityInit ==
  /\ review = [i \in RunIssues |-> NoReview]
  /\ desk = [d \in Desks |-> Closed]
  /\ raced = {} /\ saves = 0

Reviewed(i) == review[i].save # 0
Moves(d, step) == desk' = [desk EXCEPT ![d].step = step]

----------------------------------------------------------------------------
(* The desk: openIssue sets the issue and the form together, or neither *)

OpenIssue(d) ==
  /\ desk[d].step \in {"rest", "edit"}
  /\ \E i \in RunIssues : desk' = [desk EXCEPT ![d] = [Closed EXCEPT !.step = "open", !.issue = i]]
  /\ UNCHANGED <<review, raced, saves>>

OpenAnswered(d) ==
  /\ desk[d].step = "open"
  /\ desk' = [desk EXCEPT ![d].step = "edit", ![d].flags = review[desk[d].issue].flags]
  /\ UNCHANGED <<review, raced, saves>>

OpenFails(d) ==
  /\ desk[d].step = "open"
  /\ desk' = [desk EXCEPT ![d] = Closed]
  /\ UNCHANGED <<review, raced, saves>>

Toggle(d) ==
  /\ desk[d].step = "edit"
  /\ \E a \in ArticlesOf[desk[d].issue] :
       desk' = [desk EXCEPT ![d].flags = IF a \in @ THEN @ \ {a} ELSE @ \cup {a}]
  /\ UNCHANGED <<review, raced, saves>>

Save(d) ==
  /\ desk[d].step = "edit" /\ saves < Saves
  /\ saves' = saves + 1
  /\ desk' = [desk EXCEPT ![d].step = "check", ![d].save = saves + 1]
  /\ UNCHANGED <<review, raced>>

----------------------------------------------------------------------------
(* saveQualityReview: three SELECTs, then one batch *)

\* Every flagged article is one of the issue's.
CheckArticles(d) ==
  /\ desk[d].step = "check"
  /\ Moves(d, IF desk[d].flags \subseteq ArticlesOf[desk[d].issue] THEN "decide" ELSE "edit")
  /\ UNCHANGED <<review, raced, saves>>

\* The id of the review is read, or a new one is made up.
ReadReviewId(d) ==
  /\ desk[d].step = "decide"
  /\ desk' = [desk EXCEPT ![d].step = "write", ![d].known = Reviewed(desk[d].issue)]
  /\ UNCHANGED <<review, raced, saves>>

\* Fault: the flags of the earlier review stay.
AddedFlags(row, flags) == row.flags \cup flags
NewFlags(row, flags) == flags

\* The row keeps the id it has.  A made-up id that comes late names no review: the
\* verdicts are replaced, the flags are not, and a flag to insert fails the batch.
Late(d) == ~desk[d].known /\ Reviewed(desk[d].issue)
Written(row, d) ==
  [save |-> desk[d].save,
   flags |-> IF Late(d) THEN row.flags ELSE NewFlags(row, desk[d].flags),
   sent |-> desk[d].flags]

\* After a save the desk opens the issue anew, unless the answer is lost.
WriteReview(d) ==
  /\ desk[d].step = "write"
  /\ LET i == desk[d].issue
     IN  IF Late(d) /\ desk[d].flags # {}
         THEN Moves(d, "edit") /\ UNCHANGED <<review, raced>>
         ELSE /\ raced' = IF Late(d) THEN raced \cup {i} ELSE raced
              /\ review' = [review EXCEPT ![i] = Written(@, d)]
              /\ \/ desk' = [desk EXCEPT ![d] = [Closed EXCEPT !.step = "open", !.issue = i]]
                 \/ Moves(d, "edit")
  /\ UNCHANGED saves

SaveFails(d) ==
  /\ desk[d].step \in {"check", "decide", "write"}
  /\ Moves(d, "edit")
  /\ UNCHANGED <<review, raced, saves>>

QualityNext == \E d \in Desks :
  \/ OpenIssue(d) \/ OpenAnswered(d) \/ OpenFails(d) \/ Toggle(d) \/ Save(d)
  \/ CheckArticles(d) \/ ReadReviewId(d) \/ WriteReview(d) \/ SaveFails(d)
QualitySpec == QualityInit /\ [][QualityNext]_qualityVars

----------------------------------------------------------------------------
(* Properties *)

QualityTypeOK ==
  /\ review \in [RunIssues -> ReviewRow] /\ desk \in [Desks -> Desk]
  /\ raced \subseteq RunIssues /\ saves \in 0 .. Saves

\* A review is whole: its verdicts and its misplaced articles come from one save, and
\* the articles are the issue's, whoever else saves.  Only two first saves at once break
\* it: the second names a review that does not exist (runtime.mjs:4004).
ReviewWhole ==
  \A i \in RunIssues :
    /\ review[i].flags \subseteq ArticlesOf[i]
    /\ i \notin raced => review[i].flags = review[i].sent
=============================================================================
