----------------------------- MODULE EvidenceChat -----------------------------
(***************************************************************************)
(* Questions about an issue (site/worker/evidence-chat.mjs): the answer is *)
(* the line of the stored comparison that shares most words with the       *)
(* question among those with evidence, and nothing else.  A line is the    *)
(* set of its words; the pieces of evidence are model values, listed by    *)
(* the parts of the comparison that bear them.                             *)
(***************************************************************************)
EXTENDS Naturals, Sequences, FiniteSets, FiniteSetsExt, SequencesExt

CONSTANTS
  ChatIssues,     \* for each issue its stored comparison, NoComparison or Unreadable
  ChatQuestions,  \* bound: questions, each the set of its words
  NoComparison, Unreadable,
  EvidenceShown   \* pieces of evidence an answer cites

Stored == {i \in DOMAIN ChatIssues : ChatIssues[i] \notin {NoComparison, Unreadable}}
PartsOf(c) == c.variants \o c.stories

ASSUME EvidenceChatAssumption ==
  /\ EvidenceShown \in Nat \ {0}
  /\ \A words \in ChatQuestions : IsFiniteSet(words)
  /\ \A i \in Stored :
       LET c == ChatIssues[i]
       IN  /\ c.variants \in Seq(ToSet(c.variants)) /\ c.stories \in Seq(ToSet(c.stories))
           /\ \A part \in ToSet(c.variants) \cup ToSet(c.stories) : part.refs \in Seq(ToSet(part.refs))

VARIABLES chatIssue, chatQuestion, chatReply

chatVars == <<chatIssue, chatQuestion, chatReply>>

Unasked == [status |-> "none", line |-> 0, refs |-> {}]
ChatInit == chatIssue \in DOMAIN ChatIssues /\ chatQuestion = {} /\ chatReply = Unasked

----------------------------------------------------------------------------
\* evidenceOf: the references met in parts of a comparison, each at <<part, place in it>>
Met(parts) == UNION {{n} \X DOMAIN parts[n].refs : n \in DOMAIN parts}
MetAt(parts, p) == parts[p[1]].refs[p[2]]
Sooner(p, q) == p[1] < q[1] \/ (p[1] = q[1] /\ p[2] < q[2])
MetBefore(parts, p) == {MetAt(parts, q) : q \in {r \in Met(parts) : Sooner(r, p)}}

\* The first EvidenceShown references, a reference that is met again counted once.
FirstRefs(parts) == {MetAt(parts, p) : p \in {q \in Met(parts) : Cardinality(MetBefore(parts, q)) < EvidenceShown}}

\* textCandidates: the lines, each with the parts that bear it.  The comparison keeps no list of
\* common facts, so the common ground is given all its parts; the lens of the sources has none.
\* A line without words, which the code leaves out, shares none with a question.
ChatLine(words, parts) == [words |-> words, parts |-> parts]
ChatLines(c) ==
  <<ChatLine(c.common, PartsOf(c)), ChatLine(c.difference, c.variants),
    ChatLine(c.matters, c.stories), ChatLine(c.lens, << >>)>>
  \o [n \in DOMAIN PartsOf(c) |-> ChatLine(PartsOf(c)[n].words, <<PartsOf(c)[n]>>)]

CommonWords(words, line) == Cardinality(words \cap line.words)

\* answerFromEvidence: the first of the lines with the most common words
Answering(words, lines) == {n \in DOMAIN lines : CommonWords(words, lines[n]) > 0 /\ Met(lines[n].parts) # {}}
BestLine(words, lines) ==
  LET able == Answering(words, lines)
  IN  Min({n \in able : \A k \in able : CommonWords(words, lines[k]) <= CommonWords(words, lines[n])})
AnswerOf(words, c) ==
  IF Answering(words, ChatLines(c)) = {} THEN [Unasked EXCEPT !.status = "withheld"]
  ELSE LET n == BestLine(words, ChatLines(c))
       IN  [status |-> "answered", line |-> n, refs |-> FirstRefs(ChatLines(c)[n].parts)]

\* handleEvidenceChat
AskChat ==
  /\ \E words \in ChatQuestions :
       /\ chatQuestion' = words
       /\ chatReply' = IF ChatIssues[chatIssue] \in {NoComparison, Unreadable}
                   THEN [Unasked EXCEPT !.status = "withheld"] ELSE AnswerOf(words, ChatIssues[chatIssue])
  /\ UNCHANGED chatIssue

----------------------------------------------------------------------------
(* Properties *)

ChatTypeOK ==
  /\ chatReply.status \in {"none", "answered", "withheld"} /\ chatQuestion \in ChatQuestions \cup {{}}
  /\ Cardinality(chatReply.refs) <= EvidenceShown

\* An answer says what a part of the comparison says and cites references of that part, never
\* nothing; it is withheld only when no such part shares a word with the question.
ChatGrounded ==
  LET c == ChatIssues[chatIssue]
  IN  /\ chatReply.status = "answered" =>
           LET words == ChatLines(c)[chatReply.line].words
           IN  /\ chatReply.refs # {} /\ words \cap chatQuestion # {}
               /\ \/ \E part \in ToSet(PartsOf(c)) : words = part.words /\ chatReply.refs \subseteq ToSet(part.refs)
                  \/ /\ words \in {c.common, c.difference, c.matters}
                     /\ \A r \in chatReply.refs : \E part \in ToSet(PartsOf(c)) : r \in ToSet(part.refs)
      /\ chatReply.status = "withheld" /\ c \notin {NoComparison, Unreadable} =>
           \A part \in ToSet(PartsOf(c)) : part.refs # << >> => part.words \cap chatQuestion = {}
=============================================================================
