---------------------------- MODULE ArticleProfile ----------------------------
(***************************************************************************)
(* The profile the rules make of one article: analyzeArticleFraming and    *)
(* validateArticleFrameProfile of site/worker/framing-engine.mjs.          *)
(*                                                                         *)
(* A text is a row of tokens: names, words, quotation marks that open and *)
(* close, the signs that end a sentence and the breaks of paragraphs.      *)
(* Words are what the patterns find in them: the rules they match, whether *)
(* they report or cite, their signs, concepts and terms.  A sentence goes  *)
(* by the place of its last token, which is what an excerpt of evidence    *)
(* gives; place 0 is the title.                                            *)
(***************************************************************************)
EXTENDS Naturals, FiniteSets, Sequences

CONSTANTS
  DimensionRules,      \* the rules of each dimension
  RoleFor,    \* the role of each speaker, as SOURCE_ROLE_RULES finds it
  GenericFrames,   \* signs of the generic frames
  Policy,     \* policy frames, with the terms of each
  Contexts,   \* signs of context
  Devices,    \* signs of framing devices besides the title
  Concepts, AssociationCap,   \* controlled concepts in their order, the pairs of them that are kept
  ArticleTexts     \* bound: the articles

\* What is read of an article: a row of tokens, with some words in it
TextRead(x) ==
  /\ Len(x.body) \in Nat /\ DOMAIN x.body = 1 .. Len(x.body)
  /\ x.body # << >> => \E i \in DOMAIN x.body : x.body[i].sort = "words"

\* An evaluative title and the attributions of an article have a code of their own.
ASSUME ArticleProfileAssumption ==
  /\ \A x \in ArticleTexts : TextRead(x)
  /\ {"evaluative_headline", "source_attribution"} \cap Devices = {}
  /\ DOMAIN DimensionRules # {} /\ \A d, e \in DOMAIN DimensionRules : d # e => DimensionRules[d] \cap DimensionRules[e] = {}
  /\ DOMAIN Policy \cap GenericFrames = {}
  /\ Concepts \subseteq Nat /\ AssociationCap \in Nat

VARIABLES
  text,    \* the article read
  profile  \* what the engine returns
profileVars == <<text, profile>>

NoSpeaker == ""
NoArticle    == [title |-> {}, genre |-> "straight_news", body |-> << >>, sentences |-> << >>]
NoProfile == [status |-> "none"]
ProfileInit == text = NoArticle /\ profile = NoProfile

----------------------------------------------------------------------------
(* The sentences *)

Is(b, i, sort) == b[i].sort = sort
FirstSentence(S) == CHOOSE n \in S : \A m \in S : n <= m
LastToken(S) == CHOOSE n \in S : \A m \in S : m <= n
FirstOf(S, k) == {n \in S : Cardinality({m \in S : m < n}) < k}

\* splitSentences: after the signs that end a sentence, with one closing mark that follows them
EndsSentence(b, i) ==
  \/ i = Len(b) \/ Is(b, i, "break")
  \/ Is(b, i, "stop") /\ ~Is(b, i + 1, "stop") /\ ~Is(b, i + 1, "close")
  \/ Is(b, i, "close") /\ i > 1 /\ Is(b, i - 1, "stop")
SentenceEnds(b) == {i \in DOMAIN b : EndsSentence(b, i)}
Segmented(b) ==
  LET ends == SentenceEnds(b)
      piece(n) == {i \in DOMAIN b : i <= n /\ \A e \in ends : e < n => e < i}
  IN  [n \in {e \in ends : \E i \in piece(e) : Is(b, i, "words") \/ Is(b, i, "name")} |-> piece(n)]
Sentences == DOMAIN text.sentences
Piece(n)  == text.sentences[n]
Here(i, sort) == Is(text.body, i, sort)

\* findQuoteRanges: a quotation is found where one sentence holds both of its marks
Quoted(n, i) == \E o, c \in Piece(n) :
  /\ Here(o, "open") /\ Here(c, "close") /\ o < i /\ i < c
  /\ \A j \in Piece(n) : o < j /\ j < c => ~Here(j, "close")
Quotes(n) == \E i \in Piece(n) : Quoted(n, i)

\* extractSpeaker: the name right before the first opening mark, or the one that is cited,
\* or the first before the verb that reports
Leading(n) == {i \in Piece(n) : \A o \in Piece(n) : Here(o, "open") => i < o}
CitedNames(n) == {i \in Piece(n) : Here(i, "name") /\ i + 1 \in Piece(n) /\ text.body[i + 1].cites}
Reporting(n) == {i \in Piece(n) : text.body[i].reports}
Teller(n) == {i \in Piece(n) : Here(i, "name") /\ Reporting(n) # {} /\ \A j \in Reporting(n) : i < j}
SpeakerOf(n) ==
  LET names == IF Leading(n) # {} /\ Here(LastToken(Leading(n)), "name") THEN {LastToken(Leading(n))}
               ELSE IF CitedNames(n) # {} THEN CitedNames(n) ELSE Teller(n)
  IN  IF names = {} THEN NoSpeaker ELSE text.body[FirstSentence(names)].name
RoleOf(name) == IF name \in DOMAIN RoleFor THEN RoleFor[name] ELSE "other"
Attributes(n) ==
  /\ \E i \in Piece(n) : text.body[i].reports \/ text.body[i].cites
  /\ SpeakerOf(n) # NoSpeaker

\* classifyVoice, where the rule first matches: a quotation without a speaker is uncertain;
\* outside one it is the report and its speaker together that take the words from the journalist.
Bearers(n, rule) == {i \in Piece(n) : rule \in text.body[i].rules}
InQuotation(n, rule) == Quoted(n, FirstSentence(Bearers(n, rule)))
\* Fault: the words of a quotation nobody is named for are the journalist's.
VoiceUnnamed(n, rule) ==
  IF InQuotation(n, rule) /\ SpeakerOf(n) # NoSpeaker THEN "direct_quote"
  ELSE IF Attributes(n) THEN "indirect_source" ELSE "journalist_narration"
Voice(n, rule) ==
  IF InQuotation(n, rule)
  THEN IF SpeakerOf(n) # NoSpeaker THEN "direct_quote" ELSE "uncertain_quote"
  ELSE IF Attributes(n) THEN "indirect_source" ELSE "journalist_narration"
Scope(n, rule) == IF Voice(n, rule) = "journalist_narration" THEN "narration" ELSE "source"

\* extractDimensions: of each rule and each scope the first sentence counts
Matching(rule, scope) == {n \in Sentences : Bearers(n, rule) # {} /\ Scope(n, rule) = scope}
FrameItem(rule, scope) ==
  LET n == FirstSentence(Matching(rule, scope))
      kind == Voice(n, rule)
  IN  [rule |-> rule, kind |-> kind, at |-> n,
       speaker |-> IF kind = "journalist_narration" THEN NoSpeaker ELSE SpeakerOf(n)]
FrameItems(d) == {FrameItem(p[1], p[2]) : p \in
               {q \in DimensionRules[d] \X {"narration", "source"} : Matching(q[1], q[2]) # {}}}

\* dimensionStatus
DimensionStatus(items) ==
  IF items = {} THEN "not_observed"
  ELSE IF \E i \in items : i.kind = "journalist_narration" THEN "observed" ELSE "source_attributed"
Dimension(d) == [items |-> FrameItems(d), status |-> DimensionStatus(FrameItems(d)),
                 narrated |-> DimensionStatus(FrameItems(d)) = "observed"]

----------------------------------------------------------------------------
(* Sources, and the signs that describe the article *)

\* collectSourceMentions: a sentence with any quotation counts as a quotation of its speaker
Mentions(name) == {n \in Sentences : Attributes(n) /\ SpeakerOf(n) = name}
SourceProfile ==
  LET names == {SpeakerOf(n) : n \in {m \in Sentences : Attributes(m)}}
  IN  {[name |-> name, role |-> RoleOf(name),
        direct |-> Cardinality({n \in Mentions(name) : Quotes(n)}),
        indirect |-> Cardinality({n \in Mentions(name) : ~Quotes(n)}),
        evidence |-> FirstOf(Mentions(name), 3)] : name \in names}

\* descriptorSignals: one pattern, or for a policy frame a strong pattern or two of its terms
TermsOf(n) == UNION {text.body[i].terms : i \in Piece(n)}
Bearing(code) == {n \in Sentences : \E i \in Piece(n) : code \in text.body[i].signs}
Described(code) ==
  IF code \in GenericFrames THEN Bearing(code)
  ELSE Bearing(code) \cup {n \in Sentences : Cardinality(TermsOf(n) \cap Policy[code]) >= 2}
Signals(found) ==
  {[code |-> c, count |-> Cardinality(found[c]), evidence |-> FirstOf(found[c], 2)] :
      c \in {x \in DOMAIN found : found[x] # {}}}

\* contextProfile: three sentences of a sign count at most, eight points each, a hundred at most
Depth(signals) ==
  LET points(k) == 8 * k * Cardinality({s \in signals : (IF s.count < 3 THEN s.count ELSE 3) = k})
      all == points(1) + points(2) + points(3)
  IN  IF all < 100 THEN all ELSE 100
Level(score) == IF score >= 55 THEN "deep" ELSE IF score >= 25 THEN "moderate" ELSE "shallow"

\* scopeProfile: twice as many of one kind, or none of the other
ScopeCode ==
  LET e == Cardinality(Bearing("episodic"))
      t == Cardinality(Bearing("thematic"))
  IN  CASE e = 0 /\ t = 0                       -> "not_observed"
        [] e > 0 /\ (t = 0 \/ e >= 2 * t)       -> "episodic"
        [] t > 0 /\ (e = 0 \/ t >= 2 * e)       -> "thematic"
        [] OTHER                                -> "mixed"

\* framingDevices: an evaluative title is shown by the first sentence of the text
DeviceEvidence(code) == IF code = "evaluative_headline"
                        THEN (IF "evaluative_headline" \in text.title THEN FirstOf(Sentences, 1) ELSE {})
                        ELSE Bearing(code)
\* the evidence of the sources: of the one first mentioned, then of the next
Foremost(m, n) ==
  LET a == FirstSentence(Mentions(SpeakerOf(m)))
      b == FirstSentence(Mentions(SpeakerOf(n)))
  IN  a < b \/ (a = b /\ m < n)
Attribution(actors) ==
  LET shown == UNION {a.evidence : a \in actors}
  IN  [code |-> "source_attribution", count |-> Cardinality({n \in Sentences : Attributes(n)}), lead |-> FALSE,
       evidence |-> {n \in shown : Cardinality({m \in shown : Foremost(m, n)}) < 3}]
FramingDevices ==
  {[code |-> c, count |-> Cardinality(DeviceEvidence(c)), lead |-> DeviceEvidence(c) \cap FirstOf(Sentences, 2) # {},
    evidence |-> FirstOf(DeviceEvidence(c), 2)] :
      c \in {x \in Devices \cup {"evaluative_headline"} : DeviceEvidence(x) # {}}}
  \cup {Attribution(SourceProfile)}

\* associationMap: the sentences that hold both concepts, the pairs of most sentences first
Pairing(p) == {n \in Sentences : \A k \in 1 .. 2 : \E i \in Piece(n) : p[k] \in text.body[i].concepts}
Associations ==
  LET found == {p \in Concepts \X Concepts : p[1] < p[2] /\ Pairing(p) # {}}
      sooner(p, q) == \/ Cardinality(Pairing(p)) > Cardinality(Pairing(q))
                      \/ /\ Cardinality(Pairing(p)) = Cardinality(Pairing(q))
                         /\ p[1] < q[1] \/ (p[1] = q[1] /\ p[2] < q[2])
  IN  {[pair |-> p, count |-> Cardinality(Pairing(p))] :
         p \in {q \in found : Cardinality({r \in found : sooner(r, q)}) < AssociationCap}}

----------------------------------------------------------------------------
(* analyzeArticleFraming *)

\* genreEvidence: the title, unless it is a plain report or there is no text
GenreEvidence == IF text.genre = "straight_news" \/ Sentences = {} THEN {} ELSE {0}
MorphologyEvidence ==
  {[term |-> t, at |-> FirstSentence({n \in Sentences : t \in TermsOf(n)})] :
      t \in UNION {TermsOf(n) : n \in Sentences}}

ProfileMade ==
  [status |-> "profiled", semantic |-> FALSE, bodyKept |-> FALSE, genre |-> text.genre,
   genreEvidence |-> GenreEvidence, dimensions |-> [d \in DOMAIN DimensionRules |-> Dimension(d)],
   actors |-> SourceProfile, context |-> Level(Depth(Signals([c \in Contexts |-> Bearing(c)]))), scope |-> ScopeCode,
   frames |-> Signals([c \in GenericFrames \cup DOMAIN Policy |-> Described(c)]), associations |-> Associations,
   terms |-> UNION {TermsOf(n) : n \in Sentences}, termEvidence |-> MorphologyEvidence,
   devices |-> FramingDevices]

\* validateArticleFrameProfile, as far as a profile of the rules can meet it
Valid(p) ==
  /\ ~p.semantic /\ ~p.bodyKept
  /\ \A t \in p.terms : \E e \in p.termEvidence : e.term = t
  /\ \A d \in DOMAIN p.dimensions :
       /\ p.dimensions[d].status = "not_observed" => p.dimensions[d].items = {}
       /\ p.dimensions[d].status = "source_attributed" => ~p.dimensions[d].narrated

Rejected == [status |-> "rejected"]

ReadArticle == profile = NoProfile /\ text = NoArticle /\ UNCHANGED profile
               /\ \E x \in ArticleTexts : text' = [title |-> x.title, genre |-> x.genre, body |-> x.body,
                                              sentences |-> Segmented(x.body)]
ProfileArticle ==
  /\ profile = NoProfile /\ text # NoArticle
  /\ profile' = IF text.body = << >> THEN Rejected ELSE IF Valid(ProfileMade) THEN ProfileMade ELSE Rejected
  /\ UNCHANGED text
ProfileNext == ReadArticle \/ ProfileArticle

----------------------------------------------------------------------------
(* Properties *)

ProfileTypeOK == profile.status \in {"none", "profiled", "rejected"}

\* An article with a text has a profile: the engine never refuses what it made itself.
AlwaysProfiled == profile.status = "rejected" => text.body = << >>

\* A quotation of the article, and one that no end of a sentence cuts
Quotations == {q \in (DOMAIN text.body) \X (DOMAIN text.body) :
  /\ Here(q[1], "open") /\ Here(q[2], "close") /\ q[1] < q[2]
  /\ \A j \in DOMAIN text.body : q[1] < j /\ j < q[2] => ~Here(j, "close")}
UncutQuotations ==
  LET ends == SentenceEnds(text.body)
  IN  {q \in Quotations : \A e \in ends : ~(q[1] <= e /\ e < q[2])}

\* A dimension is the outlet's own only by words in a sentence that gives them to nobody and
\* outside of every quotation that no end of a sentence cuts: a quotation kept in one
\* sentence, or words a named source is reported with, never make it so.
OwnWordsOnly == profile.status = "profiled" => \A d \in DOMAIN DimensionRules :
  profile.dimensions[d].status = "observed" =>
    \E n \in Sentences : ~Attributes(n) /\ \E i \in Piece(n) :
      /\ text.body[i].rules \cap DimensionRules[d] # {}
      /\ \A q \in UncutQuotations : ~(q[1] < i /\ i < q[2])

\* Who is said to hold a view indirectly is among the sources, under the same role and with
\* a sentence of his own, and no claim is made twice with one voice.
SourcesNamed == profile.status = "profiled" => \A d \in DOMAIN DimensionRules :
  /\ \A i \in profile.dimensions[d].items : i.kind = "indirect_source" =>
       \E a \in profile.actors : a.name = i.speaker /\ a.evidence # {} /\ a.indirect + a.direct > 0
  /\ \A i, j \in profile.dimensions[d].items : i.rule = j.rule /\ i.kind = j.kind => i = j

\* The sources' counts add up to the sentences that attribute, and the evidence shown for a
\* sign, but for an evaluative title, is of sentences that bear it.
CountsHold == profile.status = "profiled" =>
  /\ \A dev \in profile.devices : dev.code \in Devices => dev.evidence \subseteq Bearing(dev.code)
  /\ \A a \in profile.actors : a.direct + a.indirect = Cardinality(Mentions(a.name))
  /\ \A f \in profile.frames : f.evidence # {} /\ Cardinality(f.evidence) <= f.count
  /\ profile.scope = "episodic" => Bearing("episodic") # {}

ProfileSound == AlwaysProfiled /\ OwnWordsOnly /\ SourcesNamed /\ CountsHold
=============================================================================
