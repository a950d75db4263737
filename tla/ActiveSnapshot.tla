--------------------------- MODULE ActiveSnapshot ---------------------------
(***************************************************************************)
(* The published snapshot of five issues as the site reads it              *)
(* (site/lib/active-snapshot.ts, site/worker/initial-five-api.mjs): every  *)
(* request reads the pointer anew, and an envelope is served only if it is *)
(* whole and every comparison in it keeps the contract of                  *)
(* publication-contract.ts and evidence-integrity.ts.  The publisher       *)
(* leaves at the pointer what it likes, at any moment.                     *)
(***************************************************************************)
EXTENDS Naturals, FiniteSets, Sequences

CONSTANTS
  PieceOutlet,     \* the outlet of each article
  IssuesPublished, \* issues of a snapshot (5)
  MinPieces,       \* articles an issue must have (3)
  Envelopes,       \* bound: what may lie at the pointer
  DemoBundles,     \* the bundles built into the site
  PointerMoves     \* bound: times the pointer moves

\* What is read of a bundle, and of an envelope: its articles are known, the number it declares
\* is its own affair, its items are numbered, its comparison is finite
\* and its issues are in order.
BundleRead(b) ==
  /\ b.articles \subseteq DOMAIN PieceOutlet /\ b.count \in Nat /\ IsFiniteSet(b.synthesis.dimensions)
  /\ \A a \in b.articles : \A i \in b.profile[a].items : i.n \in Nat
  /\ \A d \in b.synthesis.dimensions : IsFiniteSet(d.points) /\ \A p \in d.points : p.says \in Nat
EnvelopeRead(v) ==
  /\ Len(v.issues) \in Nat /\ DOMAIN v.issues = 1 .. Len(v.issues)
  /\ \A i \in DOMAIN v.bundles : BundleRead(v.bundles[i])

ASSUME ActiveSnapshotAssumption ==
  /\ IssuesPublished \in Nat \ {0} /\ MinPieces \in Nat /\ PointerMoves \in Nat
  /\ PieceOutlet \in [DOMAIN PieceOutlet -> STRING] /\ IsFiniteSet(DOMAIN PieceOutlet)
  /\ (\A v \in Envelopes : EnvelopeRead(v)) /\ (\A b \in DemoBundles : BundleRead(b))

VARIABLES
  dataMode, \* AGENDAFRAME_DATA_MODE
  pointer,  \* the envelope at the url, or none when it cannot be read
  moves,    \* times the pointer moved
  page      \* a request and its answer
snapshotVars == <<dataMode, pointer, moves, page>>

DataModes == {"demo", "live", "offline_fixture"}
NoEnvelope == [id |-> 0]
IdlePage == [step |-> "rest", source |-> "none", status |-> "none", envelope |-> NoEnvelope]

SnapshotInit ==
  /\ dataMode \in DataModes /\ pointer = NoEnvelope /\ moves = 0 /\ page = IdlePage

----------------------------------------------------------------------------
(* evidence-integrity.ts and publication-contract.ts *)

Pieces == DOMAIN PieceOutlet
PieceOutlets(ps) == {PieceOutlet[a] : a \in ps}
DifferenceRelations == {"different_emphasis", "contradictory"}
SharedRelations == {"same_core", "same_core_with_detail"}
HeldStates == {"held_for_analysis", "analysis_failed"}

\* articleIntegrityReason: a profile of this article, this text and these versions, not blocked
Intact(b, a) == a \in b.articles /\ b.profile[a].faults = {}

\* sameAnchor: a sentence goes by its paragraph, its place there and its text; 0 is one not given
PlacedWhole(x) == x.hash # 0 /\ x.paragraph # 0 /\ x.sentence # 0
\* matchingProfileItems and the voice asked for; a mixed one, or none, is any
Voiced(asked, voice) == CASE asked \in {"none", "mixed"} -> TRUE
                          [] asked = "source_attributed" -> voice \in {"direct_quote", "indirect_source", "uncertain_quote"}
                          [] OTHER -> voice = asked
EvidenceValid(b, e, asked) ==
  /\ Intact(b, e.article) /\ PlacedWhole(e.anchor) /\ e.anchor \in b.profile[e.article].evidence
  /\ \E i \in b.profile[e.article].items :
       i.anchor = e.anchor /\ i.state = "supported" /\ Voiced(asked, i.voice)

\* pointEvidenceIsBound
PointBound(b, p) ==
  /\ p.declared # {} /\ p.declared \subseteq b.articles
  /\ p.named \subseteq PieceOutlets(p.declared)
  /\ \A e \in p.evidence : e.article \in p.declared /\ EvidenceValid(b, e, p.voice)
  /\ p.declared = {e.article : e \in p.evidence}

NarratedDimensions(dims, relations) ==
  {d \in dims : LET as == UNION {p.declared : p \in {q \in d.points :
                             q.relation \in relations /\ q.voice = "journalist_narration"}}
                IN Cardinality(as) >= 2 /\ Cardinality(PieceOutlets(as)) >= 2}
\* Fault: two articles are enough, of one outlet or of two.
TwoArticles(dims, relations) ==
  \E d \in dims : Cardinality(UNION {p.declared : p \in {q \in d.points :
                    q.relation \in relations /\ q.voice = "journalist_narration"}}) >= 2
CrossOutlet(dims, relations) == NarratedDimensions(dims, relations) # {}

\* isPublishableEventSynthesis
Publishable(b) ==
  LET s == b.synthesis IN
  /\ s.direct /\ s.run = b.run /\ s.status \in {"difference_confirmed", "no_clear_difference"} \cup HeldStates
  /\ s.analyzed \subseteq b.articles /\ s.outlets = Cardinality(PieceOutlets(s.analyzed))
  /\ \A d \in s.dimensions : /\ \A p \in d.points : p.evidence # {} /\ PointBound(b, p)
                             /\ d.status \in HeldStates => d.points = {}
  /\ s.status = "difference_confirmed" =>
       \E d \in s.dimensions : d.status = "difference_confirmed" /\ CrossOutlet({d}, DifferenceRelations)
  /\ s.status = "no_clear_difference" =>
       /\ \E d \in s.dimensions : d.status = "no_clear_difference" /\ CrossOutlet({d}, SharedRelations)
       /\ ~CrossOutlet(s.dimensions, DifferenceRelations)

----------------------------------------------------------------------------
(* active-snapshot.ts *)

\* validateEnvelope: the gate, the identity, and the bundles of the issues listed
WholeEnvelope(v) ==
  /\ v.clean /\ v.gate /\ v.manifestId = v.id
  /\ Len(v.issues) = IssuesPublished
  /\ \A i, j \in DOMAIN v.issues : i # j => v.issues[i].issue # v.issues[j].issue
  /\ DOMAIN v.bundles = {v.issues[i].issue : i \in DOMAIN v.issues}
  /\ \A i \in DOMAIN v.bundles : v.bundles[i].issue = i

\* assertLivePublishable, with the one replay an operator has let through
LivePublishable(v) ==
  \A i \in DOMAIN v.issues :
    LET b == v.bundles[v.issues[i].issue] IN
    \/ v.replay
    \/ /\ v.issues[i].articles >= MinPieces /\ v.issues[i].outlets >= 2
       /\ Cardinality(b.articles) >= MinPieces /\ Cardinality(PieceOutlets(b.articles)) >= 2
       /\ ~b.titleFallback /\ Publishable(b)

\* readLiveActiveSnapshot: the pointer as it is at this moment, checked again each time
ReadPointer ==
  IF pointer # NoEnvelope /\ WholeEnvelope(pointer) /\ LivePublishable(pointer)
  THEN [step |-> "served", source |-> "pointer", status |-> "published", envelope |-> pointer]
  ELSE [IdlePage EXCEPT !.step = "failed"]
DemoPage(status) == [step |-> "served", source |-> "demo", envelope |-> NoEnvelope, status |-> status]
\* defaultDemoPublicationStatus
DemoStatus == IF \A b \in DemoBundles : Publishable(b) THEN "published" ELSE "pending"

\* resolveActiveSnapshot: one snapshot for a whole rendering
LoadPage ==
  /\ page.step = "rest"
  /\ page' = CASE dataMode = "live" -> ReadPointer
               [] dataMode = "offline_fixture" ->
                   IF pointer # NoEnvelope /\ WholeEnvelope(pointer)
                   THEN [step |-> "served", source |-> "file", status |-> "published", envelope |-> pointer]
                   ELSE [IdlePage EXCEPT !.step = "failed"]
               [] OTHER -> DemoPage(DemoStatus)
  /\ UNCHANGED <<dataMode, pointer, moves>>

\* loadPublication of the read API: any failure is a 503; the saved file is not known to it
LoadApi ==
  /\ page.step = "rest"
  /\ page' = IF dataMode = "live" THEN ReadPointer ELSE DemoPage("none")
  /\ UNCHANGED <<dataMode, pointer, moves>>

ClosePage ==
  /\ page.step \in {"served", "failed"} /\ page' = IdlePage
  /\ UNCHANGED <<dataMode, pointer, moves>>

\* The publisher moves the pointer, or it cannot be reached; without a use for it it is left alone.
MovePointer ==
  /\ dataMode # "demo" /\ moves < PointerMoves /\ moves' = moves + 1
  /\ pointer' \in Envelopes \cup {NoEnvelope}
  /\ UNCHANGED <<dataMode, page>>

SnapshotNext == LoadPage \/ LoadApi \/ ClosePage \/ MovePointer

----------------------------------------------------------------------------

SnapshotTypeOK ==
  /\ dataMode \in DataModes /\ moves \in 0 .. PointerMoves
  /\ page.step \in {"rest", "served", "failed"}
  /\ page.source \in {"none", "pointer", "file", "demo"}
  /\ page.status \in {"none", "published", "pending"}

\* What a reader is told differs between outlets, each in its own words.
TrulyNarrated(b, a) == Intact(b, a) /\ \E i \in b.profile[a].items :
                         i.voice = "journalist_narration" /\ i.state = "supported" /\ i.anchor \in b.profile[a].evidence

\* A difference shown as confirmed in a live snapshot rests on articles of two outlets,
\* each with a valid profile that found the sentence cited, in the newspaper's own voice;
\* no difference is denied that the same snapshot shows.
DifferenceFounded(b) ==
  LET ds == {d \in b.synthesis.dimensions : \E p, q \in d.points : \E x \in p.declared, y \in q.declared :
               /\ {p.relation, q.relation} \subseteq DifferenceRelations
               /\ p.voice = "journalist_narration" /\ q.voice = "journalist_narration"
               /\ PieceOutlet[x] # PieceOutlet[y] /\ TrulyNarrated(b, x) /\ TrulyNarrated(b, y)}
  IN CASE b.synthesis.status = "difference_confirmed" -> ds # {}
       [] b.synthesis.status = "no_clear_difference" -> ds = {}
       [] OTHER -> TRUE

(* What the site shows as published in live mode is a whole snapshot: the  *)
(* issues it lists are distinct and each opens to its own bundle, and what *)
(* a comparison confirms or denies is founded, whatever the publisher left *)
(* at the pointer; without such a snapshot it shows nothing, never the     *)
(* built-in demo (resolveActiveSnapshot of site/lib/active-snapshot.ts).   *)
SnapshotFaithful ==
  page.step = "served" /\ dataMode = "live" =>
    LET v == page.envelope IN
    /\ page.source = "pointer"
    /\ \A i \in DOMAIN v.issues : v.bundles[v.issues[i].issue].issue = v.issues[i].issue
    /\ Cardinality({v.issues[i].issue : i \in DOMAIN v.issues}) = IssuesPublished
    /\ v.replay \/ \A i \in DOMAIN v.bundles : DifferenceFounded(v.bundles[i])
=============================================================================
