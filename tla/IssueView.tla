----------------------------- MODULE IssueView ------------------------------
(***************************************************************************)
(* From the profiles of a published issue to what its pages say            *)
(* (site/lib/initial-five/derive.ts and the report page): claims are       *)
(* folded from rows, an article's and an outlet's leading families are     *)
(* taken, with and without what sources say, and from these the clusters,  *)
(* the axes, the layers and the sentences of the report are derived, each  *)
(* by a computation of its own.                                            *)
(***************************************************************************)
EXTENDS Naturals, FiniteSets, Sequences

CONSTANTS
  Writings,      \* articles, in their order
  WriterOf,      \* the outlet of each article
  IssueWritings, \* the articles of each issue
  LayerCount,    \* layers of a frame (5)
  Codings        \* bound: what the file of one article may hold

FrameLayers == 1 .. LayerCount
\* What is read of a file: for every layer its rows, each of one of the nine families.
CodingRead(c) ==
  \A d \in FrameLayers : /\ Len(c.rows[d]) \in Nat /\ DOMAIN c.rows[d] = 1 .. Len(c.rows[d])
                         /\ \A k \in DOMAIN c.rows[d] : c.rows[d][k].family \in 1 .. 9

ASSUME IssueViewAssumption ==
  /\ Writings \subseteq Nat \ {0} /\ IsFiniteSet(Writings) /\ LayerCount \in Nat \ {0}
  /\ DOMAIN WriterOf = Writings /\ \A i \in DOMAIN IssueWritings : IssueWritings[i] \subseteq Writings
  /\ (\A c \in Codings : CodingRead(c)) /\ (\E c \in Codings : c.status = "absent")

VARIABLES
  coded,  \* the file of each article: its states and, by layer, its rows
  dayView \* what the pages show of it, or nothing
viewVars == <<coded, dayView>>

NoDayView == << >>
Earliest(S) == CHOOSE i \in S : \A j \in S : i <= j

----------------------------------------------------------------------------
(* One article *)

\* usableSemanticEntry: succeeded, and no state of it says otherwise
Usable(a) == coded[a].status = "succeeded" /\ ~coded[a].blocked
CodedRows(a, d) == IF Usable(a) THEN coded[a].rows[d] ELSE << >>

\* claimItems: the rows of a claim are one item, with the first row's data
FoldClaims(rows) == {k \in DOMAIN rows : \A j \in 1 .. k - 1 : rows[j].claim # rows[k].claim}
\* articleViews: an item without public evidence does not count
Items(a, d) == {k \in FoldClaims(CodedRows(a, d)) : CodedRows(a, d)[k].bound}
\* Fault: what a source says is taken for the newspaper's own.
AnyVoice(a, d) == Items(a, d)
OwnItems(a, d) == {k \in Items(a, d) : CodedRows(a, d)[k].voice = "journalist_narration"}
FamilyOf(a, d, ks) == IF ks = {} THEN 0 ELSE CodedRows(a, d)[Earliest(ks)].family
Family(basis, a, d) == FamilyOf(a, d, IF basis = "narrated" THEN OwnItems(a, d) ELSE Items(a, d))

----------------------------------------------------------------------------
(* One outlet *)

Writers(i) == {WriterOf[a] : a \in IssueWritings[i]}
ByWriter(i, o) == {a \in IssueWritings[i] : WriterOf[a] = o}

\* the families something is of, and what is of one
Occurring(family) == {family[k] : k \in DOMAIN family} \ {0}
Carrying(family, f) == {k \in DOMAIN family : family[k] = f}
\* the most frequent of some families, of equals the first in the alphabet
MostFrequent(family, fs) ==
  CHOOSE f \in fs : \A g \in fs :
    \/ Cardinality(Carrying(family, f)) > Cardinality(Carrying(family, g))
    \/ Cardinality(Carrying(family, f)) = Cardinality(Carrying(family, g)) /\ f <= g
ModeFamily(family) == IF Occurring(family) = {} THEN 0 ELSE MostFrequent(family, Occurring(family))
\* outletViews: lead and leadNarrated
Lead(basis, i, o, d) == ModeFamily([a \in ByWriter(i, o) |-> Family(basis, a, d)])
LeadKinds(basis, i, d) == {Lead(basis, i, o, d) : o \in Writers(i)} \ {0}

----------------------------------------------------------------------------
(* The axis of a layer *)

FamilyIn(i, d) == [a \in IssueWritings[i] |-> Family("all", a, d)]
\* the words of a pole: of the first file with a claim of the family, usable or not
PoleText(i, d, f) ==
  LET with == {a \in IssueWritings[i] : \E k \in FoldClaims(coded[a].rows[d]) : coded[a].rows[d][k].family = f}
  IN IF with = {} THEN 0 ELSE Earliest(with)

OwnWriters(i, d) == {WriterOf[a] : a \in {b \in IssueWritings[i] : OwnItems(b, d) # {}}}

Axis(i, d, family, left, right) ==
  LET Own(o, f) == Cardinality(Carrying(family, f) \cap ByWriter(i, o))
      marked == {o \in Writers(i) : Own(o, left) + Own(o, right) > 0}
  IN [layer |-> d, left |-> Carrying(family, left), right |-> Carrying(family, right),
      texts |-> <<PoleText(i, d, left), PoleText(i, d, right)>>,
      marks |-> {[outlet |-> o, left |-> Own(o, left), right |-> Own(o, right), narrated |-> o \in OwnWriters(i, d)] :
                   o \in marked},
      unobserved |-> Writers(i) \ marked]
\* spectrum: the two largest families, if there are two
Spectrum(i, d) ==
  LET family == FamilyIn(i, d)
      left   == MostFrequent(family, Occurring(family))
      right  == MostFrequent(family, Occurring(family) \ {left})
  IN IF Cardinality(Occurring(family)) < 2 THEN {} ELSE {Axis(i, d, family, left, right)}

----------------------------------------------------------------------------
(* The layers and the clusters *)

\* layerViews: sorted by the state of the layer, evidence or not
LayerItems(i, d, state) ==
  UNION {{<<a, k>> : k \in FoldClaims(CodedRows(a, d))} :
           a \in {b \in IssueWritings[i] : Usable(b) /\ coded[b].node[d] # "not_observed"
                                           /\ (coded[b].node[d] = "source_attributed") = (state = "attributed")}}
LayerLead(items, o, d) == ModeFamily([x \in {y \in items : WriterOf[y[1]] = o} |-> CodedRows(x[1], d)[x[2]].family])
LayerKinds(i, items, d) == {LayerLead(items, o, d) : o \in Writers(i)} \ {0}
Layer(i, d) ==
  [narrated |-> LayerItems(i, d, "narrated"), attributed |-> LayerItems(i, d, "attributed"),
   notObserved |-> Cardinality({a \in IssueWritings[i] : coded[a].status # "absent" /\
                     (~Usable(a) \/ coded[a].node[d] = "not_observed" \/ CodedRows(a, d) = << >>)}),
   kinds |-> LayerKinds(i, LayerItems(i, d, "narrated"), d)]

\* frameClusters: the articles of one combination; a layer without evidence is no difference
Signature(basis, a) == [d \in FrameLayers |-> Family(basis, a, d)]
SigObserved(sig) == \E d \in FrameLayers : sig[d] # 0
SigLess(s, t) == \E d \in FrameLayers : s[d] < t[d] /\ \A c \in 1 .. d - 1 : s[c] = t[c]
\* the combination of most articles, of equals the first in the order of the key
BaseOf(sigs, sig) ==
  CHOOSE s \in sigs : \A t \in sigs \ {s} :
    \/ Cardinality(Carrying(sig, s)) > Cardinality(Carrying(sig, t))
    \/ Cardinality(Carrying(sig, s)) = Cardinality(Carrying(sig, t)) /\ SigLess(s, t)
Combine(sig) ==
  LET sigs == {s \in {sig[a] : a \in DOMAIN sig} : SigObserved(s)}
      base == BaseOf(sigs, sig)
  IN {[articles |-> Carrying(sig, s), signature |-> s, base |-> s = base,
       differsAt |-> {d \in FrameLayers : s[d] # 0 /\ base[d] # 0 /\ s[d] # base[d]},
       partialAt |-> {d \in FrameLayers : (s[d] = 0) # (base[d] = 0)}] : s \in sigs}
Combinations(basis, i) == Combine([a \in IssueWritings[i] |-> Signature(basis, a)])

----------------------------------------------------------------------------
(* One issue, the day and the report *)

Total(counts) == Cardinality(UNION {{<<a, k>> : k \in 1 .. counts[a]} : a \in DOMAIN counts})
\* dimensionBasis of deriveIssue
Basis(i, d) ==
  [narratedItems |-> Total([a \in IssueWritings[i] |-> Cardinality(OwnItems(a, d))]),
   attributedItems |-> Total([a \in IssueWritings[i] |-> Cardinality(Items(a, d) \ OwnItems(a, d))]),
   narratedKinds |-> Cardinality(LeadKinds("narrated", i, d)), allKinds |-> Cardinality(LeadKinds("all", i, d))]

\* mostSplit: the first layer with the most kinds, if these are two
MostSplit(i) ==
  LET kinds(d) == Cardinality(LeadKinds("narrated", i, d))
      top == {d \in FrameLayers : kinds(d) >= 2 /\ \A e \in FrameLayers : kinds(e) <= kinds(d)}
  IN IF top = {} THEN 0 ELSE Earliest(top)

deriveIssue(i) ==
  [basis |-> [d \in FrameLayers |-> Basis(i, d)], mostSplit |-> MostSplit(i),
   splitDimensions |-> Cardinality({d \in FrameLayers : Basis(i, d).narratedKinds >= 2}),
   spectra |-> UNION {Spectrum(i, d) : d \in FrameLayers},
   layers |-> [d \in FrameLayers |-> Layer(i, d)],
   clusters |-> Combinations("all", i), narrated |-> Combinations("narrated", i)]

\* ReportPage: what the newspapers share, where they differ, what only sources say
Report(v) ==
  LET flat == {d \in FrameLayers : v.basis[d].narratedKinds = 1}
  IN [split |-> {d \in FrameLayers : v.basis[d].narratedKinds >= 2}, shared |-> flat,
      voiceless |-> {d \in FrameLayers : v.basis[d].narratedItems = 0 /\ v.basis[d].attributedItems > 0}]

\* deriveDay: in how many issues a layer divides the outlets
deriveDay ==
  LET vs == [i \in DOMAIN IssueWritings |-> deriveIssue(i)]
  IN [issues |-> vs, reports |-> [i \in DOMAIN vs |-> Report(vs[i])],
      split |-> [d \in FrameLayers |-> Cardinality({i \in DOMAIN vs : Cardinality(LeadKinds("narrated", i, d)) >= 2})],
      splitWithSources |-> [d \in FrameLayers |-> Cardinality({i \in DOMAIN vs : Cardinality(LeadKinds("all", i, d)) >= 2})],
      outlets |-> [o \in {WriterOf[a] : a \in Writings} |->
                    [articles |-> Total([i \in DOMAIN vs |-> Cardinality(ByWriter(i, o))]),
                     issues |-> Cardinality({i \in DOMAIN vs : o \in Writers(i)})]]]

ViewInit == coded \in [Writings -> {CHOOSE c \in Codings : c.status = "absent"}] /\ dayView = NoDayView

\* The publisher's next snapshot has another profile of an article.
Recode(a) ==
  /\ dayView = NoDayView
  /\ \E c \in Codings : coded' = [coded EXCEPT ![a] = c]
  /\ UNCHANGED dayView

RenderDay == dayView = NoDayView /\ dayView' = deriveDay /\ UNCHANGED coded
LeaveDay  == dayView # NoDayView /\ dayView' = NoDayView /\ UNCHANGED coded

ViewNext == (\E a \in Writings : Recode(a)) \/ RenderDay \/ LeaveDay
ViewSpec == ViewInit /\ [][ViewNext]_viewVars

----------------------------------------------------------------------------

ViewTypeOK == coded \in [Writings -> Codings] /\ (dayView # NoDayView => DOMAIN dayView.issues = DOMAIN IssueWritings)

\* A sentence of the file: usable, with evidence, and said by the newspaper itself or by anyone.
SaidIn(a, d, f, own) ==
  /\ coded[a].status = "succeeded" /\ ~coded[a].blocked
  /\ \E k \in DOMAIN coded[a].rows[d] : LET r == coded[a].rows[d][k] IN
       r.bound /\ r.family = f /\ (own => r.voice = "journalist_narration")

(* What the pages say of an issue is said in the files and agrees from one *)
(* page to the next: a layer called split rests on two outlets' own words; *)
(* an axis has two sides without a common article, and every outlet is     *)
(* placed on it or called unobserved; the combinations divide the articles *)
(* that have evidence, and a layer nobody saw is no difference; the home   *)
(* page counts the issues whose report calls the layer split (derive.ts).  *)
ViewsAgree ==
  dayView # NoDayView =>
    /\ \A i \in DOMAIN dayView.issues :
         LET v == dayView.issues[i] IN
         /\ \A d \in dayView.reports[i].split \cup ({v.mostSplit} \ {0}) :
              \E a, b \in IssueWritings[i] : \E f, g \in 1 .. 9 :
                WriterOf[a] # WriterOf[b] /\ f # g /\ SaidIn(a, d, f, TRUE) /\ SaidIn(b, d, g, TRUE)
         /\ \A s \in v.spectra :
              /\ s.left \cap s.right = {} /\ s.right # {}
              /\ \A o \in {WriterOf[a] : a \in s.left \cup s.right} :
                   o \notin s.unobserved /\ \E m \in s.marks : m.outlet = o
              /\ \A m \in s.marks : m.narrated => \E a \in ByWriter(i, m.outlet) : \E f \in 1 .. 9 : SaidIn(a, s.layer, f, TRUE)
         /\ \A a \in IssueWritings[i] :
              Cardinality({c \in v.clusters : a \in c.articles}) =
                IF \E d \in FrameLayers : Items(a, d) # {} THEN 1 ELSE 0
         /\ \A c \in v.clusters \cup v.narrated : c.differsAt \cap c.partialAt = {}
              /\ \A d \in c.differsAt : \A a \in c.articles : SaidIn(a, d, c.signature[d], c \in v.narrated \ v.clusters)
         /\ v.splitDimensions = Cardinality(dayView.reports[i].split)
         /\ dayView.reports[i].split \cap (dayView.reports[i].shared \cup dayView.reports[i].voiceless) = {}
    /\ \A d \in FrameLayers :
         dayView.split[d] = Cardinality({i \in DOMAIN dayView.issues : d \in dayView.reports[i].split})

(* Where the report says that the outlets of an issue all explain a layer  *)
(* in one family, each of them does, in its own words: an outlet with no   *)
(* observed explanation has not agreed (docs/feedback/                     *)
(* 2026-08-05-framing-method.md:74).                                       *)
SharedByAll ==
  dayView # NoDayView =>
    \A i \in DOMAIN dayView.issues : \A d \in dayView.reports[i].shared : \A o \in Writers(i) :
      \E a \in ByWriter(i, o) : \E f \in 1 .. 9 : SaidIn(a, d, f, TRUE)
=============================================================================
