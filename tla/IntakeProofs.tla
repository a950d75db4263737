---------------------------- MODULE IntakeProofs ----------------------------
(***************************************************************************)
(* Lemmas about what reaches the tables from outside, for all values of    *)
(* the constants: Imports (requests, articles, times, the size of a        *)
(* batch), AuthorizedContent (texts, uploads, hours and rights) and        *)
(* AdminConsole (files, periods, pages, presses).  Each part ends in the   *)
(* inductive invariant of its component and in what it implies;            *)
(* SiteProofs puts them together.                                          *)
(***************************************************************************)
EXTENDS Imports, AuthorizedContent, AdminConsole,
        FiniteSetTheorems, WellFoundedInduction, TLAPS

\* Every set of numbers that is not empty has a least one.
LEMMA LeastOf ==
  ASSUME NEW T \in SUBSET Nat, T # {}
  PROVE  \E x \in T : \A y \in T : x <= y
<1> DEFINE below == {0 .. t : t \in T}
<1>1. below # {} /\ below \subseteq FiniteSubsetsOf(Nat)
  <2>1. \A t \in T : 0 .. t \in SUBSET Nat /\ IsFiniteSet(0 .. t)
    BY FS_Interval
  <2>. QED
    BY <2>1 DEF FiniteSubsetsOf
<1>2. IsWellFoundedOn(StrictSubsetOrdering(Nat), FiniteSubsetsOf(Nat))
  BY FS_StrictSubsetOrderingWellFounded
<1>3. PICK b \in below : \A d \in below : ~(<<d, b>> \in StrictSubsetOrdering(Nat))
  <2> HIDE DEF below
  <2>. QED
    BY <1>1, <1>2, WFMin
<1>4. PICK x \in T : b = 0 .. x
  BY <1>3
<1>5. ASSUME NEW y \in T, y < x PROVE FALSE
  <2>1. 0 .. y \subseteq 0 .. x /\ 0 .. y # 0 .. x /\ 0 .. y \in SUBSET Nat /\ 0 .. x \in SUBSET Nat
    BY <1>5
  <2>2. <<0 .. y, 0 .. x>> \in StrictSubsetOrdering(Nat)
    BY <2>1 DEF StrictSubsetOrdering
  <2>. QED
    BY <1>3, <1>4, <2>2
<1>. QED
  BY <1>5

----------------------------------------------------------------------------
(* Imports: the calls in flight *)

Saving(c) == call[c].step = "save"
FourSteps == {"articles", "link", "result"}

\* The statements of the analyses come in twos: the frames, then the profile of one article.
TwoByTwo(todo) ==
  /\ Len(todo) % 2 = 0
  /\ \A i \in 1 .. Len(todo) :
       /\ i % 2 = 1 => todo[i][1] = "signals" /\ todo[i + 1] = <<"profile", todo[i][2]>>
       /\ i % 2 = 0 => todo[i][1] = "profile" /\ todo[i - 1] = <<"signals", todo[i][2]>>

\* A call is at a step of its kind, with the statements of that step.
CallSane(c) ==
  /\ call[c].step = "idle" => call[c].kind = "import"
  /\ call[c].step \in FourSteps \cup {"run", "record"} => call[c].kind \in ImportKinds
  /\ call[c].step \in {"observe", "place"} => call[c].kind = "observe"
  /\ call[c].step = "discover" => call[c].kind = "discover"
  /\ Saving(c) => call[c].kind \in {"structured", "analyzed", "transient"}
  /\ call[c].step # "idle" => call[c].no \in 1 .. calls
  /\ call[c].step = "observe" => call[c].at \in Times
  /\ call[c].bad \subseteq call[c].urls /\ IsFiniteSet(call[c].urls)
  /\ call[c].step \in {"link", "observe", "place", "discover"} => Range(call[c].todo) \subseteq {"profile"} \X call[c].urls
  /\ Saving(c) /\ call[c].kind # "analyzed" => TwoByTwo(call[c].todo)
CallsSane == \A c \in Callers : CallSane(c)

OwnNumbers == \A c, d \in Callers :
  call[c].step # "idle" /\ call[d].step # "idle" /\ call[c].no = call[d].no => c = d

\* The run row of an import that is under way says so.
RunsKnown ==
  /\ \A c \in Callers :
       /\ call[c].step = "run" => runRow[call[c].no].status = "none"
       /\ call[c].step \in FourSteps => runRow[call[c].no] = [urls |-> call[c].urls, status |-> "running"]
       /\ call[c].step = "record" => runRow[call[c].no].status \in {"none", "running"}
  /\ \A n \in 1 .. ImportCalls : n > calls => runRow[n].status = "none"

\* An import that links has the articles, and the links it still owes are before it.
Owed(c, u) == <<"profile", u>> \in Range(call[c].todo)
LinksOwed ==
  \A c \in Callers : call[c].step \in {"link", "result"} =>
    /\ \A u \in call[c].urls : Known(u)
    /\ \A o \in observed : ~o.linked /\ o.url \in call[c].urls => call[c].step = "link" /\ Owed(c, o.url)

\* Nothing is shown of an article that is not known.
UnknownBare ==
  /\ \A u \in Urls : ~Known(u) => article[u].place = 0
  /\ \A o \in observed : o.linked => Known(o.url)

\* The observation of u that c brings has not been placed yet.
ToPlace(c, u) ==
  /\ call[c].kind = "observe" /\ u \in call[c].urls
  /\ call[c].step = "observe" \/ Owed(c, u)
PlacesOwed == \A u \in Urls :
  \/ ~Known(u) \/ u \in loose \/ article[u].place = LatestPlace(u)
  \/ \E c \in Callers : ToPlace(c, u)

\* An analysis that stands where a request will mark a failure was written after its choice.
OvertakenKnown == \A c \in Callers : \A u \in call[c].bad :
  Saving(c) /\ call[c].kind = "transient" /\ Profile("public", u).status = "analyzed" => <<c, u>> \in overtaken

ImportsInv ==
  /\ ImportsTypeOK /\ CallsSane /\ OwnNumbers /\ RunsKnown /\ LinksOwed /\ LinkedWhenKnown
  /\ UnknownBare /\ PlacesOwed /\ SameText /\ OvertakenKnown

\* The lesser of two numbers
LEMMA MinOfTwo ==
  ASSUME NEW m \in Nat, NEW n \in Nat
  PROVE  Min({m, n}) = IF m <= n THEN m ELSE n
<1> DEFINE least == IF m <= n THEN m ELSE n
<1>1. least \in {m, n} /\ \A y \in {m, n} : least <= y
  OBVIOUS
<1>2. \A x \in {m, n} : (\A y \in {m, n} : x <= y) => x = least
  OBVIOUS
<1>. QED
  BY <1>1, <1>2 DEF Min

\* A sequence is its first batch and what remains.
LEMMA BatchOfSeq ==
  ASSUME NEW S, NEW s \in Seq(S), NEW n \in Nat \ {0}
  PROVE  LET first == SubSeq(s, 1, Min({n, Len(s)}))
             rest  == SubSeq(s, n + 1, Len(s))
         IN  /\ first \in Seq(S) /\ rest \in Seq(S)
             /\ Len(first) = IF n <= Len(s) THEN n ELSE Len(s)
             /\ \A i \in 1 .. Len(first) : first[i] = s[i]
             /\ Len(rest) = IF n <= Len(s) THEN Len(s) - n ELSE 0
             /\ \A i \in 1 .. Len(rest) : rest[i] = s[n + i]
             /\ Range(s) = Range(first) \cup Range(rest)
             /\ rest = << >> => Range(s) = Range(first)
<1> DEFINE m == Min({n, Len(s)})
           first == SubSeq(s, 1, m)
           rest  == SubSeq(s, n + 1, Len(s))
<1>1. Len(s) \in Nat /\ m = IF n <= Len(s) THEN n ELSE Len(s)
  BY MinOfTwo
<1> HIDE DEF m
<1>2. /\ first \in Seq(S) /\ Len(first) = m /\ \A i \in 1 .. m : first[i] = s[i]
  BY <1>1
<1>3. /\ rest \in Seq(S) /\ Len(rest) = IF n <= Len(s) THEN Len(s) - n ELSE 0
      /\ \A i \in 1 .. Len(rest) : rest[i] = s[n + i]
  <2>1. CASE n <= Len(s)
    BY <1>1, <2>1
  <2>2. CASE ~(n <= Len(s))
    <3>1. rest = << >>
      BY <1>1, <2>2
    <3>. QED
      BY <2>2, <3>1
  <2>. QED
    BY <2>1, <2>2
<1> HIDE DEF first, rest
<1>4. /\ DOMAIN s = 1 .. Len(s) /\ DOMAIN first = 1 .. Len(first) /\ DOMAIN rest = 1 .. Len(rest)
  BY <1>2, <1>3
<1>5. Range(s) = Range(first) \cup Range(rest)
  <2>1. ASSUME NEW i \in DOMAIN s PROVE s[i] \in Range(first) \cup Range(rest)
    <3>. i \in 1 .. Len(s) /\ Len(s) \in Nat /\ m \in Nat
      BY <1>1, <1>4, <2>1
    <3>1. CASE i <= m
      <4>1. i \in DOMAIN first /\ first[i] = s[i]
        BY <1>2, <1>4, <3>1
      <4>. QED
        BY <4>1 DEF Range
    <3>2. CASE i > m
      <4>1. n <= Len(s) /\ m = n
        BY <1>1, <3>2
      <4>2. Len(rest) = Len(s) - n
        BY <1>3, <4>1
      <4>3. i - n \in 1 .. Len(rest)
        BY <3>2, <4>1, <4>2
      <4>4. n + (i - n) = i
        OBVIOUS
      <4>5. s[i] = rest[i - n]
        BY <1>3, <4>3, <4>4
      <4>. QED
        BY <1>4, <4>3, <4>5 DEF Range
    <3>. QED
      BY <3>1, <3>2
  <2>2. ASSUME NEW i \in DOMAIN first PROVE first[i] \in Range(s)
    <3>1. m <= Len(s) /\ m \in Nat /\ Len(s) \in Nat
      BY <1>1
    <3>a. i \in 1 .. m
      BY <1>2, <1>4, <2>2
    <3>2. i \in DOMAIN s /\ first[i] = s[i]
      BY <1>2, <1>4, <3>1, <3>a
    <3>. QED
      BY <3>2 DEF Range
  <2>3. ASSUME NEW i \in DOMAIN rest PROVE rest[i] \in Range(s)
    <3>1. n + i \in DOMAIN s
      <4>1. i \in 1 .. Len(rest)
        BY <1>4, <2>3
      <4>2. n <= Len(s) /\ Len(rest) = Len(s) - n
        BY <1>1, <1>3, <4>1
      <4>. QED
        BY <1>1, <1>4, <4>1, <4>2
    <3>. QED
      BY <1>3, <1>4, <3>1 DEF Range
  <2>. QED
    BY <2>1, <2>2, <2>3 DEF Range
<1>6. rest = << >> => Range(rest) = {}
  BY DEF Range
<1>. QED
  BY <1>1, <1>2, <1>3, <1>5, <1>6 DEF first, rest, m

\* SetToSeq runs through a finite set.
LEMMA SetAsSeq ==
  ASSUME NEW S, IsFiniteSet(S)
  PROVE  /\ SetToSeq(S) \in Seq(S) /\ Range(SetToSeq(S)) = S
         /\ Len(SetToSeq(S)) \in Nat /\ DOMAIN SetToSeq(S) = 1 .. Len(SetToSeq(S))
<1>1. Cardinality(S) \in Nat /\ ExistsBijection(1 .. Cardinality(S), S)
  BY FS_CardinalityType
<1>2. PICK g : g \in [1 .. Cardinality(S) -> S] /\ IsInjective(g)
  BY <1>1 DEF ExistsBijection, Bijection, Injection
<1>3. SetToSeq(S) \in [1 .. Cardinality(S) -> S] /\ IsInjective(SetToSeq(S))
  BY <1>2 DEF SetToSeq
<1> DEFINE f == SetToSeq(S)
           n == Cardinality(S)
<1> HIDE DEF f, n
<1>4. f \in Injection(1 .. n, S) /\ n \in Nat
  BY <1>1, <1>3 DEF Injection, f, n
<1>5. IsFiniteSet(1 .. n) /\ Cardinality(1 .. n) = n
  BY <1>4, FS_Interval
<1>6. f \in Surjection(1 .. n, S)
  BY <1>4, <1>5, FS_Injection DEF n
<1>7. f \in [1 .. n -> S] /\ \A x \in S : \E i \in 1 .. n : f[i] = x
  BY <1>6 DEF Surjection
<1>8. f \in Seq(S) /\ Len(f) = n /\ DOMAIN f = 1 .. n /\ Range(f) = S
  BY <1>4, <1>7 DEF Range
<1>. QED
  BY <1>4, <1>8 DEF f

\* One statement for each article
LEMMA PerUrlSeq ==
  ASSUME NEW us, us \subseteq Urls, IsFiniteSet(us)
  PROVE  PerUrl(us) \in Seq(Tables \X Urls) /\ Range(PerUrl(us)) = {"profile"} \X us
<1> DEFINE s == SetToSeq(us)
<1>1. s \in Seq(us) /\ Range(s) = us /\ Len(s) \in Nat /\ DOMAIN s = 1 .. Len(s)
  BY SetAsSeq
<1>2. PerUrl(us) = [i \in DOMAIN s |-> <<"profile", s[i]>>]
  BY DEF PerUrl
<1> HIDE DEF s
<1>3. PerUrl(us) \in Seq(Tables \X Urls) /\ DOMAIN PerUrl(us) = 1 .. Len(s)
  BY <1>1, <1>2 DEF Tables
<1>4. Range(PerUrl(us)) = {<<"profile", s[i]>> : i \in 1 .. Len(s)}
  BY <1>1, <1>2 DEF Range
<1>. QED
  BY <1>1, <1>3, <1>4 DEF Range

\* The two tables of one article next to each other
LEMMA PairedSeq ==
  ASSUME NEW us, us \subseteq Urls, IsFiniteSet(us)
  PROVE  Paired(us) \in Seq(Tables \X Urls) /\ TwoByTwo(Paired(us))
<1> DEFINE s == SetToSeq(us)
<1>1. s \in Seq(us) /\ Len(s) \in Nat /\ DOMAIN s = 1 .. Len(s)
  BY SetAsSeq
<1>2. Paired(us) = [i \in 1 .. 2 * Len(s) |-> <<IF i % 2 = 1 THEN "signals" ELSE "profile", s[(i + 1) \div 2]>>]
  BY DEF Paired
<1> HIDE DEF s
<1>3. \A i \in 1 .. 2 * Len(s) : (i + 1) \div 2 \in 1 .. Len(s) /\ s[(i + 1) \div 2] \in us
  BY <1>1
<1>4. Paired(us) \in Seq(Tables \X Urls) /\ Len(Paired(us)) = 2 * Len(s)
  BY <1>1, <1>2, <1>3 DEF Tables
<1>5. (2 * Len(s)) % 2 = 0
  BY <1>1
<1>6. ASSUME NEW i \in 1 .. 2 * Len(s), i % 2 = 1
      PROVE  Paired(us)[i][1] = "signals" /\ Paired(us)[i + 1] = <<"profile", Paired(us)[i][2]>>
  <2>1. i + 1 \in 1 .. 2 * Len(s) /\ (i + 1) % 2 = 0 /\ (i + 2) \div 2 = (i + 1) \div 2
    BY <1>1, <1>6
  <2>. QED
    BY <1>2, <1>6, <2>1
<1>7. ASSUME NEW i \in 1 .. 2 * Len(s), i % 2 = 0
      PROVE  Paired(us)[i][1] = "profile" /\ Paired(us)[i - 1] = <<"signals", Paired(us)[i][2]>>
  <2>1. i - 1 \in 1 .. 2 * Len(s) /\ (i - 1) % 2 = 1 /\ i \div 2 = (i + 1) \div 2
    BY <1>1, <1>7
  <2>. QED
    BY <1>2, <1>7, <2>1
<1>. QED
  BY <1>4, <1>5, <1>6, <1>7 DEF TwoByTwo

\* What a request writes of its analyses
LEMMA StatementsSeq ==
  ASSUME NEW us, us \subseteq Urls, IsFiniteSet(us), NEW kind
  PROVE  /\ AnalysisStatements(kind, us) \in Seq(Tables \X Urls)
         /\ kind # "analyzed" => TwoByTwo(AnalysisStatements(kind, us))
BY PerUrlSeq, PairedSeq DEF AnalysisStatements

\* Batches of an even size keep the twos together.
LEMMA TwosTogether ==
  ASSUME NEW s \in Seq(Tables \X Urls), TwoByTwo(s), NEW n \in Nat \ {0}, n % 2 = 0
  PROVE  /\ TwoByTwo(SubSeq(s, n + 1, Len(s)))
         /\ TwoByTwo(SubSeq(s, 1, Min({n, Len(s)})))
<1> DEFINE first == SubSeq(s, 1, Min({n, Len(s)}))
           rest  == SubSeq(s, n + 1, Len(s))
           k     == Len(s)
<1>1. /\ Len(first) = IF n <= k THEN n ELSE k
      /\ \A i \in 1 .. Len(first) : first[i] = s[i]
      /\ Len(rest) = IF n <= k THEN k - n ELSE 0
      /\ \A i \in 1 .. Len(rest) : rest[i] = s[n + i]
  BY BatchOfSeq
<1>2. k \in Nat /\ k % 2 = 0
  BY DEF TwoByTwo
<1>3. PICK h \in Nat : k = 2 * h
  BY <1>2
<1>4. PICK j \in Nat : n = 2 * j
  OBVIOUS
<1>o. ASSUME NEW i \in 1 .. k, i % 2 = 1
      PROVE  s[i][1] = "signals" /\ s[i + 1] = <<"profile", s[i][2]>>
  BY <1>o DEF TwoByTwo
<1>e. ASSUME NEW i \in 1 .. k, i % 2 = 0
      PROVE  s[i][1] = "profile" /\ s[i - 1] = <<"signals", s[i][2]>>
  BY <1>e DEF TwoByTwo
<1> HIDE DEF first, rest, k
<1>6. ASSUME n <= k PROVE TwoByTwo(rest) /\ TwoByTwo(first)
  <2> DEFINE l == k - n
  <2>a. l = 2 * (h - j) /\ h - j \in Nat
    BY <1>3, <1>4, <1>6
  <2>b. l \in Nat /\ l % 2 = 0
    BY <2>a
  <2>c. Len(first) = n /\ Len(rest) = l
    BY <1>1, <1>6
  <2>d. \A i \in 1 .. l : n + i \in 1 .. k
    BY <1>2, <1>6
  <2>e. \A i \in 1 .. n : i \in 1 .. k
    BY <1>2, <1>6
  <2> HIDE DEF l
  <2>1. Len(first) = n /\ Len(rest) = l /\ l \in Nat /\ l % 2 = 0
    BY <2>b, <2>c
  <2>2. TwoByTwo(first)
    <3>1. ASSUME NEW i \in 1 .. n
          PROVE  /\ i \in 1 .. k /\ first[i] = s[i]
                 /\ i % 2 = 1 => first[i + 1] = s[i + 1]
                 /\ i % 2 = 0 => first[i - 1] = s[i - 1]
      <4>1. i \in 1 .. k /\ first[i] = s[i]
        BY <1>1, <2>1, <2>e
      <4>2. i % 2 = 1 => i + 1 \in 1 .. n
        BY <1>4
      <4>3. i % 2 = 0 => i - 1 \in 1 .. n
        BY <1>4
      <4>. QED
        BY <1>1, <2>1, <4>1, <4>2, <4>3
    <3>2. ASSUME NEW i \in 1 .. n, i % 2 = 1
          PROVE  first[i][1] = "signals" /\ first[i + 1] = <<"profile", first[i][2]>>
      <4>1. i \in 1 .. k /\ first[i] = s[i] /\ first[i + 1] = s[i + 1]
        BY <3>1, <3>2
      <4>. QED
        BY <1>o, <3>2, <4>1
    <3>3. ASSUME NEW i \in 1 .. n, i % 2 = 0
          PROVE  first[i][1] = "profile" /\ first[i - 1] = <<"signals", first[i][2]>>
      <4>1. i \in 1 .. k /\ first[i] = s[i] /\ first[i - 1] = s[i - 1]
        BY <3>1, <3>3
      <4>. QED
        BY <1>e, <3>3, <4>1
    <3>. QED
      BY <2>1, <3>2, <3>3 DEF TwoByTwo
  <2>3. TwoByTwo(rest)
    <3>1. ASSUME NEW i \in 1 .. l
          PROVE  /\ n + i \in 1 .. k /\ rest[i] = s[n + i] /\ (n + i) % 2 = i % 2
                 /\ i % 2 = 1 => rest[i + 1] = s[(n + i) + 1]
                 /\ i % 2 = 0 => rest[i - 1] = s[(n + i) - 1]
      <4>1. n + i \in 1 .. k /\ rest[i] = s[n + i]
        BY <1>1, <2>1, <2>d
      <4>2. (n + i) % 2 = i % 2
        BY <1>4
      <4>3. i % 2 = 1 => i + 1 \in 1 .. l /\ n + (i + 1) = (n + i) + 1
        BY <2>a
      <4>4. i % 2 = 0 => i - 1 \in 1 .. l /\ n + (i - 1) = (n + i) - 1
        BY <2>a
      <4>. QED
        BY <1>1, <2>1, <4>1, <4>2, <4>3, <4>4
    <3>2. ASSUME NEW i \in 1 .. l, i % 2 = 1
          PROVE  rest[i][1] = "signals" /\ rest[i + 1] = <<"profile", rest[i][2]>>
      <4>1. n + i \in 1 .. k /\ rest[i] = s[n + i] /\ (n + i) % 2 = 1 /\ rest[i + 1] = s[(n + i) + 1]
        BY <3>1, <3>2
      <4>. QED
        BY <1>o, <4>1
    <3>3. ASSUME NEW i \in 1 .. l, i % 2 = 0
          PROVE  rest[i][1] = "profile" /\ rest[i - 1] = <<"signals", rest[i][2]>>
      <4>1. n + i \in 1 .. k /\ rest[i] = s[n + i] /\ (n + i) % 2 = 0 /\ rest[i - 1] = s[(n + i) - 1]
        BY <3>1, <3>3
      <4>. QED
        BY <1>e, <4>1
    <3>. QED
      BY <2>1, <3>2, <3>3 DEF TwoByTwo
  <2>. QED
    BY <2>2, <2>3
<1>7. ASSUME ~(n <= k) PROVE TwoByTwo(rest) /\ TwoByTwo(first)
  <2>1. Len(first) = k /\ Len(rest) = 0
    BY <1>1, <1>7
  <2>2. TwoByTwo(rest)
    BY <2>1 DEF TwoByTwo
  <2>3. ASSUME NEW i \in 1 .. k
        PROVE  /\ first[i] = s[i]
               /\ i % 2 = 1 => first[i + 1] = s[i + 1]
               /\ i % 2 = 0 => first[i - 1] = s[i - 1]
    <3>1. i % 2 = 1 => i + 1 \in 1 .. k
      BY <1>3
    <3>2. i % 2 = 0 => i - 1 \in 1 .. k
      BY <1>3
    <3>. QED
      BY <1>1, <2>1, <3>1, <3>2
  <2>4. TwoByTwo(first)
    <3>1. ASSUME NEW i \in 1 .. k, i % 2 = 1
          PROVE  first[i][1] = "signals" /\ first[i + 1] = <<"profile", first[i][2]>>
      BY <1>o, <2>3, <3>1
    <3>2. ASSUME NEW i \in 1 .. k, i % 2 = 0
          PROVE  first[i][1] = "profile" /\ first[i - 1] = <<"signals", first[i][2]>>
      BY <1>e, <2>3, <3>2
    <3>. QED
      BY <1>2, <2>1, <3>1, <3>2 DEF TwoByTwo
  <2>. QED
    BY <2>2, <2>4
<1>. QED
  BY <1>6, <1>7 DEF first, rest, k

----------------------------------------------------------------------------
(* Imports: what the steps do to the calls *)

\* The other calls stand.
OthersStand(c) == \A d \in Callers : d # c => call'[d] = call[d]

\* A call changes its step and its statements only.
SameCall(r, s) ==
  /\ r.kind = s.kind /\ r.no = s.no /\ r.at = s.at /\ r.urls = s.urls /\ r.placed = s.placed /\ r.bad = s.bad

\* The fields of a call
LEMMA CallFields ==
  ASSUME ImportsTypeOK, NEW c \in Callers
  PROVE  /\ call[c] \in ImportCall /\ call[c].step \in ImportSteps
         /\ call[c].kind \in ImportKinds \cup {"observe", "transient", "discover"}
         /\ call[c].no \in Numbers /\ call[c].at \in Times \cup {0} /\ call[c].urls \in SUBSET Urls
         /\ call[c].placed \in BOOLEAN /\ call[c].bad \in SUBSET Urls
         /\ call[c].todo \in Seq(Tables \X Urls)
BY DEF ImportsTypeOK, ImportCall

\* A call at rest
LEMMA RestingFields ==
  ASSUME ImportsAssumption
  PROVE  /\ Resting \in ImportCall /\ Resting.step = "idle" /\ Resting.kind = "import"
         /\ Resting.urls = {} /\ Resting.bad = {} /\ Resting.todo = << >> /\ Resting.no = 0
BY DEF Resting, ImportCall, ImportSteps, ImportKinds, Numbers, ImportsAssumption

\* A call that goes to another step
LEMMA TurnFacts ==
  ASSUME ImportsTypeOK, NEW c \in Callers, NEW step \in ImportSteps, Turns(c, step)
  PROVE  /\ call' \in [Callers -> ImportCall] /\ OthersStand(c) /\ SameCall(call'[c], call[c])
         /\ call'[c].step = step /\ call'[c].todo = call[c].todo
<1>1. PICK r : r = [call[c] EXCEPT !.step = step] /\ call' = [call EXCEPT ![c] = r]
  BY DEF Turns
<1>2. call[c] \in ImportCall
  BY CallFields
<1>3. r \in ImportCall
  BY <1>1, <1>2 DEF ImportCall
<1>4. r.step = step /\ r.todo = call[c].todo /\ SameCall(r, call[c])
  BY <1>1, <1>2 DEF ImportCall, SameCall
<1>5. call' \in [Callers -> ImportCall] /\ call'[c] = r /\ OthersStand(c)
  BY <1>1, <1>3 DEF ImportsTypeOK, OthersStand
<1>. QED
  BY <1>4, <1>5

\* A call that ends
LEMMA EndFacts ==
  ASSUME ImportsTypeOK, NEW c \in Callers, Ends(c)
  PROVE  call' \in [Callers -> ImportCall] /\ OthersStand(c) /\ call'[c] = Resting
<1>1. Resting \in ImportCall
  BY RestingFields, ImportsAssumption
<1>. QED
  BY <1>1 DEF Ends, ImportsTypeOK, OthersStand

\* What is left of the statements, and what the batch held
LEMMA BatchFacts ==
  ASSUME ImportsTypeOK, NEW c \in Callers
  PROVE  /\ Remaining(c) \in Seq(Tables \X Urls)
         /\ Range(call[c].todo) = Range(Batch(c)) \cup Range(Remaining(c))
         /\ AllSent(c) => Range(call[c].todo) = Range(Batch(c))
         /\ TwoByTwo(call[c].todo) => TwoByTwo(Remaining(c)) /\ TwoByTwo(Batch(c))
         /\ Batch(c) \in Seq(Tables \X Urls)
         /\ BatchUrls(c) = {p[2] : p \in Range(Batch(c))} /\ BatchUrls(c) \subseteq Urls
<1> DEFINE s == call[c].todo
<1>1. s \in Seq(Tables \X Urls) /\ BatchSize \in Nat \ {0} /\ BatchSize % 2 = 0
  BY CallFields, ImportsAssumption DEF ImportsAssumption
<1>2. Batch(c) = SubSeq(s, 1, Min({BatchSize, Len(s)})) /\ Remaining(c) = SubSeq(s, BatchSize + 1, Len(s))
  BY DEF Batch, Remaining
<1> HIDE DEF s
<1>3. /\ Remaining(c) \in Seq(Tables \X Urls) /\ Batch(c) \in Seq(Tables \X Urls)
      /\ Range(s) = Range(Batch(c)) \cup Range(Remaining(c))
      /\ Remaining(c) = << >> => Range(s) = Range(Batch(c))
  <2> DEFINE first == SubSeq(s, 1, Min({BatchSize, Len(s)}))
             rest  == SubSeq(s, BatchSize + 1, Len(s))
  <2>1. /\ first \in Seq(Tables \X Urls) /\ rest \in Seq(Tables \X Urls)
        /\ Range(s) = Range(first) \cup Range(rest)
        /\ rest = << >> => Range(s) = Range(first)
    <3>1. BatchSize \in Nat \ {0}
      BY <1>1
    <3>2. s \in Seq(Tables \X Urls)
      BY <1>1
    <3>. QED
      BY <3>1, <3>2, BatchOfSeq, ZenonT(60)
  <2>2. Batch(c) = first /\ Remaining(c) = rest
    BY <1>2
  <2> HIDE DEF first, rest
  <2>. QED
    BY <2>1, <2>2
<1>4. TwoByTwo(s) => TwoByTwo(Remaining(c)) /\ TwoByTwo(Batch(c))
  BY <1>1, <1>2, TwosTogether
<1>5. BatchUrls(c) = {p[2] : p \in Range(Batch(c))}
  BY DEF BatchUrls, Range
<1>6. \A i \in DOMAIN Batch(c) : Batch(c)[i] \in Tables \X Urls
  BY <1>3
<1>7. BatchUrls(c) \subseteq Urls
  BY <1>6 DEF BatchUrls
<1>. QED
  BY <1>3, <1>4, <1>5, <1>7 DEF s, AllSent

\* A call that has written its batch
LEMMA SentFacts ==
  ASSUME ImportsTypeOK, NEW c \in Callers, NEW step \in ImportSteps, NEW todo \in Seq(Tables \X Urls),
         Sent(c, step, todo)
  PROVE  /\ call' \in [Callers -> ImportCall] /\ OthersStand(c)
         /\ \/ /\ ~AllSent(c) /\ SameCall(call'[c], call[c])
               /\ call'[c].step = call[c].step /\ call'[c].todo = Remaining(c)
            \/ AllSent(c) /\ step = "idle" /\ call'[c] = Resting
            \/ /\ AllSent(c) /\ step # "idle" /\ SameCall(call'[c], call[c])
               /\ call'[c].step = step /\ call'[c].todo = todo
<1>1. call[c] \in ImportCall /\ Remaining(c) \in Seq(Tables \X Urls) /\ call \in [Callers -> ImportCall]
  BY CallFields, BatchFacts DEF ImportsTypeOK
<1>2. CASE ~AllSent(c)
  <2>1. PICK r : r = [call[c] EXCEPT !.todo = Remaining(c)] /\ call' = [call EXCEPT ![c] = r]
    BY <1>2 DEF Sent
  <2>2. r \in ImportCall
    BY <1>1, <2>1 DEF ImportCall
  <2>3. SameCall(r, call[c]) /\ r.step = call[c].step /\ r.todo = Remaining(c)
    BY <1>1, <2>1 DEF ImportCall, SameCall
  <2>4. call' \in [Callers -> ImportCall] /\ OthersStand(c) /\ call'[c] = r
    BY <1>1, <2>1, <2>2 DEF OthersStand
  <2>. QED
    BY <1>2, <2>3, <2>4
<1>3. CASE AllSent(c) /\ step = "idle"
  <2>1. call' = [call EXCEPT ![c] = Resting] /\ Resting \in ImportCall
    BY <1>3, RestingFields, ImportsAssumption DEF Sent
  <2>. QED
    BY <1>1, <1>3, <2>1 DEF OthersStand
<1>4. CASE AllSent(c) /\ step # "idle"
  <2>1. PICK r : r = [call[c] EXCEPT !.step = step, !.todo = todo] /\ call' = [call EXCEPT ![c] = r]
    BY <1>4 DEF Sent
  <2>2. r \in ImportCall
    BY <1>1, <2>1 DEF ImportCall
  <2>3. SameCall(r, call[c]) /\ r.step = step /\ r.todo = todo
    BY <1>1, <2>1 DEF ImportCall, SameCall
  <2>4. call' \in [Callers -> ImportCall] /\ OthersStand(c) /\ call'[c] = r
    BY <1>1, <2>1, <2>2 DEF OthersStand
  <2>. QED
    BY <1>4, <2>3, <2>4
<1>. QED
  BY <1>2, <1>3, <1>4

\* A call of one table names its articles.
LEMMA BatchOfOneTable ==
  ASSUME ImportsTypeOK, NEW c \in Callers, NEW us, Range(call[c].todo) \subseteq {"profile"} \X us
  PROVE  /\ Range(Remaining(c)) \subseteq {"profile"} \X us /\ BatchUrls(c) \subseteq us
         /\ \A u \in Urls : Owed(c, u) => u \in BatchUrls(c) \/ <<"profile", u>> \in Range(Remaining(c))
         /\ \A u \in Urls : AllSent(c) /\ Owed(c, u) => u \in BatchUrls(c)
<1>1. /\ Range(call[c].todo) = Range(Batch(c)) \cup Range(Remaining(c))
      /\ AllSent(c) => Range(call[c].todo) = Range(Batch(c))
      /\ BatchUrls(c) = {p[2] : p \in Range(Batch(c))}
  BY BatchFacts
<1>2. \A u : <<"profile", u>> \in Range(Batch(c)) => u \in BatchUrls(c)
  <2>1. ASSUME NEW u, <<"profile", u>> \in Range(Batch(c)) PROVE u \in BatchUrls(c)
    <3>1. <<"profile", u>>[2] = u
      OBVIOUS
    <3>. QED
      BY <1>1, <2>1, <3>1
  <2>. QED
    BY <2>1
<1>3. BatchUrls(c) \subseteq us
  <2>1. \A p \in {"profile"} \X us : p[2] \in us
    OBVIOUS
  <2>. QED
    BY <1>1, <2>1
<1>. QED
  BY <1>1, <1>2, <1>3 DEF Owed

\* The calls that stand are as sane as they were.
LEMMA OthersSane ==
  ASSUME CallsSane, NEW c, OthersStand(c), calls \in Nat, calls' \in Nat, calls <= calls',
         NEW d \in Callers, d # c
  PROVE  CallSane(d)'
<1>1. call'[d] = call[d] /\ CallSane(d)
  BY DEF OthersStand, CallsSane
<1>. QED
  BY <1>1 DEF CallSane, Saving

\* A call keeps its number until it ends.
LEMMA NumbersKept ==
  ASSUME OwnNumbers, NEW c \in Callers, OthersStand(c),
         call'[c].step = "idle" \/ (call[c].step # "idle" /\ call'[c].no = call[c].no)
  PROVE  OwnNumbers'
BY DEF OwnNumbers, OthersStand

\* A request begins: its number is new.
LEMMA TakeFacts ==
  ASSUME ImportsTypeOK, CallsSane, OwnNumbers, NEW c \in Callers, NEW r \in ImportCall, r.no = calls + 1,
         Takes(c, r)
  PROVE  /\ call' \in [Callers -> ImportCall] /\ OthersStand(c) /\ call'[c] = r
         /\ call[c].step = "idle" /\ calls \in Nat /\ calls' = calls + 1 /\ calls' \in Numbers
         /\ overtaken' \subseteq overtaken
         /\ \A d \in Callers, u \in Urls : d # c /\ <<d, u>> \in overtaken => <<d, u>> \in overtaken'
         /\ OwnNumbers'
<1>1. /\ call \in [Callers -> ImportCall] /\ calls \in Numbers /\ ImportCalls \in Nat
  BY ImportsAssumption DEF ImportsTypeOK, ImportsAssumption
<1>2. /\ call' \in [Callers -> ImportCall] /\ OthersStand(c) /\ call'[c] = r
  BY <1>1 DEF Takes, OthersStand
<1>3. /\ call[c].step = "idle" /\ calls \in Nat /\ calls' = calls + 1 /\ calls' \in Numbers
  BY <1>1 DEF Takes, Numbers
<1>4. /\ overtaken' \subseteq overtaken
      /\ \A d \in Callers, u \in Urls : d # c /\ <<d, u>> \in overtaken => <<d, u>> \in overtaken'
  BY DEF Takes
<1>5. OwnNumbers'
  <2>1. ASSUME NEW d \in Callers, d # c, call'[d].step # "idle" PROVE call'[d].no # r.no
    <3>1. call'[d] = call[d] /\ CallSane(d)
      BY <1>2, <2>1 DEF OthersStand, CallsSane
    <3>2. call[d].no \in 1 .. calls
      BY <2>1, <3>1 DEF CallSane
    <3>. QED
      BY <1>3, <3>1, <3>2
  <2>2. ASSUME NEW d \in Callers, NEW e \in Callers, call'[d].step # "idle", call'[e].step # "idle",
               call'[d].no = call'[e].no
        PROVE  d = e
    <3>1. CASE d = c
      BY <1>2, <2>1, <2>2, <3>1
    <3>2. CASE e = c
      BY <1>2, <2>1, <2>2, <3>2
    <3>3. CASE d # c /\ e # c
      BY <1>2, <2>2, <3>3 DEF OthersStand, OwnNumbers
    <3>. QED
      BY <3>1, <3>2, <3>3
  <2>. QED
    BY <2>2 DEF OwnNumbers
<1>. QED
  BY <1>2, <1>3, <1>4, <1>5

\* The run rows of the imports under way, when none is written
LEMMA RunsKept ==
  ASSUME RunsKnown, NEW c \in Callers, OthersStand(c), runRow' = runRow,
         calls \in Nat, calls' \in Nat, calls <= calls',
         \/ call'[c].step \notin FourSteps \cup {"run", "record"}
         \/ /\ call'[c].step \in FourSteps /\ call[c].step \in FourSteps
            /\ call'[c].no = call[c].no /\ call'[c].urls = call[c].urls
         \/ call'[c].step = "run" /\ call'[c].no \in 1 .. ImportCalls /\ call'[c].no > calls
  PROVE  RunsKnown'
<1>1. ASSUME NEW d \in Callers
      PROVE  /\ call'[d].step = "run" => runRow'[call'[d].no].status = "none"
             /\ call'[d].step \in FourSteps => runRow'[call'[d].no] = [urls |-> call'[d].urls, status |-> "running"]
             /\ call'[d].step = "record" => runRow'[call'[d].no].status \in {"none", "running"}
  <2>1. CASE d # c
    <3>1. call'[d] = call[d]
      BY <2>1 DEF OthersStand
    <3>. QED
      BY <3>1 DEF RunsKnown
  <2>2. CASE d = c
    BY <2>2 DEF RunsKnown, FourSteps
  <2>. QED
    BY <2>1, <2>2
<1>2. ASSUME NEW n \in 1 .. ImportCalls, n > calls' PROVE runRow'[n].status = "none"
  <2>1. ImportCalls \in Nat
    BY ImportsAssumption DEF ImportsAssumption
  <2>2. n > calls
    BY <1>2, <2>1
  <2>. QED
    BY <2>2 DEF RunsKnown
<1>. QED
  BY <1>1, <1>2 DEF RunsKnown, FourSteps

\* The links owed, when neither the articles nor the observations change
LEMMA LinksKept ==
  ASSUME LinksOwed, NEW c \in Callers, OthersStand(c), article' = article, observed' = observed,
         call'[c].step \notin {"link", "result"}
  PROVE  LinksOwed'
<1>1. ASSUME NEW d \in Callers, call'[d].step \in {"link", "result"}
      PROVE  /\ \A u \in call'[d].urls : Known(u)'
             /\ \A o \in observed' : ~o.linked /\ o.url \in call'[d].urls
                                       => call'[d].step = "link" /\ Owed(d, o.url)'
  <2>1. call'[d] = call[d]
    BY <1>1 DEF OthersStand
  <2>. QED
    BY <1>1, <2>1 DEF LinksOwed, Known, Owed
<1>. QED
  BY <1>1 DEF LinksOwed

\* The placements owed, when neither the articles nor the observations change
LEMMA PlacesKept ==
  ASSUME PlacesOwed, NEW c \in Callers, OthersStand(c), article' = article, observed' = observed,
         loose \subseteq loose',
         \A u \in Urls : ToPlace(c, u) => ToPlace(c, u)' \/ u \in loose'
  PROVE  PlacesOwed'
<1>1. ASSUME NEW u \in Urls
      PROVE  \/ ~Known(u)' \/ u \in loose' \/ article'[u].place = LatestPlace(u)'
             \/ \E d \in Callers : ToPlace(d, u)'
  <2>1. /\ Known(u)' <=> Known(u)
        /\ LatestPlace(u)' = LatestPlace(u)
    BY DEF Known, LatestPlace, LinkedTo
  <2>2. CASE \E d \in Callers : ToPlace(d, u)
    <3>1. PICK d \in Callers : ToPlace(d, u)
      BY <2>2
    <3>2. CASE d = c
      BY <3>1, <3>2
    <3>3. CASE d # c
      <4>1. ToPlace(d, u)'
        BY <3>1, <3>3 DEF OthersStand, ToPlace, Owed
      <4>. QED
        BY <4>1
    <3>. QED
      BY <3>2, <3>3
  <2>3. CASE ~\E d \in Callers : ToPlace(d, u)
    BY <2>1, <2>3 DEF PlacesOwed
  <2>. QED
    BY <2>2, <2>3
<1>. QED
  BY <1>1 DEF PlacesOwed

\* What is known of overtaken analyses, when none is written
LEMMA OvertakenStands ==
  ASSUME OvertakenKnown, NEW c \in Callers, OthersStand(c), analyses' = analyses,
         call \in [Callers -> ImportCall],
         \A d \in Callers, u \in Urls : d # c /\ <<d, u>> \in overtaken => <<d, u>> \in overtaken',
         \/ call'[c].step # "save"
         \/ call'[c].kind # "transient"
         \/ \A u \in call'[c].bad : Profile("public", u).status # "analyzed"
  PROVE  OvertakenKnown'
<1>1. ASSUME NEW d \in Callers, NEW u \in call'[d].bad, Saving(d)', call'[d].kind = "transient",
             Profile("public", u)'.status = "analyzed"
      PROVE  <<d, u>> \in overtaken'
  <2>1. Profile("public", u)' = Profile("public", u)
    BY DEF Profile
  <2>2. d # c
    BY <1>1, <2>1 DEF Saving
  <2>3. call'[d] = call[d]
    BY <2>2 DEF OthersStand
  <2>4. <<d, u>> \in overtaken /\ u \in Urls
    <3>1. u \in call[d].bad /\ Saving(d) /\ call[d].kind = "transient"
      BY <1>1, <2>3 DEF Saving
    <3>2. call[d].bad \in SUBSET Urls
      BY DEF ImportCall
    <3>. QED
      BY <1>1, <2>1, <3>1, <3>2 DEF OvertakenKnown
  <2>. QED
    BY <2>2, <2>4
<1>. QED
  BY <1>1 DEF OvertakenKnown

\* Links of known articles, articles that are not known and the texts of analyses,
\* when what they speak of is not written
LEMMA RestKept ==
  ASSUME UnknownBare, SameText, article' = article, observed' = observed, analyses' = analyses
  PROVE  UnknownBare' /\ SameText'
BY DEF UnknownBare, SameText, Known

\* A request that ends leaves the invariant.
LEMMA EndKeeps ==
  ASSUME ImportsInv, NEW c \in Callers, Ends(c), article' = article, observed' = observed,
         analyses' = analyses, calls' = calls, overtaken' = overtaken, stranded' = stranded,
         loose' \subseteq Urls,
         loose \subseteq loose', call[c].kind = "observe" => call[c].urls \subseteq loose',
         /\ runRow' \in [1 .. ImportCalls -> [urls : SUBSET Urls, status : {"none", "running", "success", "failed"}]]
         /\ RunsKnown' /\ LinkedWhenKnown'
  PROVE  ImportsInv'
<1>1. /\ ImportsTypeOK /\ CallsSane /\ OwnNumbers /\ RunsKnown /\ LinksOwed /\ LinkedWhenKnown
      /\ UnknownBare /\ PlacesOwed /\ SameText /\ OvertakenKnown
  BY DEF ImportsInv
<1>2. call' \in [Callers -> ImportCall] /\ OthersStand(c) /\ call'[c] = Resting
  BY <1>1, EndFacts
<1>3. /\ call'[c].step = "idle" /\ call'[c].kind = "import" /\ call'[c].urls = {} /\ call'[c].bad = {}
      /\ call'[c].todo = << >>
  BY <1>2, RestingFields, ImportsAssumption
<1>4. calls \in Nat /\ calls' \in Nat /\ calls <= calls' /\ call \in [Callers -> ImportCall]
  BY <1>1, ImportsAssumption DEF ImportsTypeOK, Numbers, ImportsAssumption
<1>5. ImportsTypeOK'
  BY <1>1, <1>2 DEF ImportsTypeOK
<1>6. CallsSane'
  <2>1. CallSane(c)'
    BY <1>3, FS_EmptySet DEF CallSane, FourSteps, Saving
  <2>2. \A d \in Callers : d # c => CallSane(d)'
    BY <1>1, <1>2, <1>4, OthersSane
  <2>. QED
    BY <2>1, <2>2 DEF CallsSane
<1>7. OwnNumbers'
  BY <1>1, <1>2, <1>3, NumbersKept
<1>8. LinksOwed'
  BY <1>1, <1>2, <1>3, LinksKept
<1>9. PlacesOwed'
  <2>1. \A u \in Urls : ToPlace(c, u) => u \in loose'
    BY DEF ToPlace
  <2>. QED
    BY <1>1, <1>2, <2>1, PlacesKept
<1>10. OvertakenKnown'
  <2>1. \A d \in Callers, u \in Urls : d # c /\ <<d, u>> \in overtaken => <<d, u>> \in overtaken'
    OBVIOUS
  <2>. QED
    BY <1>1, <1>2, <1>3, <1>4, <2>1, OvertakenStands
<1>11. UnknownBare' /\ SameText'
  BY <1>1, RestKept
<1>. QED
  BY <1>5, <1>6, <1>7, <1>8, <1>9, <1>10, <1>11 DEF ImportsInv

\* The latest of the linked observations of an article
LEMMA LatestExists ==
  ASSUME ImportsTypeOK, NEW u \in Urls
  PROVE  LatestPlace(u) \in Numbers
<1>1. /\ Times \subseteq Nat /\ ImportCalls \in Nat
      /\ observed \subseteq Observation /\ LinkedTo(u) \subseteq observed
  BY ImportsAssumption DEF ImportsTypeOK, ImportsAssumption, LinkedTo
<1>2. PICK last \in Nat : \A t \in Times : t <= last
  BY ImportsAssumption DEF ImportsAssumption
<1>3. \A o \in LinkedTo(u) : o.at \in Times /\ o.at \in Nat /\ o.at <= last /\ o.place \in 1 .. ImportCalls
  BY <1>1, <1>2 DEF Observation
<1>4. CASE LinkedTo(u) = {}
  BY <1>1, <1>4 DEF LatestPlace, Numbers
<1>5. CASE LinkedTo(u) # {}
  <2> DEFINE gaps == {last - o.at : o \in LinkedTo(u)}
  <2>1. gaps \in SUBSET Nat /\ gaps # {}
    BY <1>3, <1>5
  <2>2. PICK x \in gaps : \A y \in gaps : x <= y
    <3> HIDE DEF gaps
    <3>. QED
      BY <2>1, LeastOf
  <2>3. PICK o \in LinkedTo(u) : x = last - o.at
    BY <2>2
  <2>4. \A p \in LinkedTo(u) : p.at <= o.at
    <3>1. ASSUME NEW p \in LinkedTo(u) PROVE p.at <= o.at
      <4>1. last - o.at <= last - p.at
        BY <2>2, <2>3
      <4>2. p.at \in Nat /\ o.at \in Nat
        BY <1>3
      <4>. QED
        BY <4>1, <4>2
    <3>. QED
      BY <3>1
  <2> DEFINE latest == CHOOSE q \in LinkedTo(u) : \A p \in LinkedTo(u) : p.at <= q.at
  <2>5. latest \in LinkedTo(u)
    BY <2>4
  <2>6. LatestPlace(u) = latest.place
    BY <1>5 DEF LatestPlace
  <2> HIDE DEF latest
  <2>. QED
    BY <1>1, <1>3, <2>5, <2>6 DEF Numbers
<1>. QED
  BY <1>4, <1>5

\* The parts of the invariant
LEMMA ImportsParts ==
  ASSUME ImportsInv
  PROVE  /\ ImportsTypeOK /\ CallsSane /\ OwnNumbers /\ RunsKnown /\ LinksOwed /\ LinkedWhenKnown
         /\ UnknownBare /\ PlacesOwed /\ SameText /\ OvertakenKnown
         /\ calls \in Nat /\ calls \in Numbers /\ ImportCalls \in Nat /\ call \in [Callers -> ImportCall]
         /\ runRow \in [1 .. ImportCalls ->
                         [urls : SUBSET Urls, status : {"none", "running", "success", "failed"}]]
         /\ article \in [Urls -> [known : BOOLEAN, place : Numbers]] /\ observed \subseteq Observation
         /\ loose \subseteq Urls /\ stranded \subseteq Observation /\ overtaken \subseteq Callers \X Urls
BY ImportsAssumption DEF ImportsInv, ImportsTypeOK, ImportsAssumption, Numbers

\* A request of the kinds that write no run row begins.
LEMMA BeginKeeps ==
  ASSUME ImportsInv, NEW c \in Callers, NEW r \in ImportCall, Takes(c, r), r.no = calls + 1,
         r.step \in {"run", "observe", "discover", "save"}, CallSane(c)',
         UNCHANGED <<article, observed, runRow, analyses, loose, stranded>>,
         r.step = "save" /\ r.kind = "transient" => \A u \in r.bad : Profile("public", u).status # "analyzed"
  PROVE  ImportsInv'
<1>1. /\ ImportsTypeOK /\ CallsSane /\ OwnNumbers /\ RunsKnown /\ LinksOwed /\ LinkedWhenKnown
      /\ UnknownBare /\ PlacesOwed /\ SameText /\ OvertakenKnown
      /\ calls \in Nat /\ call \in [Callers -> ImportCall] /\ ImportCalls \in Nat
  BY ImportsParts
<1>2. /\ call' \in [Callers -> ImportCall] /\ OthersStand(c) /\ call'[c] = r
      /\ call[c].step = "idle" /\ calls' = calls + 1 /\ calls' \in Numbers
      /\ overtaken' \subseteq overtaken
      /\ \A d \in Callers, u \in Urls : d # c /\ <<d, u>> \in overtaken => <<d, u>> \in overtaken'
      /\ OwnNumbers'
  BY <1>1, TakeFacts
<1>3. calls' \in Nat /\ calls <= calls' /\ r.no > calls /\ r.no \in 1 .. ImportCalls
  BY <1>1, <1>2 DEF Numbers
<1>4. ImportsTypeOK'
  BY <1>1, <1>2 DEF ImportsTypeOK
<1>5. CallsSane'
  <2>1. \A d \in Callers : d # c => CallSane(d)'
    BY <1>1, <1>2, <1>3, OthersSane
  <2>. QED
    BY <2>1 DEF CallsSane
<1>6. RunsKnown'
  BY <1>1, <1>2, <1>3, RunsKept DEF FourSteps
<1>7. LinksOwed'
  BY <1>1, <1>2, LinksKept
<1>8. LinkedWhenKnown'
  BY <1>1 DEF LinkedWhenKnown, Known
<1>9. PlacesOwed'
  <2>1. \A u \in Urls : ~ToPlace(c, u)
    BY <1>1, <1>2 DEF ToPlace, CallsSane, CallSane
  <2>. QED
    BY <1>1, <1>2, <2>1, PlacesKept
<1>10. OvertakenKnown'
  BY <1>1, <1>2, OvertakenStands
<1>11. UnknownBare' /\ SameText'
  BY <1>1, RestKept
<1>. QED
  BY <1>2, <1>4, <1>5, <1>6, <1>7, <1>8, <1>9, <1>10, <1>11 DEF ImportsInv

\* A request for an import begins.
LEMMA BeginImportKeeps ==
  ASSUME ImportsInv, NEW c \in Callers, BeginImport(c)
  PROVE  ImportsInv'
<1>1. PICK k \in ImportKinds, us \in Brought, p \in BOOLEAN :
        /\ p => k = "import"
        /\ Takes(c, [Resting EXCEPT !.step = "run", !.kind = k, !.no = calls + 1, !.urls = us, !.placed = p])
  BY DEF BeginImport
<1>2. PICK r : r = [Resting EXCEPT !.step = "run", !.kind = k, !.no = calls + 1, !.urls = us, !.placed = p]
  OBVIOUS
<1>3. us \subseteq Urls /\ IsFiniteSet(us)
  BY ImportsAssumption DEF ImportsAssumption
<1>4. calls \in Nat /\ calls < ImportCalls /\ ImportCalls \in Nat /\ calls' = calls + 1
  BY <1>1, ImportsParts DEF Takes
<1>5. r \in ImportCall
  <2>1. calls + 1 \in Numbers
    BY <1>4 DEF Numbers
  <2>2. Resting \in ImportCall /\ "run" \in ImportSteps /\ calls + 1 \in Numbers
    BY <2>1, RestingFields, ImportsAssumption DEF ImportSteps
  <2>. QED
    BY <1>2, <1>3, <2>2 DEF ImportCall
<1>6. /\ r.step = "run" /\ r.kind = k /\ r.no = calls + 1 /\ r.urls = us /\ r.bad = {} /\ r.todo = << >>
  BY <1>2 DEF Resting
<1>7. Takes(c, r)
  BY <1>1, <1>2
<1>8. call'[c] = r
  BY <1>7, ImportsParts DEF Takes
<1>9. CallSane(c)'
  BY <1>3, <1>4, <1>6, <1>8 DEF CallSane, FourSteps, Saving, ImportKinds
<1>10. UNCHANGED <<article, observed, runRow, analyses, loose, stranded>>
  BY DEF BeginImport
<1>. QED
  BY <1>5, <1>6, <1>7, <1>9, <1>10, BeginKeeps

\* An observation begins.
LEMMA BeginObservationKeeps ==
  ASSUME ImportsInv, NEW c \in Callers, BeginObservation(c)
  PROVE  ImportsInv'
<1>1. PICK us \in Brought, t \in Times :
        Takes(c, [Resting EXCEPT !.step = "observe", !.kind = "observe", !.no = calls + 1, !.urls = us,
                                 !.at = t, !.todo = PerUrl(us)])
  BY DEF BeginObservation
<1>2. PICK r : r = [Resting EXCEPT !.step = "observe", !.kind = "observe", !.no = calls + 1, !.urls = us,
                                   !.at = t, !.todo = PerUrl(us)]
  OBVIOUS
<1>3. us \subseteq Urls /\ IsFiniteSet(us)
  BY ImportsAssumption DEF ImportsAssumption
<1>a. PerUrl(us) \in Seq(Tables \X Urls) /\ Range(PerUrl(us)) = {"profile"} \X us
  BY <1>3, PerUrlSeq
<1>4. calls \in Nat /\ calls < ImportCalls /\ ImportCalls \in Nat /\ calls' = calls + 1
  BY <1>1, ImportsParts DEF Takes
<1>5. r \in ImportCall
  <2>1. calls + 1 \in Numbers
    BY <1>4 DEF Numbers
  <2>2. Resting \in ImportCall /\ "observe" \in ImportSteps /\ calls + 1 \in Numbers
    BY <2>1, RestingFields, ImportsAssumption DEF ImportSteps
  <2>. QED
    BY <1>2, <1>3, <1>a, <2>2 DEF ImportCall
<1>6. /\ r.step = "observe" /\ r.kind = "observe" /\ r.no = calls + 1 /\ r.urls = us /\ r.bad = {}
      /\ r.todo = PerUrl(us) /\ r.at = t
  BY <1>2 DEF Resting
<1>7. Takes(c, r)
  BY <1>1, <1>2
<1>8. call'[c] = r
  BY <1>7, ImportsParts DEF Takes
<1>9. CallSane(c)'
  BY <1>3, <1>4, <1>6, <1>8, <1>a DEF CallSane, FourSteps, Saving, ImportKinds
<1>10. UNCHANGED <<article, observed, runRow, analyses, loose, stranded>>
  BY DEF BeginObservation
<1>. QED
  BY <1>5, <1>6, <1>7, <1>9, <1>10, BeginKeeps

\* A discovery begins.
LEMMA BeginDiscoveryKeeps ==
  ASSUME ImportsInv, NEW c \in Callers, BeginDiscovery(c)
  PROVE  ImportsInv'
<1>1. PICK us \in Brought :
        Takes(c, [Resting EXCEPT !.step = "discover", !.kind = "discover", !.no = calls + 1, !.urls = us,
                                 !.todo = PerUrl(us)])
  BY DEF BeginDiscovery
<1>2. PICK r : r = [Resting EXCEPT !.step = "discover", !.kind = "discover", !.no = calls + 1, !.urls = us,
                                   !.todo = PerUrl(us)]
  OBVIOUS
<1>3. us \subseteq Urls /\ IsFiniteSet(us)
  BY ImportsAssumption DEF ImportsAssumption
<1>a. PerUrl(us) \in Seq(Tables \X Urls) /\ Range(PerUrl(us)) = {"profile"} \X us
  BY <1>3, PerUrlSeq
<1>4. calls \in Nat /\ calls < ImportCalls /\ ImportCalls \in Nat /\ calls' = calls + 1
  BY <1>1, ImportsParts DEF Takes
<1>5. r \in ImportCall
  <2>1. calls + 1 \in Numbers
    BY <1>4 DEF Numbers
  <2>2. Resting \in ImportCall /\ "discover" \in ImportSteps /\ calls + 1 \in Numbers
    BY <2>1, RestingFields, ImportsAssumption DEF ImportSteps
  <2>. QED
    BY <1>2, <1>3, <1>a, <2>2 DEF ImportCall
<1>6. /\ r.step = "discover" /\ r.kind = "discover" /\ r.no = calls + 1 /\ r.urls = us /\ r.bad = {}
      /\ r.todo = PerUrl(us)
  BY <1>2 DEF Resting
<1>7. Takes(c, r)
  BY <1>1, <1>2
<1>8. call'[c] = r
  BY <1>7, ImportsParts DEF Takes
<1>9. CallSane(c)'
  BY <1>3, <1>4, <1>6, <1>8, <1>a DEF CallSane, FourSteps, Saving, ImportKinds
<1>10. UNCHANGED <<article, observed, runRow, analyses, loose, stranded>>
  BY DEF BeginDiscovery
<1>. QED
  BY <1>5, <1>6, <1>7, <1>9, <1>10, BeginKeeps

\* An analysis of public pages begins.
LEMMA BeginTransientKeeps ==
  ASSUME ImportsInv, NEW c \in Callers, BeginTransient(c)
  PROVE  ImportsInv'
<1>1. PICK retry \in BOOLEAN, us \in Brought : \E bad \in SUBSET us :
        /\ \A u \in us : Choosable(u, retry)
        /\ Takes(c, [Resting EXCEPT !.step = "save", !.kind = "transient", !.no = calls + 1, !.urls = us,
                                    !.bad = bad, !.todo = AnalysisStatements("transient", us)])
  BY DEF BeginTransient
<1>b. PICK bad \in SUBSET us :
        /\ \A u \in us : Choosable(u, retry)
        /\ Takes(c, [Resting EXCEPT !.step = "save", !.kind = "transient", !.no = calls + 1, !.urls = us,
                                    !.bad = bad, !.todo = AnalysisStatements("transient", us)])
  BY <1>1
<1>2. PICK r : r = [Resting EXCEPT !.step = "save", !.kind = "transient", !.no = calls + 1, !.urls = us,
                                   !.bad = bad, !.todo = AnalysisStatements("transient", us)]
  OBVIOUS
<1>3. us \subseteq Urls /\ IsFiniteSet(us) /\ bad \subseteq Urls
  BY ImportsAssumption DEF ImportsAssumption
<1>a. /\ AnalysisStatements("transient", us) \in Seq(Tables \X Urls)
      /\ TwoByTwo(AnalysisStatements("transient", us))
  BY <1>3, StatementsSeq
<1>4. calls \in Nat /\ calls < ImportCalls /\ ImportCalls \in Nat /\ calls' = calls + 1
  BY <1>b, ImportsParts DEF Takes
<1>5. r \in ImportCall
  <2>1. calls + 1 \in Numbers
    BY <1>4 DEF Numbers
  <2>2. Resting \in ImportCall /\ "save" \in ImportSteps /\ calls + 1 \in Numbers
    BY <2>1, RestingFields, ImportsAssumption DEF ImportSteps
  <2>. QED
    BY <1>2, <1>3, <1>a, <2>2 DEF ImportCall
<1>6. /\ r.step = "save" /\ r.kind = "transient" /\ r.no = calls + 1 /\ r.urls = us /\ r.bad = bad
      /\ r.todo = AnalysisStatements("transient", us)
  BY <1>2 DEF Resting
<1>7. Takes(c, r)
  BY <1>b, <1>2
<1>8. call'[c] = r
  BY <1>7, ImportsParts DEF Takes
<1>9. CallSane(c)'
  BY <1>3, <1>4, <1>6, <1>8, <1>a DEF CallSane, FourSteps, Saving, ImportKinds
<1>10. UNCHANGED <<article, observed, runRow, analyses, loose, stranded>>
  BY DEF BeginTransient
<1>11. \A u \in r.bad : Profile("public", u).status # "analyzed"
  BY <1>b, <1>6 DEF Choosable
<1>. QED
  BY <1>5, <1>6, <1>7, <1>9, <1>10, <1>11, BeginKeeps

\* An import writes its run row.
LEMMA InsertRunKeeps ==
  ASSUME ImportsInv, NEW c \in Callers, InsertRun(c)
  PROVE  ImportsInv'
<1>1. /\ ImportsTypeOK /\ CallsSane /\ OwnNumbers /\ RunsKnown /\ LinksOwed /\ LinkedWhenKnown
      /\ UnknownBare /\ PlacesOwed /\ SameText /\ OvertakenKnown
      /\ calls \in Nat /\ calls' = calls /\ call \in [Callers -> ImportCall] /\ ImportCalls \in Nat
      /\ UNCHANGED <<article, observed, analyses, calls, loose, stranded, overtaken>>
      /\ call[c].step = "run" /\ CallSane(c) /\ Turns(c, "articles")
  BY ImportsParts DEF InsertRun, CallsSane
<1> DEFINE no == call[c].no
<1>2. no \in 1 .. calls /\ no \in 1 .. ImportCalls /\ call[c].urls \in SUBSET Urls
  BY <1>1, CallFields, ImportsParts DEF CallSane, Numbers
<1>3. /\ call' \in [Callers -> ImportCall] /\ OthersStand(c) /\ SameCall(call'[c], call[c])
      /\ call'[c].step = "articles" /\ call'[c].todo = call[c].todo
  BY <1>1, TurnFacts DEF ImportSteps
<1>4. /\ runRow' \in [1 .. ImportCalls ->
                       [urls : SUBSET Urls, status : {"none", "running", "success", "failed"}]]
      /\ runRow'[no] = [urls |-> call[c].urls, status |-> "running"]
      /\ \A n \in 1 .. ImportCalls : n # no => runRow'[n] = runRow[n]
  BY <1>1, <1>2, ImportsParts DEF InsertRun
<1>5. /\ call[c].kind \in ImportKinds /\ call'[c].kind = call[c].kind /\ call'[c].no = call[c].no
      /\ call'[c].urls = call[c].urls
  BY <1>1, <1>3 DEF CallSane, SameCall
<1> HIDE DEF no
<1>6. ImportsTypeOK'
  BY <1>1, <1>3, <1>4 DEF ImportsTypeOK
<1>7. CallsSane'
  <2>1. CallSane(c)'
    BY <1>1, <1>3 DEF CallSane, SameCall, FourSteps, Saving
  <2>2. \A d \in Callers : d # c => CallSane(d)'
    BY <1>1, <1>3, OthersSane
  <2>. QED
    BY <2>1, <2>2 DEF CallsSane
<1>8. OwnNumbers'
  BY <1>1, <1>3, <1>5, NumbersKept
<1>9. RunsKnown'
  <2>1. ASSUME NEW d \in Callers, d # c, call'[d].step # "idle"
        PROVE  call'[d] = call[d] /\ runRow'[call[d].no] = runRow[call[d].no]
    <3>1. call'[d] = call[d] /\ CallSane(d)
      BY <1>1, <1>3, <2>1 DEF OthersStand, CallsSane
    <3>2. call[d].no \in 1 .. calls /\ call[d].no # no
      BY <1>1, <2>1, <3>1 DEF CallSane, OwnNumbers, no
    <3>3. call[d].no \in 1 .. ImportCalls
      BY <1>1, <3>2, ImportsParts DEF Numbers
    <3>. QED
      BY <1>4, <3>1, <3>2, <3>3
  <2>2. ASSUME NEW d \in Callers
        PROVE  /\ call'[d].step = "run" => runRow'[call'[d].no].status = "none"
               /\ call'[d].step \in FourSteps => runRow'[call'[d].no] = [urls |-> call'[d].urls, status |-> "running"]
               /\ call'[d].step = "record" => runRow'[call'[d].no].status \in {"none", "running"}
    <3>1. CASE d = c
      BY <1>3, <1>4, <1>5, <3>1 DEF no
    <3>2. CASE d # c
      BY <1>1, <2>1, <3>2 DEF RunsKnown, FourSteps
    <3>. QED
      BY <3>1, <3>2
  <2>3. ASSUME NEW n \in 1 .. ImportCalls, n > calls' PROVE runRow'[n].status = "none"
    <3>1. n # no
      BY <1>1, <1>2, <2>3
    <3>. QED
      BY <1>1, <1>4, <2>3, <3>1 DEF RunsKnown
  <2>. QED
    BY <2>2, <2>3 DEF RunsKnown, FourSteps
<1>10. LinksOwed'
  BY <1>1, <1>3, LinksKept
<1>11. LinkedWhenKnown'
  <2>1. runRow[no].status = "none"
    BY <1>1 DEF RunsKnown, no
  <2>2. ASSUME NEW o \in observed', ~o.linked, Known(o.url)', o \notin stranded'
        PROVE  \E n \in 1 .. ImportCalls : o.url \in runRow'[n].urls /\ runRow'[n].status \in {"running", "failed"}
    <3>1. PICK n \in 1 .. ImportCalls : o.url \in runRow[n].urls /\ runRow[n].status \in {"running", "failed"}
      BY <1>1, <2>2 DEF LinkedWhenKnown, Known
    <3>2. n # no
      BY <2>1, <3>1
    <3>. QED
      BY <1>4, <3>1, <3>2
  <2>. QED
    BY <2>2 DEF LinkedWhenKnown
<1>12. PlacesOwed'
  <2>1. \A u \in Urls : ~ToPlace(c, u)
    BY <1>5 DEF ToPlace, ImportKinds
  <2>. QED
    BY <1>1, <1>3, <2>1, PlacesKept
<1>13. OvertakenKnown'
  BY <1>1, <1>3, OvertakenStands
<1>14. UnknownBare' /\ SameText'
  BY <1>1, RestKept
<1>. QED
  BY <1>6, <1>7, <1>8, <1>9, <1>10, <1>11, <1>12, <1>13, <1>14 DEF ImportsInv

\* An import fails: its failure is to be recorded.
LEMMA ImportFailsKeeps ==
  ASSUME ImportsInv, NEW c \in Callers, ImportFails(c)
  PROVE  ImportsInv'
<1>1. /\ ImportsTypeOK /\ CallsSane /\ OwnNumbers /\ RunsKnown /\ LinksOwed /\ LinkedWhenKnown
      /\ UnknownBare /\ PlacesOwed /\ SameText /\ OvertakenKnown
      /\ calls \in Nat /\ calls' = calls /\ call \in [Callers -> ImportCall] /\ ImportCalls \in Nat
      /\ UNCHANGED <<article, observed, runRow, analyses, calls, loose, stranded, overtaken>>
      /\ call[c].step \in {"run", "articles", "link", "result"} /\ CallSane(c) /\ Turns(c, "record")
  BY ImportsParts DEF ImportFails, CallsSane
<1>2. /\ call' \in [Callers -> ImportCall] /\ OthersStand(c) /\ SameCall(call'[c], call[c])
      /\ call'[c].step = "record" /\ call'[c].todo = call[c].todo
  BY <1>1, TurnFacts DEF ImportSteps
<1>3. /\ call[c].kind \in ImportKinds /\ call'[c].kind = call[c].kind /\ call'[c].no = call[c].no
  BY <1>1, <1>2 DEF CallSane, SameCall, FourSteps
<1>4. ImportsTypeOK'
  BY <1>1, <1>2 DEF ImportsTypeOK
<1>5. CallsSane'
  <2>1. CallSane(c)'
    BY <1>1, <1>2, <1>3 DEF CallSane, SameCall, FourSteps, Saving
  <2>2. \A d \in Callers : d # c => CallSane(d)'
    BY <1>1, <1>2, OthersSane
  <2>. QED
    BY <2>1, <2>2 DEF CallsSane
<1>6. OwnNumbers'
  BY <1>1, <1>2, <1>3, NumbersKept
<1>7. RunsKnown'
  <2>1. runRow[call[c].no].status \in {"none", "running"}
    <3>1. CASE call[c].step = "run"
      BY <1>1, <3>1 DEF RunsKnown
    <3>2. CASE call[c].step \in FourSteps
      <4>1. runRow[call[c].no] = [urls |-> call[c].urls, status |-> "running"]
        BY <1>1, <3>2 DEF RunsKnown
      <4>. QED
        BY <4>1
    <3>. QED
      BY <1>1, <3>1, <3>2 DEF FourSteps
  <2>2. ASSUME NEW d \in Callers
        PROVE  /\ call'[d].step = "run" => runRow'[call'[d].no].status = "none"
               /\ call'[d].step \in FourSteps => runRow'[call'[d].no] = [urls |-> call'[d].urls, status |-> "running"]
               /\ call'[d].step = "record" => runRow'[call'[d].no].status \in {"none", "running"}
    <3>1. CASE d = c
      BY <1>1, <1>2, <1>3, <2>1, <3>1 DEF FourSteps
    <3>2. CASE d # c
      <4>1. call'[d] = call[d]
        BY <1>2, <3>2 DEF OthersStand
      <4>. QED
        BY <1>1, <4>1 DEF RunsKnown
    <3>. QED
      BY <3>1, <3>2
  <2>. QED
    BY <1>1, <2>2 DEF RunsKnown, FourSteps
<1>8. LinksOwed'
  BY <1>1, <1>2, LinksKept
<1>9. LinkedWhenKnown'
  BY <1>1 DEF LinkedWhenKnown, Known
<1>10. PlacesOwed'
  <2>1. \A u \in Urls : ~ToPlace(c, u)
    BY <1>3 DEF ToPlace, ImportKinds
  <2>. QED
    BY <1>1, <1>2, <2>1, PlacesKept
<1>11. OvertakenKnown'
  BY <1>1, <1>2, OvertakenStands
<1>12. UnknownBare' /\ SameText'
  BY <1>1, RestKept
<1>. QED
  BY <1>4, <1>5, <1>6, <1>7, <1>8, <1>9, <1>10, <1>11, <1>12 DEF ImportsInv

\* The run row of a call in flight is written by that call alone.
LEMMA RunsAfterWrite ==
  ASSUME ImportsInv, NEW c \in Callers, call[c].step # "idle", OthersStand(c), calls' = calls,
         NEW row, runRow' = [runRow EXCEPT ![call[c].no] = row],
         call'[c].step \notin FourSteps \cup {"run", "record"}
  PROVE  RunsKnown'
<1>1. /\ CallsSane /\ OwnNumbers /\ RunsKnown /\ calls \in Nat /\ ImportCalls \in Nat /\ CallSane(c)
      /\ calls <= ImportCalls
  BY ImportsParts DEF CallsSane, Numbers
<1>2. /\ call[c].no \in 1 .. calls
      /\ \A n \in 1 .. ImportCalls : n # call[c].no => runRow'[n] = runRow[n]
  BY <1>1, ImportsParts DEF CallSane
<1>3. ASSUME NEW d \in Callers, d # c, call'[d].step # "idle"
      PROVE  call'[d] = call[d] /\ runRow'[call[d].no] = runRow[call[d].no]
  <2>1. call'[d] = call[d] /\ CallSane(d)
    BY <1>1, <1>3 DEF OthersStand, CallsSane
  <2>2. call[d].no \in 1 .. calls /\ call[d].no # call[c].no
    BY <1>1, <1>3, <2>1 DEF CallSane, OwnNumbers
  <2>3. call[d].no \in 1 .. ImportCalls
    BY <1>1, <2>2
  <2>. QED
    BY <1>2, <2>1, <2>2, <2>3
<1>4. ASSUME NEW d \in Callers
      PROVE  /\ call'[d].step = "run" => runRow'[call'[d].no].status = "none"
             /\ call'[d].step \in FourSteps => runRow'[call'[d].no] = [urls |-> call'[d].urls, status |-> "running"]
             /\ call'[d].step = "record" => runRow'[call'[d].no].status \in {"none", "running"}
  <2>1. CASE d = c
    BY <2>1
  <2>2. CASE d # c
    BY <1>1, <1>3, <2>2 DEF RunsKnown, FourSteps
  <2>. QED
    BY <2>1, <2>2
<1>5. ASSUME NEW n \in 1 .. ImportCalls, n > calls' PROVE runRow'[n].status = "none"
  <2>1. n # call[c].no
    BY <1>1, <1>2, <1>5
  <2>. QED
    BY <1>1, <1>2, <1>5, <2>1 DEF RunsKnown
<1>. QED
  BY <1>4, <1>5 DEF RunsKnown, FourSteps

\* The failure is recorded, or its record fails.
LEMMA RecordImportFailureKeeps ==
  ASSUME ImportsInv, NEW c \in Callers, RecordImportFailure(c)
  PROVE  ImportsInv'
<1>1. /\ ImportsTypeOK /\ CallsSane /\ OwnNumbers /\ RunsKnown /\ LinkedWhenKnown
      /\ calls \in Nat /\ calls' = calls /\ ImportCalls \in Nat
      /\ UNCHANGED <<article, observed, analyses, calls, loose, stranded, overtaken>>
      /\ call[c].step = "record" /\ CallSane(c) /\ Ends(c)
      /\ call[c].no \in 1 .. ImportCalls
  BY ImportsParts DEF RecordImportFailure, CallsSane, CallSane, Numbers
<1>2. call' \in [Callers -> ImportCall] /\ OthersStand(c) /\ call'[c] = Resting
  BY <1>1, EndFacts
<1>3. call'[c].step = "idle" /\ call[c].kind # "observe"
  BY <1>1, <1>2, RestingFields, ImportsAssumption DEF CallSane, ImportKinds
<1>4. CASE runRow' = runRow
  <2>1. RunsKnown'
    BY <1>1, <1>2, <1>3, <1>4, RunsKept DEF FourSteps
  <2>2. LinkedWhenKnown'
    BY <1>1, <1>4 DEF LinkedWhenKnown, Known
  <2>. QED
    BY <1>1, <1>3, <1>4, <2>1, <2>2, EndKeeps, ImportsParts
<1>5. CASE runRow' # runRow
  <2>1. PICK row : row = [runRow[call[c].no] EXCEPT !.status = "failed"]
                   /\ runRow' = [runRow EXCEPT ![call[c].no] = row]
    BY <1>5 DEF RecordImportFailure
  <2>2. row \in [urls : SUBSET Urls, status : {"none", "running", "success", "failed"}]
        /\ row.urls = runRow[call[c].no].urls /\ row.status = "failed"
    BY <1>1, <2>1, ImportsParts
  <2>3. runRow' \in [1 .. ImportCalls ->
                      [urls : SUBSET Urls, status : {"none", "running", "success", "failed"}]]
    BY <2>1, <2>2, ImportsParts
  <2>4. RunsKnown'
    BY <1>1, <1>2, <1>3, <2>1, RunsAfterWrite DEF FourSteps
  <2>5. LinkedWhenKnown'
    <3>1. ASSUME NEW o \in observed', ~o.linked, Known(o.url)', o \notin stranded'
          PROVE  \E n \in 1 .. ImportCalls : o.url \in runRow'[n].urls /\ runRow'[n].status \in {"running", "failed"}
      <4>1. PICK n \in 1 .. ImportCalls : o.url \in runRow[n].urls /\ runRow[n].status \in {"running", "failed"}
        BY <1>1, <3>1 DEF LinkedWhenKnown, Known
      <4>2. o.url \in runRow'[n].urls /\ runRow'[n].status \in {"running", "failed"}
        BY <2>1, <2>2, <4>1, ImportsParts
      <4>. QED
        BY <4>2
    <3>. QED
      BY <3>1 DEF LinkedWhenKnown
  <2>. QED
    BY <1>1, <1>3, <2>3, <2>4, <2>5, EndKeeps, ImportsParts
<1>. QED
  BY <1>4, <1>5

\* A request is cut short.
LEMMA CutShortKeeps ==
  ASSUME ImportsInv, NEW c \in Callers, CutShort(c)
  PROVE  ImportsInv'
<1>1. /\ ImportsTypeOK /\ RunsKnown /\ LinkedWhenKnown /\ calls \in Nat /\ calls' = calls
      /\ UNCHANGED <<article, observed, runRow, analyses, calls, stranded, overtaken>>
      /\ Ends(c) /\ call[c].urls \in SUBSET Urls /\ loose \subseteq Urls
  BY ImportsParts, CallFields DEF CutShort
<1>2. OthersStand(c) /\ call'[c] = Resting
  BY <1>1, EndFacts
<1>3. call'[c].step = "idle"
  BY <1>2, RestingFields, ImportsAssumption
<1>4. RunsKnown'
  BY <1>1, <1>2, <1>3, RunsKept DEF FourSteps
<1>5. LinkedWhenKnown'
  BY <1>1 DEF LinkedWhenKnown, Known
<1>6. loose \subseteq loose' /\ loose' \subseteq Urls /\ (call[c].kind = "observe" => call[c].urls \subseteq loose')
  BY <1>1 DEF CutShort
<1>. QED
  BY <1>1, <1>4, <1>5, <1>6, EndKeeps, ImportsParts

\* The articles of an import are written.
LEMMA UpsertArticlesKeeps ==
  ASSUME ImportsInv, NEW c \in Callers, UpsertArticles(c)
  PROVE  ImportsInv'
<1> DEFINE us == call[c].urls
<1>1. /\ ImportsTypeOK /\ CallsSane /\ OwnNumbers /\ RunsKnown /\ LinksOwed /\ LinkedWhenKnown
      /\ UnknownBare /\ PlacesOwed /\ SameText /\ OvertakenKnown
      /\ calls \in Nat /\ calls' = calls /\ call \in [Callers -> ImportCall] /\ ImportCalls \in Nat
      /\ UNCHANGED <<observed, runRow, analyses, calls, stranded, overtaken>>
      /\ call[c].step = "articles" /\ CallSane(c) /\ call[c] \in ImportCall /\ us \subseteq Urls
      /\ call[c].no \in Numbers
  BY ImportsParts, CallFields DEF UpsertArticles, CallsSane
<1>2. IsFiniteSet(us) /\ call[c].kind \in ImportKinds /\ call[c].no \in 1 .. ImportCalls
      /\ runRow[call[c].no] = [urls |-> us, status |-> "running"]
  BY <1>1 DEF CallSane, RunsKnown, FourSteps, Numbers
<1>3. PerUrl(us) \in Seq(Tables \X Urls) /\ Range(PerUrl(us)) = {"profile"} \X us
  BY <1>1, <1>2, PerUrlSeq
<1>4. PICK r : /\ r = [call[c] EXCEPT !.step = "link", !.todo = PerUrl(us)]
               /\ call' = [call EXCEPT ![c] = r]
  BY DEF UpsertArticles
<1>5. /\ r \in ImportCall /\ r.step = "link" /\ r.todo = PerUrl(us) /\ SameCall(r, call[c])
  <2>1. "link" \in ImportSteps
    BY DEF ImportSteps
  <2>. QED
    BY <1>1, <1>3, <1>4, <2>1 DEF ImportCall, SameCall
<1>6. /\ call' \in [Callers -> ImportCall] /\ OthersStand(c) /\ call'[c] = r /\ call'[c].urls = us
      /\ call'[c].kind = call[c].kind /\ call'[c].no = call[c].no
  BY <1>1, <1>4, <1>5 DEF OthersStand, SameCall
<1>7. \A u \in Urls : /\ u \in us => article'[u] = Upserted(c, u)
                      /\ u \notin us => article'[u] = article[u]
  BY DEF UpsertArticles
<1>8. \A u \in Urls : /\ Upserted(c, u) \in [known : BOOLEAN, place : Numbers] /\ Upserted(c, u).known
                      /\ ~call[c].placed => Upserted(c, u).place = article[u].place
  BY <1>1, ImportsParts DEF Upserted
<1> HIDE DEF us
<1>9. \A u \in Urls : /\ Known(u)' <=> Known(u) \/ u \in us
                      /\ u \notin us => article'[u] = article[u]
  BY <1>7, <1>8 DEF Known
<1>10. \A u \in Urls : LatestPlace(u)' = LatestPlace(u)
  BY <1>1 DEF LatestPlace, LinkedTo
<1>11. \A o \in observed : o.url \in Urls
  BY <1>1 DEF ImportsTypeOK, Observation
<1>12. ImportsTypeOK'
  <2>1. article' \in [Urls -> [known : BOOLEAN, place : Numbers]]
    <3>1. \A u \in Urls : article'[u] \in [known : BOOLEAN, place : Numbers]
      BY <1>1, <1>7, <1>8 DEF ImportsTypeOK
    <3>2. article' = [u \in Urls |-> article'[u]]
      BY DEF UpsertArticles
    <3>. QED
      BY <3>1, <3>2
  <2>2. loose' \subseteq Urls
    BY <1>1 DEF UpsertArticles, ImportsTypeOK, us
  <2>. QED
    BY <1>1, <1>6, <2>1, <2>2 DEF ImportsTypeOK
<1>13. CallsSane'
  <2>1. CallSane(c)'
    BY <1>1, <1>2, <1>3, <1>5, <1>6 DEF CallSane, SameCall, FourSteps, Saving
  <2>2. \A d \in Callers : d # c => CallSane(d)'
    BY <1>1, <1>6, OthersSane
  <2>. QED
    BY <2>1, <2>2 DEF CallsSane
<1>14. OwnNumbers'
  BY <1>1, <1>6, NumbersKept
<1>15. RunsKnown'
  BY <1>1, <1>5, <1>6, RunsKept DEF FourSteps, us
<1>16. LinksOwed'
  <2>1. ASSUME NEW d \in Callers, call'[d].step \in {"link", "result"}
        PROVE  /\ \A u \in call'[d].urls : Known(u)'
               /\ \A o \in observed' : ~o.linked /\ o.url \in call'[d].urls
                                         => call'[d].step = "link" /\ Owed(d, o.url)'
    <3>1. CASE d = c
      <4>1. \A u \in us : Known(u)' /\ Owed(c, u)'
        BY <1>1, <1>3, <1>5, <1>6, <1>9 DEF Owed
      <4>. QED
        BY <1>5, <1>6, <3>1, <4>1
    <3>2. CASE d # c
      <4>1. call'[d] = call[d] /\ call[d].urls \subseteq Urls
        BY <1>6, <1>1, <3>2, CallFields DEF OthersStand
      <4>. QED
        BY <1>1, <1>9, <2>1, <4>1 DEF LinksOwed, Owed
    <3>. QED
      BY <3>1, <3>2
  <2>. QED
    BY <2>1 DEF LinksOwed
<1>17. LinkedWhenKnown'
  <2>1. ASSUME NEW o \in observed', ~o.linked, Known(o.url)', o \notin stranded'
        PROVE  \E n \in 1 .. ImportCalls : o.url \in runRow'[n].urls /\ runRow'[n].status \in {"running", "failed"}
    <3>1. o \in observed /\ o.url \in Urls
      BY <1>1, <1>11
    <3>2. CASE Known(o.url)
      BY <1>1, <2>1, <3>1, <3>2 DEF LinkedWhenKnown
    <3>3. CASE o.url \in us
      <4>1. o.url \in runRow'[call[c].no].urls /\ runRow'[call[c].no].status = "running"
        BY <1>1, <1>2, <3>3
      <4>. QED
        BY <1>2, <4>1
    <3>. QED
      BY <1>9, <2>1, <3>1, <3>2, <3>3
  <2>. QED
    BY <2>1 DEF LinkedWhenKnown
<1>18. UnknownBare' /\ SameText'
  <2>1. \A u \in Urls : ~Known(u)' => article'[u].place = 0
    BY <1>1, <1>9 DEF UnknownBare
  <2>2. \A o \in observed' : o.linked => Known(o.url)'
    BY <1>1, <1>9, <1>11 DEF UnknownBare
  <2>. QED
    BY <1>1, <2>1, <2>2 DEF UnknownBare, SameText
<1>19. PlacesOwed'
  <2>1. ASSUME NEW u \in Urls
        PROVE  \/ ~Known(u)' \/ u \in loose' \/ article'[u].place = LatestPlace(u)'
               \/ \E d \in Callers : ToPlace(d, u)'
    <3>1. CASE u \in us /\ call[c].placed
      BY <1>1, <3>1 DEF UpsertArticles, us
    <3>2. CASE ~(u \in us /\ call[c].placed) /\ Known(u)
      <4>1. article'[u].place = article[u].place /\ LatestPlace(u)' = LatestPlace(u)
        BY <1>7, <1>8, <1>10, <3>2 DEF us
      <4>2. loose \subseteq loose'
        BY DEF UpsertArticles
      <4>3. ASSUME NEW d \in Callers, ToPlace(d, u) PROVE ToPlace(d, u)'
        <5>1. d # c
          BY <1>2, <4>3 DEF ToPlace, ImportKinds
        <5>2. call'[d] = call[d]
          BY <1>6, <5>1 DEF OthersStand
        <5>. QED
          BY <4>3, <5>2 DEF ToPlace, Owed
      <4>. QED
        BY <1>1, <3>2, <4>1, <4>2, <4>3 DEF PlacesOwed
    <3>3. CASE ~(u \in us /\ call[c].placed) /\ ~Known(u)
      <4>1. CASE u \in us
        <5>1. article'[u].place = 0
          BY <1>1, <1>7, <1>8, <3>3, <4>1 DEF UnknownBare
        <5>2. LatestPlace(u)' = 0
          <6>1. LinkedTo(u) = {}
            BY <1>1, <3>3 DEF LinkedTo, UnknownBare
          <6>. QED
            BY <1>10, <6>1 DEF LatestPlace
        <5>. QED
          BY <5>1, <5>2
      <4>2. CASE u \notin us
        BY <1>9, <3>3, <4>2
      <4>. QED
        BY <4>1, <4>2
    <3>. QED
      BY <3>1, <3>2, <3>3
  <2>. QED
    BY <2>1 DEF PlacesOwed
<1>20. OvertakenKnown'
  BY <1>1, <1>5, <1>6, OvertakenStands
<1>. QED
  BY <1>12, <1>13, <1>14, <1>15, <1>16, <1>17, <1>18, <1>19, <1>20 DEF ImportsInv

\* A batch of links is written.
LEMMA LinkObservationsKeeps ==
  ASSUME ImportsInv, NEW c \in Callers, LinkObservations(c)
  PROVE  ImportsInv'
<1> DEFINE us    == call[c].urls
           found == Unlinked(BatchUrls(c))
<1>1. /\ ImportsTypeOK /\ CallsSane /\ OwnNumbers /\ RunsKnown /\ LinksOwed /\ LinkedWhenKnown
      /\ UnknownBare /\ PlacesOwed /\ SameText /\ OvertakenKnown
      /\ calls \in Nat /\ calls' = calls /\ call \in [Callers -> ImportCall] /\ ImportCalls \in Nat
      /\ UNCHANGED <<article, runRow, analyses, calls, stranded, overtaken>>
      /\ call[c].step = "link" /\ CallSane(c) /\ call[c] \in ImportCall /\ us \subseteq Urls
      /\ observed \subseteq Observation /\ loose \subseteq Urls
  BY ImportsParts, CallFields DEF LinkObservations, CallsSane
<1>2. /\ observed' = (observed \ found) \cup {[o EXCEPT !.linked = TRUE] : o \in found}
      /\ loose' = loose \cup {o.url : o \in found}
      /\ Sent(c, "result", << >>)
  BY DEF LinkObservations
<1>3. /\ call[c].kind \in ImportKinds /\ Range(call[c].todo) \subseteq {"profile"} \X us
  BY <1>1 DEF CallSane, FourSteps
<1>4. /\ Range(Remaining(c)) \subseteq {"profile"} \X us /\ BatchUrls(c) \subseteq us
      /\ \A u \in Urls : Owed(c, u) => u \in BatchUrls(c) \/ <<"profile", u>> \in Range(Remaining(c))
      /\ \A u \in Urls : AllSent(c) /\ Owed(c, u) => u \in BatchUrls(c)
  BY <1>1, <1>3, BatchOfOneTable
<1>5. /\ call' \in [Callers -> ImportCall] /\ OthersStand(c)
      /\ SameCall(call'[c], call[c])
      /\ \/ ~AllSent(c) /\ call'[c].step = "link" /\ call'[c].todo = Remaining(c)
         \/ AllSent(c) /\ call'[c].step = "result" /\ call'[c].todo = << >>
  <2>1. "result" \in ImportSteps /\ "result" # "idle" /\ << >> \in Seq(Tables \X Urls)
    BY DEF ImportSteps
  <2>. QED
    BY <1>1, <1>2, <2>1, SentFacts
<1>6. /\ call'[c].urls = us /\ call'[c].kind = call[c].kind /\ call'[c].no = call[c].no
  BY <1>5 DEF SameCall
<1> HIDE DEF us
<1>7. /\ \A o \in found : o \in observed /\ o.url \in BatchUrls(c) /\ ~o.linked
      /\ \A o \in observed : o.url \in BatchUrls(c) /\ ~o.linked => o \in found
  BY DEF Unlinked
<1> HIDE DEF found
<1>8. \A o \in found : /\ [o EXCEPT !.linked = TRUE] \in Observation
                       /\ [o EXCEPT !.linked = TRUE].linked
                       /\ [o EXCEPT !.linked = TRUE].url = o.url
  BY <1>1, <1>7 DEF Observation
<1>9. \A o \in observed' : \/ o \in observed /\ o \notin found
                           \/ o.linked /\ o.url \in BatchUrls(c)
  BY <1>2, <1>7, <1>8
<1>10. \A u \in Urls : Known(u)' <=> Known(u)
  BY <1>1 DEF Known
<1>11. \A o \in observed : o.url \in Urls
  BY <1>1 DEF Observation
<1>12. ImportsTypeOK'
  <2>1. observed' \subseteq Observation /\ loose' \subseteq Urls
    BY <1>1, <1>2, <1>7, <1>8, <1>11
  <2>. QED
    BY <1>1, <1>5, <2>1 DEF ImportsTypeOK
<1>13. CallsSane'
  <2>1. CallSane(c)'
    <3>1. Range(call'[c].todo) \subseteq {"profile"} \X us
      BY <1>4, <1>5 DEF Range
    <3>. QED
      BY <1>1, <1>3, <1>5, <1>6, <3>1 DEF CallSane, SameCall, FourSteps, Saving
  <2>2. \A d \in Callers : d # c => CallSane(d)'
    BY <1>1, <1>5, OthersSane
  <2>. QED
    BY <2>1, <2>2 DEF CallsSane
<1>14. OwnNumbers'
  BY <1>1, <1>5, <1>6, NumbersKept
<1>15. RunsKnown'
  BY <1>1, <1>5, <1>6, RunsKept DEF FourSteps, us
<1>16. LinksOwed'
  <2>1. ASSUME NEW d \in Callers, call'[d].step \in {"link", "result"}, NEW u \in call'[d].urls
        PROVE  Known(u)'
    <3>1. d = c \/ call'[d] = call[d]
      BY <1>5 DEF OthersStand
    <3>2. call[d].step \in {"link", "result"} /\ u \in call[d].urls /\ u \in Urls
      BY <1>1, <1>6, <2>1, <3>1, CallFields DEF us
    <3>. QED
      BY <1>1, <1>10, <3>2 DEF LinksOwed
  <2>2. ASSUME NEW d \in Callers, call'[d].step \in {"link", "result"},
               NEW o \in observed', ~o.linked, o.url \in call'[d].urls
        PROVE  call'[d].step = "link" /\ Owed(d, o.url)'
    <3>1. o \in observed /\ o \notin found /\ o.url \in Urls
      BY <1>9, <1>11, <2>2
    <3>2. CASE d # c
      <4>1. call'[d] = call[d]
        BY <1>5, <3>2 DEF OthersStand
      <4>. QED
        BY <1>1, <2>2, <3>1, <4>1 DEF LinksOwed, Owed
    <3>3. CASE d = c
      <4>1. o.url \in us /\ Owed(c, o.url)
        BY <1>1, <1>6, <2>2, <3>1, <3>3 DEF LinksOwed, us
      <4>2. o.url \notin BatchUrls(c)
        BY <1>7, <2>2, <3>1
      <4>3. ~AllSent(c) /\ <<"profile", o.url>> \in Range(Remaining(c))
        BY <1>4, <3>1, <4>1, <4>2
      <4>. QED
        BY <1>5, <3>3, <4>3 DEF Owed
    <3>. QED
      BY <3>2, <3>3
  <2>. QED
    BY <2>1, <2>2 DEF LinksOwed
<1>17. LinkedWhenKnown'
  <2>1. ASSUME NEW o \in observed', ~o.linked, Known(o.url)', o \notin stranded'
        PROVE  \E n \in 1 .. ImportCalls : o.url \in runRow'[n].urls /\ runRow'[n].status \in {"running", "failed"}
    <3>1. o \in observed /\ Known(o.url)
      BY <1>9, <1>10, <1>11, <2>1
    <3>. QED
      BY <1>1, <2>1, <3>1 DEF LinkedWhenKnown
  <2>. QED
    BY <2>1 DEF LinkedWhenKnown
<1>18. UnknownBare' /\ SameText'
  <2>1. ASSUME NEW o \in observed', o.linked PROVE Known(o.url)'
    <3>1. CASE o \in observed
      BY <1>1, <1>10, <1>11, <2>1, <3>1 DEF UnknownBare
    <3>2. CASE o.url \in BatchUrls(c)
      BY <1>1, <1>4, <1>10, <3>2 DEF LinksOwed, us
    <3>. QED
      BY <1>9, <2>1, <3>1, <3>2
  <2>2. \A u \in Urls : ~Known(u)' => article'[u].place = 0
    BY <1>1, <1>10 DEF UnknownBare
  <2>. QED
    BY <1>1, <2>1, <2>2 DEF UnknownBare, SameText
<1>19. PlacesOwed'
  <2>1. ASSUME NEW u \in Urls
        PROVE  \/ ~Known(u)' \/ u \in loose' \/ article'[u].place = LatestPlace(u)'
               \/ \E d \in Callers : ToPlace(d, u)'
    <3>1. CASE \E o \in found : o.url = u
      BY <1>2, <3>1
    <3>2. CASE ~\E o \in found : o.url = u
      <4>1. LinkedTo(u)' = LinkedTo(u)
        <5>1. ASSUME NEW o \in LinkedTo(u) PROVE o \in LinkedTo(u)'
          BY <1>2, <1>7 DEF LinkedTo
        <5>2. ASSUME NEW o \in LinkedTo(u)' PROVE o \in LinkedTo(u)
          BY <1>2, <1>8, <3>2 DEF LinkedTo
        <5>. QED
          BY <5>1, <5>2
      <4>2. LatestPlace(u)' = LatestPlace(u)
        BY <4>1 DEF LatestPlace
      <4>3. ASSUME NEW d \in Callers, ToPlace(d, u) PROVE ToPlace(d, u)'
        <5>1. d # c
          BY <1>3, <4>3 DEF ToPlace, ImportKinds
        <5>2. call'[d] = call[d]
          BY <1>5, <5>1 DEF OthersStand
        <5>. QED
          BY <4>3, <5>2 DEF ToPlace, Owed
      <4>. QED
        BY <1>1, <1>2, <1>10, <4>2, <4>3 DEF PlacesOwed
    <3>. QED
      BY <3>1, <3>2
  <2>. QED
    BY <2>1 DEF PlacesOwed
<1>20. OvertakenKnown'
  BY <1>1, <1>5, OvertakenStands
<1>. QED
  BY <1>12, <1>13, <1>14, <1>15, <1>16, <1>17, <1>18, <1>19, <1>20 DEF ImportsInv

\* An import records its success.
LEMMA RecordResultsKeeps ==
  ASSUME ImportsInv, NEW c \in Callers, RecordResults(c)
  PROVE  ImportsInv'
<1> DEFINE us == call[c].urls
           no == call[c].no
<1>1. /\ ImportsTypeOK /\ CallsSane /\ OwnNumbers /\ RunsKnown /\ LinksOwed /\ LinkedWhenKnown
      /\ UnknownBare /\ PlacesOwed /\ SameText /\ OvertakenKnown
      /\ calls \in Nat /\ calls' = calls /\ call \in [Callers -> ImportCall] /\ ImportCalls \in Nat
      /\ UNCHANGED <<article, observed, analyses, calls, loose, stranded, overtaken>>
      /\ call[c].step = "result" /\ CallSane(c) /\ call[c] \in ImportCall /\ us \subseteq Urls
      /\ no \in Numbers
  BY ImportsParts, CallFields DEF RecordResults, CallsSane
<1>2. /\ IsFiniteSet(us) /\ call[c].kind \in ImportKinds /\ no \in 1 .. ImportCalls
      /\ runRow[no] = [urls |-> us, status |-> "running"]
  BY <1>1 DEF CallSane, RunsKnown, FourSteps, Numbers
<1>3. PICK row : row = [runRow[no] EXCEPT !.status = "success"] /\ runRow' = [runRow EXCEPT ![no] = row]
  BY DEF RecordResults
<1>4. /\ row.urls = us /\ row.status = "success"
      /\ row \in [urls : SUBSET Urls, status : {"none", "running", "success", "failed"}]
  BY <1>1, <1>2, <1>3
<1>5. /\ runRow' \in [1 .. ImportCalls ->
                       [urls : SUBSET Urls, status : {"none", "running", "success", "failed"}]]
      /\ \A n \in 1 .. ImportCalls : n # no => runRow'[n] = runRow[n]
  BY <1>3, <1>4, ImportsParts
<1>6. LinkedWhenKnown'
  <2>1. ASSUME NEW o \in observed', ~o.linked, Known(o.url)', o \notin stranded'
        PROVE  \E n \in 1 .. ImportCalls : o.url \in runRow'[n].urls /\ runRow'[n].status \in {"running", "failed"}
    <3>1. PICK n \in 1 .. ImportCalls : o.url \in runRow[n].urls /\ runRow[n].status \in {"running", "failed"}
      BY <1>1, <2>1 DEF LinkedWhenKnown, Known
    <3>2. n # no
      <4>1. o.url \notin us
        BY <1>1, <2>1 DEF LinksOwed
      <4>. QED
        BY <1>2, <3>1, <4>1
    <3>. QED
      BY <1>5, <3>1, <3>2
  <2>. QED
    BY <2>1 DEF LinkedWhenKnown
<1>7. CASE call[c].kind = "import"
  <2>1. Ends(c)
    BY <1>7 DEF RecordResults
  <2>2. OthersStand(c) /\ call'[c] = Resting /\ call'[c].step = "idle"
    BY <1>1, <2>1, EndFacts, RestingFields, ImportsAssumption
  <2>3. RunsKnown'
    BY <1>1, <1>3, <2>2, RunsAfterWrite DEF FourSteps
  <2>4. call[c].kind # "observe" /\ loose' \subseteq Urls
    BY <1>1, <1>7, ImportsParts
  <2>. QED
    BY <1>1, <1>5, <1>6, <2>1, <2>3, <2>4, EndKeeps
<1>8. CASE call[c].kind # "import"
  <2> DEFINE todo == AnalysisStatements(call[c].kind, us)
  <2>1. todo \in Seq(Tables \X Urls) /\ (call[c].kind # "analyzed" => TwoByTwo(todo))
    BY <1>1, <1>2, StatementsSeq
  <2>2. PICK r : r = [call[c] EXCEPT !.step = "save", !.todo = todo] /\ call' = [call EXCEPT ![c] = r]
    BY <1>8 DEF RecordResults
  <2> HIDE DEF todo
  <2>3. /\ r \in ImportCall /\ r.step = "save" /\ r.todo = todo /\ SameCall(r, call[c])
    <3>1. "save" \in ImportSteps
      BY DEF ImportSteps
    <3>. QED
      BY <1>1, <2>1, <2>2, <3>1 DEF ImportCall, SameCall
  <2>4. /\ call' \in [Callers -> ImportCall] /\ OthersStand(c) /\ call'[c] = r
        /\ call'[c].kind = call[c].kind /\ call'[c].no = no
    BY <1>1, <2>2, <2>3 DEF OthersStand, SameCall
  <2>5. ImportsTypeOK'
    BY <1>1, <1>5, <2>4 DEF ImportsTypeOK
  <2>6. CallsSane'
    <3>1. CallSane(c)'
      BY <1>1, <1>2, <1>8, <2>1, <2>3, <2>4 DEF CallSane, SameCall, FourSteps, Saving, ImportKinds
    <3>2. \A d \in Callers : d # c => CallSane(d)'
      BY <1>1, <2>4, OthersSane
    <3>. QED
      BY <3>1, <3>2 DEF CallsSane
  <2>7. OwnNumbers'
    BY <1>1, <2>4, NumbersKept
  <2>8. RunsKnown'
    <3>1. call'[c].step \notin FourSteps \cup {"run", "record"}
      BY <2>3, <2>4 DEF FourSteps
    <3>. QED
      BY <1>1, <1>3, <2>4, <3>1, RunsAfterWrite
  <2>9. LinksOwed'
    BY <1>1, <2>3, <2>4, LinksKept
  <2>10. PlacesOwed'
    <3>1. \A u \in Urls : ~ToPlace(c, u)
      BY <1>2 DEF ToPlace, ImportKinds
    <3>. QED
      BY <1>1, <2>4, <3>1, PlacesKept
  <2>11. OvertakenKnown'
    <3>1. call'[c].kind # "transient"
      BY <1>2, <2>4 DEF ImportKinds
    <3>. QED
      BY <1>1, <2>4, <3>1, OvertakenStands
  <2>12. UnknownBare' /\ SameText'
    BY <1>1, RestKept
  <2>. QED
    BY <1>6, <2>5, <2>6, <2>7, <2>8, <2>9, <2>10, <2>11, <2>12 DEF ImportsInv
<1>. QED
  BY <1>7, <1>8

\* A batch of observations is written.
LEMMA WriteObservationsKeeps ==
  ASSUME ImportsInv, NEW c \in Callers, WriteObservations(c)
  PROVE  ImportsInv'
<1> DEFINE us      == call[c].urls
           kept    == {o \in observed : ~(o.at = call[c].at /\ o.url \in BatchUrls(c))}
           written == {[at |-> call[c].at, url |-> u, place |-> call[c].no, linked |-> Known(u)] : u \in BatchUrls(c)}
<1>1. /\ ImportsTypeOK /\ CallsSane /\ OwnNumbers /\ RunsKnown /\ LinksOwed /\ LinkedWhenKnown
      /\ UnknownBare /\ PlacesOwed /\ SameText /\ OvertakenKnown
      /\ calls \in Nat /\ calls' = calls /\ call \in [Callers -> ImportCall] /\ ImportCalls \in Nat
      /\ UNCHANGED <<article, runRow, analyses, calls, loose, stranded, overtaken>>
      /\ call[c].step = "observe" /\ CallSane(c) /\ call[c] \in ImportCall /\ us \subseteq Urls
      /\ observed \subseteq Observation /\ call[c].no \in Numbers
  BY ImportsParts, CallFields DEF WriteObservations, CallsSane
<1>2. observed' = kept \cup written /\ Sent(c, "place", PerUrl(us))
  BY DEF WriteObservations
<1>3. /\ call[c].kind = "observe" /\ Range(call[c].todo) \subseteq {"profile"} \X us /\ IsFiniteSet(us)
      /\ call[c].at \in Times /\ call[c].no \in 1 .. ImportCalls
  BY <1>1 DEF CallSane, Numbers
<1>4. Range(Remaining(c)) \subseteq {"profile"} \X us /\ BatchUrls(c) \subseteq us
  BY <1>1, <1>3, BatchOfOneTable
<1>5. PerUrl(us) \in Seq(Tables \X Urls) /\ Range(PerUrl(us)) = {"profile"} \X us
  BY <1>1, <1>3, PerUrlSeq
<1>6. /\ call' \in [Callers -> ImportCall] /\ OthersStand(c)
      /\ SameCall(call'[c], call[c])
      /\ \/ call'[c].step = "observe" /\ call'[c].todo = Remaining(c)
         \/ call'[c].step = "place" /\ call'[c].todo = PerUrl(us)
  <2>1. "place" \in ImportSteps /\ "place" # "idle"
    BY DEF ImportSteps
  <2>. QED
    BY <1>1, <1>2, <1>5, <2>1, SentFacts
<1>7. /\ call'[c].urls = us /\ call'[c].kind = "observe" /\ call'[c].no = call[c].no
      /\ call'[c].step \in {"observe", "place"}
  BY <1>3, <1>6 DEF SameCall
<1> HIDE DEF us
<1>8. /\ \A u \in Urls : Known(u)' <=> Known(u)
      /\ \A u \in Urls : Known(u) \in BOOLEAN
  BY <1>1 DEF Known, ImportsTypeOK
<1>9. \A o \in written : /\ o.url \in BatchUrls(c) /\ o.url \in Urls /\ o.linked = Known(o.url)
                         /\ o \in Observation
  <2>1. ASSUME NEW u \in BatchUrls(c)
        PROVE  [at |-> call[c].at, url |-> u, place |-> call[c].no, linked |-> Known(u)] \in Observation
    BY <1>1, <1>3, <1>4, <1>8 DEF Observation
  <2>. QED
    BY <1>1, <1>4, <2>1
<1> HIDE DEF written
<1>10. \A o \in kept : o \in observed /\ (o.url \in Urls)
  BY <1>1 DEF Observation
<1>11. \A o \in observed : o.url \notin BatchUrls(c) => o \in kept
  OBVIOUS
<1> HIDE DEF kept
<1>12. ImportsTypeOK'
  <2>1. observed' \subseteq Observation
    BY <1>1, <1>2, <1>9, <1>10
  <2>. QED
    BY <1>1, <1>6, <2>1 DEF ImportsTypeOK
<1>13. CallsSane'
  <2>1. CallSane(c)'
    <3>1. Range(call'[c].todo) \subseteq {"profile"} \X us
      BY <1>4, <1>5, <1>6
    <3>. QED
      BY <1>1, <1>3, <1>6, <1>7, <3>1 DEF CallSane, SameCall, FourSteps, Saving
  <2>2. \A d \in Callers : d # c => CallSane(d)'
    BY <1>1, <1>6, OthersSane
  <2>. QED
    BY <2>1, <2>2 DEF CallsSane
<1>14. OwnNumbers'
  BY <1>1, <1>6, <1>7, NumbersKept
<1>15. RunsKnown'
  <2>1. call'[c].step \notin FourSteps \cup {"run", "record"}
    BY <1>7 DEF FourSteps
  <2>. QED
    BY <1>1, <1>6, <2>1, RunsKept
<1>16. LinksOwed'
  <2>1. ASSUME NEW d \in Callers, call'[d].step \in {"link", "result"}
        PROVE  /\ call'[d] = call[d] /\ call[d].urls \subseteq Urls
               /\ \A u \in call[d].urls : Known(u)
    <3>1. d # c
      BY <1>7, <2>1
    <3>2. call'[d] = call[d]
      BY <1>6, <3>1 DEF OthersStand
    <3>. QED
      BY <1>1, <2>1, <3>2, CallFields DEF LinksOwed
  <2>2. ASSUME NEW d \in Callers, call'[d].step \in {"link", "result"},
               NEW o \in observed', ~o.linked, o.url \in call'[d].urls
        PROVE  call'[d].step = "link" /\ Owed(d, o.url)'
    <3>1. call'[d] = call[d] /\ Known(o.url)
      BY <2>1, <2>2
    <3>2. o \in observed
      BY <1>2, <1>9, <1>10, <2>2, <3>1
    <3>. QED
      BY <1>1, <2>2, <3>1, <3>2 DEF LinksOwed, Owed
  <2>. QED
    BY <1>8, <2>1, <2>2 DEF LinksOwed
<1>17. LinkedWhenKnown'
  <2>1. ASSUME NEW o \in observed', ~o.linked, Known(o.url)', o \notin stranded'
        PROVE  \E n \in 1 .. ImportCalls : o.url \in runRow'[n].urls /\ runRow'[n].status \in {"running", "failed"}
    <3>1. o \in observed /\ Known(o.url)
      BY <1>2, <1>8, <1>9, <1>10, <2>1
    <3>. QED
      BY <1>1, <2>1, <3>1 DEF LinkedWhenKnown
  <2>. QED
    BY <2>1 DEF LinkedWhenKnown
<1>18. UnknownBare' /\ SameText'
  <2>1. ASSUME NEW o \in observed', o.linked PROVE Known(o.url)'
    BY <1>1, <1>2, <1>8, <1>9, <1>10, <2>1 DEF UnknownBare
  <2>2. \A u \in Urls : ~Known(u)' => article'[u].place = 0
    BY <1>1, <1>8 DEF UnknownBare
  <2>. QED
    BY <1>1, <2>1, <2>2 DEF UnknownBare, SameText
<1>19. PlacesOwed'
  <2>1. ASSUME NEW u \in Urls
        PROVE  \/ ~Known(u)' \/ u \in loose' \/ article'[u].place = LatestPlace(u)'
               \/ \E d \in Callers : ToPlace(d, u)'
    <3>1. ToPlace(c, u)' <=> u \in us
      <4>1. u \in us => <<"profile", u>> \in Range(PerUrl(us))
        BY <1>5
      <4>2. call'[c].step = "observe" \/ (u \in us => Owed(c, u)')
        BY <1>6, <4>1 DEF Owed
      <4>. QED
        BY <1>7, <4>2 DEF ToPlace
    <3>2. CASE u \in us
      BY <3>1, <3>2
    <3>3. CASE u \notin us
      <4>1. LinkedTo(u)' = LinkedTo(u)
        <5>1. ASSUME NEW o \in LinkedTo(u) PROVE o \in LinkedTo(u)'
          BY <1>2, <1>4, <1>11, <3>3 DEF LinkedTo
        <5>2. ASSUME NEW o \in LinkedTo(u)' PROVE o \in LinkedTo(u)
          BY <1>2, <1>4, <1>9, <1>10, <3>3 DEF LinkedTo
        <5>. QED
          BY <5>1, <5>2
      <4>2. LatestPlace(u)' = LatestPlace(u)
        BY <4>1 DEF LatestPlace
      <4>3. ASSUME NEW d \in Callers, ToPlace(d, u) PROVE ToPlace(d, u)'
        <5>1. d # c
          BY <3>3, <4>3 DEF ToPlace, us
        <5>2. call'[d] = call[d]
          BY <1>6, <5>1 DEF OthersStand
        <5>. QED
          BY <4>3, <5>2 DEF ToPlace, Owed
      <4>. QED
        BY <1>1, <1>8, <4>2, <4>3 DEF PlacesOwed
    <3>. QED
      BY <3>2, <3>3
  <2>. QED
    BY <2>1 DEF PlacesOwed
<1>20. OvertakenKnown'
  BY <1>1, <1>6, <1>7, OvertakenStands
<1>. QED
  BY <1>12, <1>13, <1>14, <1>15, <1>16, <1>17, <1>18, <1>19, <1>20 DEF ImportsInv

\* A batch of articles is placed.
LEMMA PlaceArticlesKeeps ==
  ASSUME ImportsInv, NEW c \in Callers, PlaceArticles(c)
  PROVE  ImportsInv'
<1> DEFINE us == call[c].urls
<1>1. /\ ImportsTypeOK /\ CallsSane /\ OwnNumbers /\ RunsKnown /\ LinksOwed /\ LinkedWhenKnown
      /\ UnknownBare /\ PlacesOwed /\ SameText /\ OvertakenKnown
      /\ calls \in Nat /\ calls' = calls /\ call \in [Callers -> ImportCall] /\ ImportCalls \in Nat
      /\ UNCHANGED <<observed, runRow, analyses, calls, stranded, overtaken>>
      /\ call[c].step = "place" /\ CallSane(c) /\ call[c] \in ImportCall /\ us \subseteq Urls
      /\ loose \subseteq Urls /\ article \in [Urls -> [known : BOOLEAN, place : Numbers]]
  BY ImportsParts, CallFields DEF PlaceArticles, CallsSane
<1>2. /\ call[c].kind = "observe" /\ Range(call[c].todo) \subseteq {"profile"} \X us
  BY <1>1 DEF CallSane
<1>3. /\ Range(Remaining(c)) \subseteq {"profile"} \X us /\ BatchUrls(c) \subseteq us
      /\ \A u \in Urls : Owed(c, u) => u \in BatchUrls(c) \/ <<"profile", u>> \in Range(Remaining(c))
      /\ \A u \in Urls : AllSent(c) /\ Owed(c, u) => u \in BatchUrls(c)
  BY <1>1, <1>2, BatchOfOneTable
<1>4. /\ call' \in [Callers -> ImportCall] /\ OthersStand(c)
      /\ \/ /\ ~AllSent(c) /\ SameCall(call'[c], call[c])
            /\ call'[c].step = "place" /\ call'[c].todo = Remaining(c)
         \/ AllSent(c) /\ call'[c] = Resting
  <2>1. "idle" \in ImportSteps /\ << >> \in Seq(Tables \X Urls) /\ Sent(c, "idle", << >>)
    BY DEF ImportSteps, PlaceArticles
  <2>. QED
    BY <1>1, <2>1, SentFacts
<1>5. /\ call'[c].step \in {"idle", "place"}
      /\ ~AllSent(c) => /\ call'[c].urls = us /\ call'[c].kind = "observe"
                        /\ call'[c].no = call[c].no /\ call'[c].todo = Remaining(c)
  BY <1>2, <1>4, RestingFields, ImportsAssumption DEF SameCall
<1>6. \A u \in Urls :
        /\ u \in BatchUrls(c) /\ Known(u) => article'[u] = [article[u] EXCEPT !.place = LatestPlace(u)]
        /\ ~(u \in BatchUrls(c) /\ Known(u)) => article'[u] = article[u]
  BY DEF PlaceArticles, ShownPlace
<1>7. \A u \in Urls :
        /\ article'[u] \in [known : BOOLEAN, place : Numbers]
        /\ Known(u)' <=> Known(u)
        /\ u \in BatchUrls(c) /\ Known(u) => article'[u].place = LatestPlace(u)
        /\ ~(u \in BatchUrls(c) /\ Known(u)) => article'[u] = article[u]
  <2>1. ASSUME NEW u \in Urls
        PROVE  /\ article'[u] \in [known : BOOLEAN, place : Numbers]
               /\ article'[u].known = article[u].known
               /\ u \in BatchUrls(c) /\ Known(u) => article'[u].place = LatestPlace(u)
               /\ ~(u \in BatchUrls(c) /\ Known(u)) => article'[u] = article[u]
    <3>1. LatestPlace(u) \in Numbers /\ article[u] \in [known : BOOLEAN, place : Numbers]
      BY <1>1, LatestExists
    <3>. QED
      BY <1>6, <3>1
  <2>. QED
    BY <2>1 DEF Known
<1>8. \A u \in Urls : LatestPlace(u)' = LatestPlace(u)
  BY <1>1 DEF LatestPlace, LinkedTo
<1>9. loose' = loose \ BatchUrls(c)
  BY DEF PlaceArticles
<1> HIDE DEF us
<1>10. \A o \in observed : o.url \in Urls
  BY <1>1 DEF ImportsTypeOK, Observation
<1>11. ImportsTypeOK'
  <2>1. article' = [u \in Urls |-> article'[u]]
    BY DEF PlaceArticles
  <2>2. article' \in [Urls -> [known : BOOLEAN, place : Numbers]]
    BY <1>7, <2>1
  <2>. QED
    BY <1>1, <1>4, <1>9, <2>2 DEF ImportsTypeOK
<1>12. CallsSane'
  <2>1. CallSane(c)'
    <3>1. CASE ~AllSent(c)
      BY <1>1, <1>2, <1>3, <1>4, <1>5, <3>1 DEF CallSane, SameCall, FourSteps, Saving
    <3>2. CASE AllSent(c)
      BY <1>4, <3>2, FS_EmptySet, RestingFields, ImportsAssumption DEF CallSane, FourSteps, Saving
    <3>. QED
      BY <3>1, <3>2
  <2>2. \A d \in Callers : d # c => CallSane(d)'
    BY <1>1, <1>4, OthersSane
  <2>. QED
    BY <2>1, <2>2 DEF CallsSane
<1>13. OwnNumbers'
  <2>1. call'[c].step = "idle" \/ (call[c].step # "idle" /\ call'[c].no = call[c].no)
    BY <1>1, <1>4, <1>5, RestingFields, ImportsAssumption
  <2>. QED
    BY <1>1, <1>4, <2>1, NumbersKept
<1>14. RunsKnown'
  <2>1. call'[c].step \notin FourSteps \cup {"run", "record"}
    BY <1>5 DEF FourSteps
  <2>. QED
    BY <1>1, <1>4, <2>1, RunsKept
<1>15. LinksOwed'
  <2>1. ASSUME NEW d \in Callers, call'[d].step \in {"link", "result"}
        PROVE  /\ \A u \in call'[d].urls : Known(u)'
               /\ \A o \in observed' : ~o.linked /\ o.url \in call'[d].urls
                                         => call'[d].step = "link" /\ Owed(d, o.url)'
    <3>1. d # c
      BY <1>5, <2>1
    <3>2. call'[d] = call[d] /\ call[d].urls \subseteq Urls
      BY <1>1, <1>4, <3>1, CallFields DEF OthersStand
    <3>. QED
      BY <1>1, <1>7, <2>1, <3>2 DEF LinksOwed, Owed
  <2>. QED
    BY <2>1 DEF LinksOwed
<1>16. LinkedWhenKnown'
  BY <1>1, <1>7, <1>10 DEF LinkedWhenKnown
<1>17. UnknownBare' /\ SameText'
  <2>1. \A u \in Urls : ~Known(u)' => article'[u].place = 0
    BY <1>1, <1>7 DEF UnknownBare
  <2>2. \A o \in observed' : o.linked => Known(o.url)'
    BY <1>1, <1>7, <1>10 DEF UnknownBare
  <2>. QED
    BY <1>1, <2>1, <2>2 DEF UnknownBare, SameText
<1>18. PlacesOwed'
  <2>1. ASSUME NEW u \in Urls
        PROVE  \/ ~Known(u)' \/ u \in loose' \/ article'[u].place = LatestPlace(u)'
               \/ \E d \in Callers : ToPlace(d, u)'
    <3>1. CASE u \in BatchUrls(c)
      BY <1>7, <1>8, <3>1
    <3>2. CASE u \notin BatchUrls(c)
      <4>1. ASSUME ToPlace(c, u) PROVE ToPlace(c, u)'
        <5>1. Owed(c, u) /\ u \in us
          BY <1>1, <4>1 DEF ToPlace, us
        <5>2. ~AllSent(c) /\ <<"profile", u>> \in Range(Remaining(c))
          BY <1>3, <3>2, <5>1
        <5>. QED
          BY <1>5, <5>1, <5>2 DEF ToPlace, Owed
      <4>2. ASSUME NEW d \in Callers, ToPlace(d, u) PROVE ToPlace(d, u)'
        <5>1. CASE d = c
          BY <4>1, <4>2, <5>1
        <5>2. CASE d # c
          <6>1. call'[d] = call[d]
            BY <1>4, <5>2 DEF OthersStand
          <6>. QED
            BY <4>2, <6>1 DEF ToPlace, Owed
        <5>. QED
          BY <5>1, <5>2
      <4>. QED
        BY <1>1, <1>7, <1>8, <1>9, <3>2, <4>2 DEF PlacesOwed
    <3>. QED
      BY <3>1, <3>2
  <2>. QED
    BY <2>1 DEF PlacesOwed
<1>19. OvertakenKnown'
  <2>1. call'[c].step # "save"
    BY <1>5
  <2>. QED
    BY <1>1, <1>4, <2>1, OvertakenStands
<1>. QED
  BY <1>11, <1>12, <1>13, <1>14, <1>15, <1>16, <1>17, <1>18, <1>19 DEF ImportsInv

\* A batch of the articles of a discovery is written.
LEMMA DiscoverArticlesKeeps ==
  ASSUME ImportsInv, NEW c \in Callers, DiscoverArticles(c)
  PROVE  ImportsInv'
<1> DEFINE us == call[c].urls
<1>1. /\ ImportsTypeOK /\ CallsSane /\ OwnNumbers /\ RunsKnown /\ LinksOwed /\ LinkedWhenKnown
      /\ UnknownBare /\ PlacesOwed /\ SameText /\ OvertakenKnown
      /\ calls \in Nat /\ calls' = calls /\ call \in [Callers -> ImportCall] /\ ImportCalls \in Nat
      /\ UNCHANGED <<observed, runRow, analyses, calls, loose, overtaken>>
      /\ call[c].step = "discover" /\ CallSane(c) /\ call[c] \in ImportCall /\ us \subseteq Urls
      /\ stranded \subseteq Observation /\ article \in [Urls -> [known : BOOLEAN, place : Numbers]]
  BY ImportsParts, CallFields DEF DiscoverArticles, CallsSane
<1>2. /\ call[c].kind = "discover" /\ Range(call[c].todo) \subseteq {"profile"} \X us
  BY <1>1 DEF CallSane
<1>3. Range(Remaining(c)) \subseteq {"profile"} \X us /\ BatchUrls(c) \subseteq us
  BY <1>1, <1>2, BatchOfOneTable
<1>4. /\ call' \in [Callers -> ImportCall] /\ OthersStand(c)
      /\ \/ /\ ~AllSent(c) /\ SameCall(call'[c], call[c])
            /\ call'[c].step = "discover" /\ call'[c].todo = Remaining(c)
         \/ AllSent(c) /\ call'[c] = Resting
  <2>1. "idle" \in ImportSteps /\ << >> \in Seq(Tables \X Urls) /\ Sent(c, "idle", << >>)
    BY DEF ImportSteps, DiscoverArticles
  <2>. QED
    BY <1>1, <2>1, SentFacts
<1>5. /\ call'[c].step \in {"idle", "discover"}
      /\ ~AllSent(c) => /\ call'[c].urls = us /\ call'[c].kind = "discover"
                        /\ call'[c].no = call[c].no /\ call'[c].todo = Remaining(c)
  BY <1>2, <1>4, RestingFields, ImportsAssumption DEF SameCall
<1>6. \A u \in Urls :
        /\ u \in BatchUrls(c) => article'[u] = [article[u] EXCEPT !.known = TRUE]
        /\ u \notin BatchUrls(c) => article'[u] = article[u]
  BY DEF DiscoverArticles
<1>7. \A u \in Urls :
        /\ article'[u] \in [known : BOOLEAN, place : Numbers]
        /\ Known(u)' <=> Known(u) \/ u \in BatchUrls(c)
        /\ article'[u].place = article[u].place
  BY <1>1, <1>6 DEF Known
<1>8. \A u \in Urls : LatestPlace(u)' = LatestPlace(u)
  BY <1>1 DEF LatestPlace, LinkedTo
<1>9. stranded' = stranded \cup {o \in Unlinked(BatchUrls(c)) : ~Known(o.url)}
  BY DEF DiscoverArticles
<1> HIDE DEF us
<1>10. \A o \in observed : o \in Observation /\ o.url \in Urls
  BY <1>1 DEF ImportsTypeOK, Observation
<1>11. ImportsTypeOK'
  <2>1. article' = [u \in Urls |-> article'[u]]
    BY DEF DiscoverArticles
  <2>2. article' \in [Urls -> [known : BOOLEAN, place : Numbers]]
    BY <1>7, <2>1
  <2>3. stranded' \subseteq Observation
    BY <1>1, <1>9, <1>10 DEF Unlinked
  <2>. QED
    BY <1>1, <1>4, <2>2, <2>3 DEF ImportsTypeOK
<1>12. CallsSane'
  <2>1. CallSane(c)'
    <3>1. CASE ~AllSent(c)
      BY <1>1, <1>2, <1>3, <1>4, <1>5, <3>1 DEF CallSane, SameCall, FourSteps, Saving
    <3>2. CASE AllSent(c)
      BY <1>4, <3>2, FS_EmptySet, RestingFields, ImportsAssumption DEF CallSane, FourSteps, Saving
    <3>. QED
      BY <3>1, <3>2
  <2>2. \A d \in Callers : d # c => CallSane(d)'
    BY <1>1, <1>4, OthersSane
  <2>. QED
    BY <2>1, <2>2 DEF CallsSane
<1>13. OwnNumbers'
  <2>1. call'[c].step = "idle" \/ (call[c].step # "idle" /\ call'[c].no = call[c].no)
    BY <1>1, <1>4, <1>5, RestingFields, ImportsAssumption
  <2>. QED
    BY <1>1, <1>4, <2>1, NumbersKept
<1>14. RunsKnown'
  <2>1. call'[c].step \notin FourSteps \cup {"run", "record"}
    BY <1>5 DEF FourSteps
  <2>. QED
    BY <1>1, <1>4, <2>1, RunsKept
<1>15. LinksOwed'
  <2>1. ASSUME NEW d \in Callers, call'[d].step \in {"link", "result"}
        PROVE  /\ \A u \in call'[d].urls : Known(u)'
               /\ \A o \in observed' : ~o.linked /\ o.url \in call'[d].urls
                                         => call'[d].step = "link" /\ Owed(d, o.url)'
    <3>1. d # c
      BY <1>5, <2>1
    <3>2. call'[d] = call[d] /\ call[d].urls \subseteq Urls
      BY <1>1, <1>4, <3>1, CallFields DEF OthersStand
    <3>. QED
      BY <1>1, <1>7, <2>1, <3>2 DEF LinksOwed, Owed
  <2>. QED
    BY <2>1 DEF LinksOwed
<1>16. LinkedWhenKnown'
  <2>1. ASSUME NEW o \in observed', ~o.linked, Known(o.url)', o \notin stranded'
        PROVE  \E n \in 1 .. ImportCalls : o.url \in runRow'[n].urls /\ runRow'[n].status \in {"running", "failed"}
    <3>1. o \in observed /\ o.url \in Urls
      BY <1>1, <1>10
    <3>2. Known(o.url)
      BY <1>7, <1>9, <2>1, <3>1 DEF Unlinked
    <3>. QED
      BY <1>1, <1>9, <2>1, <3>1, <3>2 DEF LinkedWhenKnown
  <2>. QED
    BY <2>1 DEF LinkedWhenKnown
<1>17. UnknownBare' /\ SameText'
  <2>1. \A u \in Urls : ~Known(u)' => article'[u].place = 0
    BY <1>1, <1>7 DEF UnknownBare
  <2>2. \A o \in observed' : o.linked => Known(o.url)'
    BY <1>1, <1>7, <1>10 DEF UnknownBare
  <2>. QED
    BY <1>1, <2>1, <2>2 DEF UnknownBare, SameText
<1>18. PlacesOwed'
  <2>1. ASSUME NEW u \in Urls
        PROVE  \/ ~Known(u)' \/ u \in loose' \/ article'[u].place = LatestPlace(u)'
               \/ \E d \in Callers : ToPlace(d, u)'
    <3>1. ASSUME NEW d \in Callers, ToPlace(d, u) PROVE ToPlace(d, u)'
      <4>1. d # c
        BY <1>2, <3>1 DEF ToPlace
      <4>2. call'[d] = call[d]
        BY <1>4, <4>1 DEF OthersStand
      <4>. QED
        BY <3>1, <4>2 DEF ToPlace, Owed
    <3>2. CASE Known(u)
      BY <1>1, <1>7, <1>8, <3>1, <3>2 DEF PlacesOwed
    <3>3. CASE ~Known(u)
      <4>1. LinkedTo(u) = {} /\ article[u].place = 0
        BY <1>1, <3>3 DEF LinkedTo, UnknownBare
      <4>2. LatestPlace(u) = 0
        BY <4>1 DEF LatestPlace
      <4>. QED
        BY <1>7, <1>8, <4>1, <4>2
    <3>. QED
      BY <3>2, <3>3
  <2>. QED
    BY <2>1 DEF PlacesOwed
<1>19. OvertakenKnown'
  <2>1. call'[c].step # "save"
    BY <1>5
  <2>. QED
    BY <1>1, <1>4, <2>1, OvertakenStands
<1>. QED
  BY <1>11, <1>12, <1>13, <1>14, <1>15, <1>16, <1>17, <1>18, <1>19 DEF ImportsInv

\* In twos of statements both tables of an article are written, or neither.
LEMMA BothTables ==
  ASSUME NEW b \in Seq(Tables \X Urls), TwoByTwo(b), NEW u
  PROVE  <<"signals", u>> \in Range(b) <=> <<"profile", u>> \in Range(b)
<1>1. Len(b) \in Nat /\ DOMAIN b = 1 .. Len(b) /\ Len(b) % 2 = 0
  BY DEF TwoByTwo
<1>2. ASSUME NEW i \in 1 .. Len(b), b[i] = <<"signals", u>> PROVE <<"profile", u>> \in Range(b)
  <2>1. b[i][1] = "signals" /\ b[i][2] = u
    BY <1>2
  <2>2. i % 2 = 1
    <3>1. i % 2 = 0 => b[i][1] = "profile"
      BY DEF TwoByTwo
    <3>2. i % 2 \in {0, 1}
      OBVIOUS
    <3>. QED
      BY <2>1, <3>1, <3>2
  <2>3. b[i + 1] = <<"profile", u>>
    BY <2>1, <2>2 DEF TwoByTwo
  <2>4. i + 1 \in 1 .. Len(b)
    BY <1>1, <2>2
  <2>. QED
    BY <1>1, <2>3, <2>4 DEF Range
<1>3. ASSUME NEW i \in 1 .. Len(b), b[i] = <<"profile", u>> PROVE <<"signals", u>> \in Range(b)
  <2>1. b[i][1] = "profile" /\ b[i][2] = u
    BY <1>3
  <2>2. i % 2 = 0
    <3>1. i % 2 = 1 => b[i][1] = "signals"
      BY DEF TwoByTwo
    <3>2. i % 2 \in {0, 1}
      OBVIOUS
    <3>. QED
      BY <2>1, <3>1, <3>2
  <2>3. b[i - 1] = <<"signals", u>>
    BY <2>1, <2>2 DEF TwoByTwo
  <2>4. i - 1 \in 1 .. Len(b)
    BY <1>1, <2>2
  <2>. QED
    BY <1>1, <2>3, <2>4 DEF Range
<1>. QED
  BY <1>1, <1>2, <1>3 DEF Range

\* What a batch of analyses writes
LEMMA SaveFacts ==
  ASSUME ImportsInv, NEW c \in Callers, SaveAnalyses(c)
  PROVE  LET e == Extractor(c)
         IN  /\ e \in Extractors
             /\ e = "public" <=> call[c].kind = "transient"
             /\ e \in {"export", "public"} <=> call[c].kind # "analyzed"
             /\ \A x \in Extractors : x # e => analyses'[x] = analyses[x]
             /\ \A t \in Tables, u \in Urls :
                  /\ <<t, u>> \in Range(Batch(c)) => analyses'[e][t][u] = RowOf(c, u)
                  /\ <<t, u>> \notin Range(Batch(c)) => analyses'[e][t][u] = analyses[e][t][u]
             /\ analyses' \in [Extractors -> [Tables -> [Urls -> StoredRow]]]
<1> DEFINE e == Extractor(c)
           statements == {Batch(c)[i] : i \in DOMAIN Batch(c)}
<1>1. /\ call[c].kind \in {"structured", "analyzed", "transient"}
      /\ analyses \in [Extractors -> [Tables -> [Urls -> StoredRow]]]
  BY ImportsParts DEF SaveAnalyses, CallsSane, CallSane, Saving, ImportsTypeOK
<1>2. /\ e \in Extractors /\ (e = "public" <=> call[c].kind = "transient")
      /\ e \in {"export", "public"} <=> call[c].kind # "analyzed"
  BY <1>1 DEF Extractor, Extractors
<1>3. statements = Range(Batch(c))
  BY DEF Range
<1>4. analyses' = [analyses EXCEPT ![e] = [t \in Tables |-> [u \in Urls |->
                     IF <<t, u>> \in statements THEN RowOf(c, u) ELSE analyses[e][t][u]]]]
  BY DEF SaveAnalyses
<1> HIDE DEF e, statements
<1>5. \A u \in Urls : RowOf(c, u) \in StoredRow
  BY ImportsParts, CallFields DEF RowOf, StoredRow
<1>6. PICK tables : /\ tables = [t \in Tables |-> [u \in Urls |->
                                 IF <<t, u>> \in statements THEN RowOf(c, u) ELSE analyses[e][t][u]]]
                    /\ analyses' = [analyses EXCEPT ![e] = tables]
  BY <1>4
<1>7. tables \in [Tables -> [Urls -> StoredRow]]
  BY <1>1, <1>2, <1>5, <1>6
<1>8. /\ analyses'[e] = tables /\ \A x \in Extractors : x # e => analyses'[x] = analyses[x]
      /\ analyses' \in [Extractors -> [Tables -> [Urls -> StoredRow]]]
  BY <1>1, <1>2, <1>6, <1>7
<1>9. \A t \in Tables, u \in Urls :
        /\ <<t, u>> \in statements => tables[t][u] = RowOf(c, u)
        /\ <<t, u>> \notin statements => tables[t][u] = analyses[e][t][u]
  BY <1>6
<1>. QED
  BY <1>2, <1>3, <1>8, <1>9 DEF e

\* A batch of analyses is written.
LEMMA SaveAnalysesKeeps ==
  ASSUME ImportsInv, NEW c \in Callers, SaveAnalyses(c)
  PROVE  ImportsInv'
<1> DEFINE us == call[c].urls
           e  == Extractor(c)
<1>1. /\ ImportsTypeOK /\ CallsSane /\ OwnNumbers /\ RunsKnown /\ LinksOwed /\ LinkedWhenKnown
      /\ UnknownBare /\ PlacesOwed /\ SameText /\ OvertakenKnown
      /\ calls \in Nat /\ calls' = calls /\ call \in [Callers -> ImportCall] /\ ImportCalls \in Nat
      /\ UNCHANGED <<article, observed, runRow, calls, loose, stranded>>
      /\ call[c].step = "save" /\ CallSane(c) /\ call[c] \in ImportCall /\ us \subseteq Urls
      /\ overtaken \subseteq Callers \X Urls
  BY ImportsParts, CallFields DEF SaveAnalyses, CallsSane
<1>2. /\ call[c].kind \in {"structured", "analyzed", "transient"} /\ call[c].kind # "observe"
      /\ call[c].kind # "analyzed" => TwoByTwo(call[c].todo)
  BY <1>1 DEF CallSane, Saving
<1>3. /\ TwoByTwo(call[c].todo) => TwoByTwo(Remaining(c)) /\ TwoByTwo(Batch(c))
      /\ Batch(c) \in Seq(Tables \X Urls) /\ BatchUrls(c) \subseteq Urls
      /\ BatchUrls(c) = {p[2] : p \in Range(Batch(c))}
  BY <1>1, BatchFacts
<1>4. /\ e \in Extractors
      /\ e = "public" <=> call[c].kind = "transient"
      /\ e \in {"export", "public"} <=> call[c].kind # "analyzed"
      /\ \A x \in Extractors : x # e => analyses'[x] = analyses[x]
      /\ \A t \in Tables, u \in Urls :
           /\ <<t, u>> \in Range(Batch(c)) => analyses'[e][t][u] = RowOf(c, u)
           /\ <<t, u>> \notin Range(Batch(c)) => analyses'[e][t][u] = analyses[e][t][u]
      /\ analyses' \in [Extractors -> [Tables -> [Urls -> StoredRow]]]
  BY SaveFacts
<1>5. overtaken' = overtaken \cup
        {o \in (Callers \ {c}) \X BatchUrls(c) :
           e = "public" /\ call[o[1]].kind = "transient" /\ o[2] \in call[o[1]].urls}
  BY DEF SaveAnalyses
<1>6. /\ call' \in [Callers -> ImportCall] /\ OthersStand(c)
      /\ \/ /\ ~AllSent(c) /\ SameCall(call'[c], call[c])
            /\ call'[c].step = "save" /\ call'[c].todo = Remaining(c)
         \/ AllSent(c) /\ call'[c] = Resting
  <2>1. "idle" \in ImportSteps /\ << >> \in Seq(Tables \X Urls) /\ Sent(c, "idle", << >>)
    BY DEF ImportSteps, SaveAnalyses
  <2>. QED
    BY <1>1, <2>1, SentFacts
<1>7. /\ call'[c].step \in {"idle", "save"}
      /\ call'[c].step = "save" => /\ call'[c].urls = us /\ call'[c].kind = call[c].kind
                                   /\ call'[c].no = call[c].no /\ call'[c].bad = call[c].bad
  BY <1>6, RestingFields, ImportsAssumption DEF SameCall
<1> HIDE DEF e
<1>8. ImportsTypeOK'
  <2>1. overtaken' \subseteq Callers \X Urls
    BY <1>1, <1>3, <1>5
  <2>. QED
    BY <1>1, <1>4, <1>6, <2>1 DEF ImportsTypeOK
<1>9. CallsSane'
  <2>1. CallSane(c)'
    <3>1. CASE ~AllSent(c)
      BY <1>1, <1>2, <1>3, <1>6, <1>7, <3>1 DEF CallSane, SameCall, FourSteps, Saving
    <3>2. CASE AllSent(c)
      BY <1>6, <3>2, FS_EmptySet, RestingFields, ImportsAssumption DEF CallSane, FourSteps, Saving
    <3>. QED
      BY <3>1, <3>2
  <2>2. \A d \in Callers : d # c => CallSane(d)'
    BY <1>1, <1>6, OthersSane
  <2>. QED
    BY <2>1, <2>2 DEF CallsSane
<1>10. OwnNumbers'
  <2>1. call'[c].step = "idle" \/ (call[c].step # "idle" /\ call'[c].no = call[c].no)
    BY <1>1, <1>7
  <2>. QED
    BY <1>1, <1>6, <2>1, NumbersKept
<1>11. RunsKnown'
  <2>1. call'[c].step \notin FourSteps \cup {"run", "record"}
    BY <1>7 DEF FourSteps
  <2>. QED
    BY <1>1, <1>6, <2>1, RunsKept
<1>12. LinksOwed'
  BY <1>1, <1>6, <1>7, LinksKept
<1>13. LinkedWhenKnown' /\ UnknownBare'
  BY <1>1 DEF LinkedWhenKnown, UnknownBare, Known
<1>14. PlacesOwed'
  <2>1. \A u \in Urls : ~ToPlace(c, u)
    BY <1>2 DEF ToPlace
  <2>. QED
    BY <1>1, <1>6, <2>1, PlacesKept
<1>15. SameText'
  <2>1. ASSUME NEW u \in Urls, NEW x \in {"export", "public"}
        PROVE  analyses'[x]["signals"][u] = analyses'[x]["profile"][u]
    <3>1. analyses[x]["signals"][u] = analyses[x]["profile"][u] /\ x \in Extractors
          /\ "signals" \in Tables /\ "profile" \in Tables
      BY <1>1 DEF SameText, Extractors, Tables
    <3>2. CASE x # e
      BY <1>4, <3>1, <3>2
    <3>3. CASE x = e
      <4>1. TwoByTwo(Batch(c))
        BY <1>2, <1>3, <1>4, <3>3
      <4>2. <<"signals", u>> \in Range(Batch(c)) <=> <<"profile", u>> \in Range(Batch(c))
        BY <1>3, <4>1, BothTables
      <4>3. CASE <<"profile", u>> \in Range(Batch(c))
        BY <1>4, <3>1, <3>3, <4>2, <4>3
      <4>4. CASE <<"profile", u>> \notin Range(Batch(c))
        BY <1>4, <3>1, <3>3, <4>2, <4>4
      <4>. QED
        BY <4>3, <4>4
    <3>. QED
      BY <3>2, <3>3
  <2>. QED
    BY <2>1 DEF SameText
<1>16. OvertakenKnown'
  <2>1. ASSUME NEW d \in Callers, NEW u \in call'[d].bad, Saving(d)', call'[d].kind = "transient",
               Profile("public", u)'.status = "analyzed"
        PROVE  <<d, u>> \in overtaken'
    <3>1. /\ call[d].bad \in SUBSET Urls /\ call[d].bad \subseteq call[d].urls
          /\ call'[d].bad = call[d].bad /\ call[d].step = "save" /\ call[d].kind = "transient"
      <4>1. call[d].bad \in SUBSET Urls /\ call[d].bad \subseteq call[d].urls
        BY <1>1, CallFields DEF CallsSane, CallSane
      <4>2. call'[d].bad = call[d].bad /\ call[d].step = "save" /\ call[d].kind = "transient"
        <5>1. CASE d = c
          BY <1>1, <1>7, <2>1, <5>1 DEF Saving
        <5>2. CASE d # c
          BY <1>6, <2>1, <5>2 DEF Saving, OthersStand
        <5>. QED
          BY <5>1, <5>2
      <4>. QED
        BY <4>1, <4>2
    <3>2. u \in Urls /\ u \in call[d].bad /\ u \in call[d].urls
      BY <2>1, <3>1
    <3>3. "profile" \in Tables /\ "public" \in Extractors
      BY DEF Tables, Extractors
    <3>4. CASE Profile("public", u).status = "analyzed"
      <4>1. <<d, u>> \in overtaken
        BY <1>1, <3>1, <3>2, <3>4 DEF OvertakenKnown, Saving
      <4>. QED
        BY <1>5, <4>1
    <3>5. CASE Profile("public", u).status # "analyzed"
      <4>1. Profile("public", u)' # Profile("public", u)
        BY <2>1, <3>5
      <4>2. e = "public"
        BY <1>4, <3>3, <4>1 DEF Profile
      <4>3. <<"profile", u>> \in Range(Batch(c))
        BY <1>4, <3>2, <3>3, <4>1, <4>2 DEF Profile
      <4>4. Profile("public", u)' = RowOf(c, u)
        BY <1>4, <3>2, <3>3, <4>2, <4>3 DEF Profile
      <4>5. d # c
        BY <2>1, <3>2, <4>4 DEF RowOf
      <4>6. u \in BatchUrls(c)
        <5>1. <<"profile", u>>[2] = u
          OBVIOUS
        <5>. QED
          BY <1>3, <4>3, <5>1
      <4>. QED
        BY <1>5, <3>1, <3>2, <4>2, <4>5, <4>6
    <3>. QED
      BY <3>4, <3>5
  <2>. QED
    BY <2>1 DEF OvertakenKnown
<1>. QED
  BY <1>8, <1>9, <1>10, <1>11, <1>12, <1>13, <1>14, <1>15, <1>16 DEF ImportsInv

\* Every step of the imports keeps the invariant.
LEMMA ImportsInvStep ==
  ASSUME ImportsInv, [ImportsNext]_importVars
  PROVE  ImportsInv'
<1>1. CASE UNCHANGED importVars
  <2>1. /\ article' = article /\ observed' = observed /\ runRow' = runRow /\ analyses' = analyses
        /\ call' = call /\ calls' = calls /\ loose' = loose /\ stranded' = stranded /\ overtaken' = overtaken
    BY <1>1 DEF importVars
  <2>2. /\ ImportsTypeOK' /\ CallsSane' /\ OwnNumbers' /\ RunsKnown'
    BY <2>1, ImportsParts DEF ImportsTypeOK, CallsSane, CallSane, Saving, OwnNumbers, RunsKnown
  <2>3. /\ LinksOwed' /\ LinkedWhenKnown' /\ UnknownBare' /\ SameText'
    BY <2>1, ImportsParts DEF LinksOwed, LinkedWhenKnown, UnknownBare, SameText, Known, Owed
  <2>4. PlacesOwed' /\ OvertakenKnown'
    BY <2>1, ImportsParts DEF PlacesOwed, OvertakenKnown, Known, LatestPlace, LinkedTo, ToPlace, Owed, Saving, Profile
  <2>. QED
    BY <2>2, <2>3, <2>4 DEF ImportsInv
<1>2. ASSUME NEW c \in Callers,
             \/ BeginImport(c) \/ InsertRun(c) \/ UpsertArticles(c) \/ LinkObservations(c) \/ RecordResults(c)
             \/ ImportFails(c) \/ RecordImportFailure(c)
             \/ BeginObservation(c) \/ WriteObservations(c) \/ PlaceArticles(c)
             \/ BeginTransient(c) \/ SaveAnalyses(c) \/ CutShort(c)
             \/ BeginDiscovery(c) \/ DiscoverArticles(c)
      PROVE  ImportsInv'
  BY <1>2, BeginImportKeeps, InsertRunKeeps, UpsertArticlesKeeps, LinkObservationsKeeps, RecordResultsKeeps,
     ImportFailsKeeps, RecordImportFailureKeeps, BeginObservationKeeps, WriteObservationsKeeps,
     PlaceArticlesKeeps, BeginTransientKeeps, SaveAnalysesKeeps, CutShortKeeps,
     BeginDiscoveryKeeps, DiscoverArticlesKeeps
<1>. QED
  BY <1>1, <1>2 DEF ImportsNext

\* Nothing is imported at first.
LEMMA ImportsInvInit ==
  ASSUME ImportsInit
  PROVE  ImportsInv
<1>1. Resting \in ImportCall /\ Resting.step = "idle" /\ Resting.kind = "import" /\ Resting.bad = {}
      /\ Resting.urls = {} /\ ImportCalls \in Nat
  BY RestingFields, ImportsAssumption DEF ImportsAssumption
<1>2. /\ article = [u \in Urls |-> Placeless] /\ observed = {} /\ calls = 0
      /\ runRow = [n \in 1 .. ImportCalls |-> [urls |-> {}, status |-> "none"]]
      /\ analyses = [e \in Extractors |-> [t \in Tables |-> [u \in Urls |-> NoRow]]]
      /\ call = [c \in Callers |-> Resting] /\ loose = {} /\ stranded = {} /\ overtaken = {}
  BY DEF ImportsInit
<1>3. ImportsTypeOK
  <2>1. Placeless \in [known : BOOLEAN, place : Numbers] /\ NoRow \in StoredRow /\ 0 \in Numbers
    BY <1>1 DEF Placeless, NoRow, StoredRow, Numbers
  <2>. QED
    BY <1>1, <1>2, <2>1 DEF ImportsTypeOK
<1>4. \A c \in Callers : call[c].step = "idle" /\ call[c].kind = "import" /\ call[c].bad = {} /\ call[c].urls = {}
  BY <1>1, <1>2
<1>5. CallsSane /\ OwnNumbers
  BY <1>4, FS_EmptySet DEF CallsSane, CallSane, OwnNumbers, FourSteps, Saving
<1>6. RunsKnown
  BY <1>2, <1>4 DEF RunsKnown, FourSteps
<1>7. LinksOwed /\ LinkedWhenKnown /\ OvertakenKnown
  BY <1>2, <1>4 DEF LinksOwed, LinkedWhenKnown, OvertakenKnown
<1>8. UnknownBare /\ PlacesOwed
  BY <1>2 DEF UnknownBare, PlacesOwed, Known, Placeless
<1>9. SameText
  <2>1. "signals" \in Tables /\ "profile" \in Tables /\ {"export", "public"} \subseteq Extractors
    BY DEF Tables, Extractors
  <2>. QED
    BY <1>2, <2>1 DEF SameText
<1>. QED
  BY <1>3, <1>5, <1>6, <1>7, <1>8, <1>9 DEF ImportsInv

\* Imports agree with the articles, and no analysis is lost, in every reachable state and step.
LEMMA ImportsKept ==
  ASSUME ImportsInv
  PROVE  ImportsAgree
<1>1. LatestShown
  <2>1. ASSUME NEW u \in Urls
        PROVE  \/ ~Known(u) \/ u \in loose \/ article[u].place = LatestPlace(u)
               \/ \E c \in Callers : call[c].kind = "observe" /\ u \in call[c].urls
    BY ImportsParts DEF PlacesOwed, ToPlace
  <2>. QED
    BY <2>1 DEF LatestShown
<1>. QED
  BY <1>1, ImportsParts DEF ImportsAgree

\* An analysis is marked failed only by a request that chose it before it was written.
LEMMA AnalysisStands ==
  ASSUME ImportsInv, [ImportsNext]_importVars, NEW u \in Urls,
         Profile("public", u).status = "analyzed", Profile("public", u)'.status = "failed"
  PROVE  \E c \in Callers : <<c, u>> \in overtaken
<1>1. analyses' # analyses
  BY DEF Profile
<1>2. PICK c \in Callers : SaveAnalyses(c)
  BY <1>1 DEF ImportsNext, importVars, BeginImport, InsertRun, UpsertArticles, LinkObservations, RecordResults,
     ImportFails, RecordImportFailure, BeginObservation, WriteObservations, PlaceArticles, BeginTransient, CutShort,
     BeginDiscovery, DiscoverArticles
<1> DEFINE e == Extractor(c)
<1>3. /\ e \in Extractors
      /\ e = "public" <=> call[c].kind = "transient"
      /\ \A x \in Extractors : x # e => analyses'[x] = analyses[x]
      /\ \A t \in Tables, w \in Urls :
           /\ <<t, w>> \in Range(Batch(c)) => analyses'[e][t][w] = RowOf(c, w)
           /\ <<t, w>> \notin Range(Batch(c)) => analyses'[e][t][w] = analyses[e][t][w]
  BY <1>2, SaveFacts
<1> HIDE DEF e
<1>4. "profile" \in Tables /\ "public" \in Extractors
  BY DEF Tables, Extractors
<1>5. e = "public"
  BY <1>3, <1>4 DEF Profile
<1>6. <<"profile", u>> \in Range(Batch(c))
  BY <1>3, <1>4, <1>5 DEF Profile
<1>7. RowOf(c, u).status = "failed"
  BY <1>3, <1>4, <1>5, <1>6 DEF Profile
<1>8. u \in call[c].bad /\ call[c].step = "save" /\ call[c].kind = "transient"
  BY <1>2, <1>3, <1>5, <1>7 DEF RowOf, SaveAnalyses
<1>9. <<c, u>> \in overtaken
  BY <1>8, ImportsParts DEF OvertakenKnown, Saving
<1>. QED
  BY <1>9

----------------------------------------------------------------------------
(* Authorized texts: uploads, the collector and the purge *)

UploadSteps == {"idle", "look", "put", "record"}
UploadState == [step : UploadSteps, text : FullTexts \cup {NoUpload.text}, no : 0 .. UploadCalls,
                known : 0 .. UploadCalls, terms : Licence]
PurgeState  == [step : {"idle", "delete", "mark"}, todo : SUBSET FullTexts, current : SUBSET FullTexts]

\* An upload under way has its text and its terms; the id it found is that of the row.
UploadSane(u) ==
  upload[u].step # "idle" =>
    /\ upload[u].text \in FullTexts /\ upload[u].no \in 1 .. UploadCalls
    /\ upload[u].terms.id = upload[u].no /\ upload[u].terms.status = "active"
    /\ upload[u].step = "look" => upload[u].known = 0
    /\ upload[u].known # 0 => licence[upload[u].text].id = upload[u].known

\* A collection under way has its text and its id, and no purge runs beside it.
CollectorState == [step : {"idle", "put", "insert", "undo"}, text : FullTexts \cup {NoCollect.text},
                   no : 0 .. UploadCalls, at : Hours]
CollectorSane ==
  /\ collector \in CollectorState
  /\ collector.step # "idle" =>
       collector.text \in FullTexts /\ collector.no \in 1 .. UploadCalls /\ purge.step = "idle"

\* A row without an id is none, and every id answered is one.
RowsAndIds ==
  /\ \A t \in FullTexts : licence[t].status = "absent" <=> licence[t].id = 0
  /\ \A g \in given : g[1] \in FullTexts /\ g[2] # 0

\* A text put and not recorded is there, and one whose row is about to be marked is gone.
Crossing == \A t \in FullTexts \ parted :
  /\ Recording(t) => t \in objects
  /\ purge.step = "mark" /\ t \in purge.current => t \notin objects \/ Recording(t)

ContentInv ==
  /\ ContentTypeOK /\ upload \in [Uploaders -> UploadState] /\ purge \in PurgeState
  /\ \A u \in Uploaders : UploadSane(u)
  /\ RowsAndIds /\ Crossing /\ TextsInStep /\ IdsGiven /\ CollectorSane

\* The parts of the invariant
LEMMA ContentParts ==
  ASSUME ContentInv
  PROVE  /\ ContentTypeOK /\ upload \in [Uploaders -> UploadState] /\ purge \in PurgeState
         /\ licence \in [FullTexts -> Licence] /\ objects \subseteq FullTexts
         /\ hour \in Nat /\ hour \in Hours /\ uploads \in 0 .. UploadCalls /\ UploadCalls \in Nat
         /\ \A u \in Uploaders : UploadSane(u)
         /\ RowsAndIds /\ Crossing /\ TextsInStep /\ IdsGiven /\ CollectorSane
BY AuthorizedContentAssumption DEF ContentInv, ContentTypeOK, AuthorizedContentAssumption, Hours

\* Upload u changes, the others stand.
LEMMA UploadMoves ==
  ASSUME upload \in [Uploaders -> UploadState], NEW u \in Uploaders, NEW w \in UploadState,
         upload' = [upload EXCEPT ![u] = w]
  PROVE  /\ upload' \in [Uploaders -> UploadState] /\ upload'[u] = w
         /\ \A v \in Uploaders : v # u => upload'[v] = upload[v]
OBVIOUS

\* No upload is a state of one.
LEMMA NoUploadState ==
  NoUpload \in UploadState /\ NoUpload.step = "idle"
BY AuthorizedContentAssumption DEF NoUpload, UploadState, UploadSteps, Unrecorded, Licence, Hours, Rights,
   AuthorizedContentAssumption

\* An upload begins.
LEMMA BeginUploadKeeps ==
  ASSUME ContentInv, NEW u \in Uploaders, BeginUpload(u)
  PROVE  ContentInv'
<1>1. /\ upload[u].step = "idle" /\ uploads < UploadCalls /\ uploads' = uploads + 1
      /\ UNCHANGED <<licence, objects, purge, hour, given, parted, doubled, collector>>
  BY DEF BeginUpload
<1>2. PICK t \in FullTexts, at \in 0 .. hour, until \in Rights :
        upload' = [upload EXCEPT ![u] =
          [step |-> "look", text |-> t, no |-> uploads + 1, known |-> 0,
           terms |-> [id |-> uploads + 1, status |-> "active", acquired |-> at, until |-> until]]]
  BY DEF BeginUpload
<1>3. PICK w : /\ w = [step |-> "look", text |-> t, no |-> uploads + 1, known |-> 0,
                       terms |-> [id |-> uploads + 1, status |-> "active", acquired |-> at, until |-> until]]
               /\ upload' = [upload EXCEPT ![u] = w]
  BY <1>2
<1>4. uploads + 1 \in 1 .. UploadCalls /\ uploads' \in 0 .. UploadCalls /\ at \in Hours
  <2>1. hour \in 0 .. LastHour /\ LastHour \in Nat /\ uploads \in 0 .. UploadCalls /\ UploadCalls \in Nat
    BY ContentParts, AuthorizedContentAssumption DEF Hours, AuthorizedContentAssumption
  <2>. QED
    BY <1>1, <2>1 DEF Hours
<1>5. w \in UploadState
  <2> DEFINE terms == [id |-> uploads + 1, status |-> "active", acquired |-> at, until |-> until]
  <2>1. uploads + 1 \in 0 .. UploadCalls /\ 0 \in 0 .. UploadCalls /\ "look" \in UploadSteps
    BY <1>4, ContentParts DEF UploadSteps
  <2>2. terms \in Licence
    BY <1>4, <2>1 DEF Licence
  <2>3. w = [step |-> "look", text |-> t, no |-> uploads + 1, known |-> 0, terms |-> terms]
    BY <1>3
  <2> HIDE DEF terms
  <2>. QED
    BY <2>1, <2>2, <2>3 DEF UploadState
<1>6. /\ upload' \in [Uploaders -> UploadState] /\ upload'[u] = w
      /\ \A v \in Uploaders : v # u => upload'[v] = upload[v]
  BY <1>3, <1>5, ContentParts, UploadMoves
<1>7. \A v \in Uploaders : UploadSane(v)'
  <2>1. UploadSane(u)'
    BY <1>3, <1>4, <1>6 DEF UploadSane
  <2>2. ASSUME NEW v \in Uploaders, v # u PROVE UploadSane(v)'
    BY <1>1, <1>6, <2>2, ContentParts DEF UploadSane
  <2>. QED
    BY <2>1, <2>2
<1>8. \A t0 \in FullTexts : Recording(t0)' <=> Recording(t0)
  BY <1>1, <1>3, <1>6 DEF Recording, Storing
<1>9. ContentTypeOK' /\ RowsAndIds' /\ IdsGiven' /\ CollectorSane'
  BY <1>1, <1>4, ContentParts DEF ContentTypeOK, RowsAndIds, IdsGiven, CollectorSane
<1>10. Crossing' /\ TextsInStep'
  BY <1>1, <1>8, ContentParts DEF Crossing, TextsInStep, RightEnded
<1>. QED
  BY <1>1, <1>6, <1>7, <1>9, <1>10, ContentParts DEF ContentInv

\* An upload looks for the row.
LEMMA LookUpKeeps ==
  ASSUME ContentInv, NEW u \in Uploaders, LookUp(u)
  PROVE  ContentInv'
<1>1. /\ upload[u].step = "look" /\ UploadSane(u) /\ upload[u] \in UploadState
      /\ UNCHANGED <<licence, objects, purge, hour, uploads, given, parted, doubled, collector>>
  BY ContentParts DEF LookUp
<1>2. PICK w : /\ w = [upload[u] EXCEPT !.step = "put", !.known = licence[upload[u].text].id]
               /\ upload' = [upload EXCEPT ![u] = w]
  BY DEF LookUp
<1>3. upload[u].text \in FullTexts /\ licence[upload[u].text].id \in 0 .. UploadCalls
  BY <1>1, ContentParts DEF UploadSane, Licence
<1>4. /\ w \in UploadState /\ w.step = "put" /\ w.text = upload[u].text /\ w.no = upload[u].no
      /\ w.terms = upload[u].terms /\ w.known = licence[w.text].id
  BY <1>1, <1>2, <1>3 DEF UploadState, UploadSteps
<1>5. /\ upload' \in [Uploaders -> UploadState] /\ upload'[u] = w
      /\ \A v \in Uploaders : v # u => upload'[v] = upload[v]
  BY <1>2, <1>4, ContentParts, UploadMoves
<1>6. \A v \in Uploaders : UploadSane(v)'
  <2>1. UploadSane(u)'
    BY <1>1, <1>4, <1>5 DEF UploadSane
  <2>2. ASSUME NEW v \in Uploaders, v # u PROVE UploadSane(v)'
    BY <1>1, <1>5, <2>2, ContentParts DEF UploadSane
  <2>. QED
    BY <2>1, <2>2
<1>7. \A t \in FullTexts : Recording(t)' <=> Recording(t)
  BY <1>1, <1>4, <1>5 DEF Recording, Storing
<1>8. ContentTypeOK' /\ RowsAndIds' /\ IdsGiven' /\ CollectorSane'
  BY <1>1, ContentParts DEF ContentTypeOK, RowsAndIds, IdsGiven, CollectorSane
<1>9. Crossing' /\ TextsInStep'
  BY <1>1, <1>7, ContentParts DEF Crossing, TextsInStep, RightEnded
<1>. QED
  BY <1>1, <1>5, <1>6, <1>8, <1>9, ContentParts DEF ContentInv

\* An upload puts its text.
LEMMA PutTextKeeps ==
  ASSUME ContentInv, NEW u \in Uploaders, PutText(u)
  PROVE  ContentInv'
<1> DEFINE t == upload[u].text
<1>1. /\ upload[u].step = "put" /\ UploadSane(u) /\ upload[u] \in UploadState /\ t \in FullTexts
      /\ objects' = objects \cup {t}
      /\ UNCHANGED <<licence, purge, hour, uploads, given, parted, doubled, collector>>
  BY ContentParts DEF PutText, UploadSane
<1>2. PICK w : w = [upload[u] EXCEPT !.step = "record"] /\ upload' = [upload EXCEPT ![u] = w]
  BY DEF PutText
<1>3. /\ w \in UploadState /\ w.step = "record" /\ w.text = t /\ w.no = upload[u].no
      /\ w.terms = upload[u].terms /\ w.known = upload[u].known
  BY <1>1, <1>2 DEF UploadState, UploadSteps
<1>4. /\ upload' \in [Uploaders -> UploadState] /\ upload'[u] = w
      /\ \A v \in Uploaders : v # u => upload'[v] = upload[v]
  BY <1>2, <1>3, ContentParts, UploadMoves
<1>5. \A v \in Uploaders : UploadSane(v)'
  <2>1. UploadSane(u)'
    BY <1>1, <1>3, <1>4 DEF UploadSane
  <2>2. ASSUME NEW v \in Uploaders, v # u PROVE UploadSane(v)'
    BY <1>1, <1>4, <2>2, ContentParts DEF UploadSane
  <2>. QED
    BY <2>1, <2>2
<1>6. \A x \in FullTexts : Recording(x)' <=> Recording(x) \/ x = t
  BY <1>1, <1>3, <1>4 DEF Recording, Storing
<1>7. ContentTypeOK' /\ RowsAndIds' /\ IdsGiven' /\ CollectorSane'
  BY <1>1, ContentParts DEF ContentTypeOK, RowsAndIds, IdsGiven, CollectorSane
<1>8. Crossing' /\ TextsInStep'
  BY <1>1, <1>6, ContentParts DEF Crossing, TextsInStep, RightEnded
<1>. QED
  BY <1>1, <1>4, <1>5, <1>7, <1>8, ContentParts DEF ContentInv

\* A row of a text is written: one that was there keeps its id.
LEMMA RowWritten ==
  ASSUME ContentInv, NEW t \in FullTexts, NEW row \in Licence, row.id # 0, row.status # "absent",
         licence[t].status # "absent" => row.id = licence[t].id,
         licence' = [licence EXCEPT ![t] = row]
  PROVE  /\ licence' \in [FullTexts -> Licence] /\ licence'[t] = row
         /\ \A x \in FullTexts : x # t => licence'[x] = licence[x]
         /\ \A x \in FullTexts : licence'[x].status = "absent" <=> licence'[x].id = 0
         /\ \A x \in FullTexts : licence[x].id # 0 => licence'[x].id = licence[x].id
         /\ \A g \in given : g[1] \in doubled \/ g[2] = licence'[g[1]].id
         /\ \A v \in Uploaders : upload'[v] = upload[v] => UploadSane(v)'
<1>1. /\ licence' \in [FullTexts -> Licence] /\ licence'[t] = row
      /\ \A x \in FullTexts : x # t => licence'[x] = licence[x]
  BY ContentParts
<1>2. \A x \in FullTexts : licence'[x].status = "absent" <=> licence'[x].id = 0
  BY <1>1, ContentParts DEF RowsAndIds
<1>3. \A x \in FullTexts : licence[x].id # 0 => licence'[x].id = licence[x].id
  BY <1>1, ContentParts DEF RowsAndIds
<1>4. ASSUME NEW g \in given PROVE g[1] \in doubled \/ g[2] = licence'[g[1]].id
  BY <1>3, ContentParts DEF RowsAndIds, IdsGiven
<1>5. ASSUME NEW v \in Uploaders, upload'[v] = upload[v] PROVE UploadSane(v)'
  <2>1. CASE upload[v].step = "idle"
    BY <1>5, <2>1 DEF UploadSane
  <2>2. CASE upload[v].step # "idle"
    <3>1. UploadSane(v) /\ upload[v].text \in FullTexts
      BY <2>2, ContentParts DEF UploadSane
    <3>2. upload[v].known # 0 => licence'[upload[v].text].id = upload[v].known
      BY <1>3, <2>2, <3>1 DEF UploadSane
    <3>. QED
      BY <1>5, <2>2, <3>1, <3>2 DEF UploadSane
  <2>. QED
    BY <2>1, <2>2
<1>. QED
  BY <1>1, <1>2, <1>3, <1>4, <1>5

\* The row an upload writes
LEMMA RecordedRow ==
  ASSUME ContentInv, NEW u \in Uploaders, upload[u].step = "record"
  PROVE  LET t == upload[u].text
         IN  /\ t \in FullTexts /\ Recorded(u) \in Licence
             /\ Recorded(u).id # 0 /\ Recorded(u).status = "active"
             /\ licence[t].status # "absent" => Recorded(u).id = licence[t].id
             /\ licence[t].status = "absent" => Recorded(u).id = upload[u].no
             /\ upload[u].no # 0 /\ (upload[u].known # 0 => licence[t].id = upload[u].known)
<1> DEFINE t == upload[u].text
<1>1. UploadSane(u) /\ upload[u] \in UploadState /\ t \in FullTexts
  BY ContentParts DEF UploadSane
<1>2. /\ licence[t] \in Licence /\ upload[u].terms \in Licence
      /\ upload[u].no \in 1 .. UploadCalls /\ upload[u].terms.id = upload[u].no
      /\ upload[u].terms.status = "active"
      /\ upload[u].known # 0 => licence[t].id = upload[u].known
      /\ licence[t].status = "absent" <=> licence[t].id = 0
  BY <1>1, ContentParts DEF UploadSane, UploadState, RowsAndIds
<1>3. PICK id : /\ id = IF licence[t].status = "absent" THEN upload[u].terms.id ELSE licence[t].id
                /\ Recorded(u) = [upload[u].terms EXCEPT !.id = id]
  BY DEF Recorded
<1>4. licence[t].id \in 0 .. UploadCalls /\ upload[u].terms.id \in 0 .. UploadCalls /\ upload[u].no # 0
  BY <1>2 DEF Licence
<1>5. id \in 0 .. UploadCalls /\ id # 0
  BY <1>2, <1>3, <1>4
<1>6. Recorded(u) \in Licence /\ Recorded(u).id = id /\ Recorded(u).status = "active"
  BY <1>2, <1>3, <1>5 DEF Licence
<1>. QED
  BY <1>1, <1>2, <1>3, <1>4, <1>6

\* The row the collector writes
LEMMA CollectedFacts ==
  ASSUME ContentInv, collector.step # "idle"
  PROVE  LET t == collector.text
         IN  /\ t \in FullTexts /\ CollectedRow(t) \in Licence
             /\ CollectedRow(t).id # 0 /\ CollectedRow(t).status = "active"
             /\ licence[t].status # "absent" => CollectedRow(t).id = licence[t].id
<1> DEFINE t == collector.text
<1>1. /\ collector.step # "idle" /\ t \in FullTexts /\ collector.no \in 1 .. UploadCalls /\ collector.at \in Hours
      /\ licence[t] \in Licence /\ (licence[t].status = "absent" <=> licence[t].id = 0)
  BY ContentParts DEF CollectorSane, CollectorState, RowsAndIds
<1>2. PICK id : id = IF licence[t].status = "absent" THEN collector.no ELSE licence[t].id
  OBVIOUS
<1>3. licence[t].id \in 0 .. UploadCalls /\ collector.no \in 0 .. UploadCalls /\ collector.no # 0
  BY <1>1 DEF Licence
<1>4. id \in 0 .. UploadCalls /\ id # 0
  BY <1>1, <1>2, <1>3
<1>5. ShutHour \in Rights
  BY DEF Rights
<1>6. CollectedRow(t) = [id |-> id, status |-> "active", acquired |-> collector.at, until |-> ShutHour]
  BY <1>2 DEF CollectedRow
<1>7. CollectedRow(t) \in Licence
  BY <1>1, <1>4, <1>5, <1>6 DEF Licence
<1>. QED
  BY <1>1, <1>2, <1>4, <1>6, <1>7

\* An upload ends, the others and the collector stand.
LEMMA UploadEnds ==
  ASSUME ContentInv, NEW u \in Uploaders, upload' = [upload EXCEPT ![u] = NoUpload], collector' = collector
  PROVE  /\ upload' \in [Uploaders -> UploadState] /\ UploadSane(u)'
         /\ \A v \in Uploaders : v # u => upload'[v] = upload[v]
         /\ \A x : Recording(x)' => Recording(x)
         /\ \A x : upload[u].step # "record" \/ x # upload[u].text => (Recording(x)' <=> Recording(x))
<1>1. /\ upload' \in [Uploaders -> UploadState] /\ upload'[u].step = "idle"
      /\ \A v \in Uploaders : v # u => upload'[v] = upload[v]
  BY ContentParts, UploadMoves, NoUploadState
<1>2. UploadSane(u)'
  BY <1>1 DEF UploadSane
<1>3. ASSUME NEW x, Storing(x)' PROVE Storing(x)
  <2>1. PICK v \in Uploaders : upload'[v].step = "record" /\ upload'[v].text = x
    BY <1>3 DEF Storing
  <2>2. upload'[v] = upload[v]
    BY <1>1, <2>1
  <2>. QED
    BY <2>1, <2>2 DEF Storing
<1>4. ASSUME NEW x, upload[u].step # "record" \/ x # upload[u].text, Storing(x) PROVE Storing(x)'
  <2>1. PICK v \in Uploaders : upload[v].step = "record" /\ upload[v].text = x
    BY <1>4 DEF Storing
  <2>2. upload'[v] = upload[v]
    BY <1>1, <1>4, <2>1
  <2>. QED
    BY <2>1, <2>2 DEF Storing
<1>. QED
  BY <1>1, <1>2, <1>3, <1>4 DEF Recording

\* An upload is recorded: a row that was there keeps its id.
LEMMA RecordTextKeeps ==
  ASSUME ContentInv, NEW u \in Uploaders, RecordText(u)
  PROVE  ContentInv'
<1> DEFINE t   == upload[u].text
           row == Recorded(u)
<1>1. /\ upload[u].step = "record"
      /\ licence' = [licence EXCEPT ![t] = row]
      /\ given' = given \cup {<<t, IdAnswered(u)>>}
      /\ doubled' = IF upload[u].known = 0 /\ licence[t].status # "absent" THEN doubled \cup {t} ELSE doubled
      /\ parted' = IF purge.step = "mark" /\ t \in purge.current THEN parted \cup {t} ELSE parted
      /\ upload' = [upload EXCEPT ![u] = NoUpload]
      /\ UNCHANGED <<objects, purge, hour, uploads, collector>>
  BY DEF RecordText
<1>2. /\ t \in FullTexts /\ row \in Licence /\ row.id # 0 /\ row.status = "active"
      /\ licence[t].status # "absent" => row.id = licence[t].id
      /\ licence[t].status = "absent" => row.id = upload[u].no
      /\ upload[u].no # 0 /\ (upload[u].known # 0 => licence[t].id = upload[u].known)
  BY <1>1, RecordedRow
<1> HIDE DEF row
<1>3. /\ licence' \in [FullTexts -> Licence] /\ licence'[t] = row
      /\ \A x \in FullTexts : x # t => licence'[x] = licence[x]
      /\ \A x \in FullTexts : licence'[x].status = "absent" <=> licence'[x].id = 0
      /\ \A g \in given : g[1] \in doubled \/ g[2] = licence'[g[1]].id
      /\ \A v \in Uploaders : upload'[v] = upload[v] => UploadSane(v)'
  BY <1>1, <1>2, RowWritten
<1>4. /\ upload' \in [Uploaders -> UploadState] /\ UploadSane(u)'
      /\ \A v \in Uploaders : v # u => upload'[v] = upload[v]
      /\ \A x : Recording(x)' => Recording(x)
      /\ \A x : x # t => (Recording(x)' <=> Recording(x))
  BY <1>1, UploadEnds
<1>5. \A v \in Uploaders : UploadSane(v)'
  BY <1>3, <1>4
<1>6. Recording(t)
  BY <1>1 DEF Recording, Storing
<1>7. parted \subseteq parted' /\ \A x \in FullTexts : x # t /\ x \in parted' => x \in parted
  BY <1>1
<1>8. ContentTypeOK' /\ RowsAndIds' /\ CollectorSane'
  <2>1. IdAnswered(u) # 0
    BY <1>2 DEF IdAnswered
  <2>2. \A g \in given' : g[1] \in FullTexts /\ g[2] # 0
    BY <1>1, <1>2, <2>1, ContentParts DEF RowsAndIds
  <2>. QED
    BY <1>1, <1>3, <2>2, ContentParts DEF ContentTypeOK, RowsAndIds, CollectorSane
<1>9. IdsGiven'
  <2>1. t \in doubled' \/ IdAnswered(u) = licence'[t].id
    <3>1. CASE upload[u].known = 0 /\ licence[t].status # "absent"
      BY <1>1, <3>1
    <3>2. CASE upload[u].known = 0 /\ licence[t].status = "absent"
      BY <1>2, <1>3, <3>2 DEF IdAnswered
    <3>3. CASE upload[u].known # 0
      <4>1. licence[t].id = upload[u].known /\ licence[t].status # "absent"
        BY <1>2, <3>3, ContentParts DEF RowsAndIds
      <4>. QED
        BY <1>2, <1>3, <3>3, <4>1 DEF IdAnswered
    <3>. QED
      BY <3>1, <3>2, <3>3
  <2>2. \A g \in given' : g \in given \/ g = <<t, IdAnswered(u)>>
    BY <1>1
  <2>3. doubled \subseteq doubled'
    BY <1>1
  <2>. QED
    BY <1>3, <2>1, <2>2, <2>3 DEF IdsGiven
<1>10. ASSUME NEW x \in FullTexts \ parted'
       PROVE  /\ Recording(x)' => x \in objects'
              /\ purge'.step = "mark" /\ x \in purge'.current => x \notin objects' \/ Recording(x)'
              /\ licence'[x].status = "expired" /\ ~Recording(x)' => x \notin objects'
              /\ licence'[x].status = "active" /\ ~RightEnded(x)' => x \in objects'
  <2>1. x \in FullTexts \ parted
    BY <1>7, <1>10
  <2>2. CASE x # t
    <3>1. /\ licence'[x] = licence[x] /\ (Recording(x)' <=> Recording(x)) /\ objects' = objects
          /\ (RightEnded(x)' <=> RightEnded(x)) /\ purge' = purge
      BY <1>1, <1>3, <1>4, <2>2 DEF RightEnded
    <3>. QED
      BY <2>1, <3>1, ContentParts DEF TextsInStep, Crossing
  <2>3. CASE x = t
    <3>1. ~(purge.step = "mark" /\ x \in purge.current)
      BY <1>1, <1>10, <2>3
    <3>2. x \in objects' /\ licence'[x].status = "active"
      BY <1>1, <1>2, <1>3, <1>6, <2>1, <2>3, ContentParts DEF Crossing
    <3>. QED
      BY <1>1, <3>1, <3>2
  <2>. QED
    BY <2>2, <2>3
<1>11. Crossing' /\ TextsInStep'
  BY <1>10 DEF Crossing, TextsInStep
<1>. QED
  BY <1>1, <1>4, <1>5, <1>8, <1>9, <1>11, ContentParts DEF ContentInv

\* An upload fails: a text put and not recorded is left, and the row may have been written.
LEMMA UploadFailsKeeps ==
  ASSUME ContentInv, NEW u \in Uploaders, UploadFails(u)
  PROVE  ContentInv'
<1> DEFINE t == upload[u].text
<1>1. /\ upload[u].step \in {"look", "put", "record"} /\ upload' = [upload EXCEPT ![u] = NoUpload]
      /\ UNCHANGED <<purge, hour, uploads, given, doubled, collector>>
      /\ \/ upload[u].step = "look" /\ UNCHANGED <<licence, objects, parted>>
         \/ upload[u].step = "put" /\ PutInVain(t) /\ UNCHANGED licence
         \/ /\ upload[u].step = "record" /\ licence' \in {licence, [licence EXCEPT ![t] = Recorded(u)]}
            /\ parted' = parted \cup {t} /\ UNCHANGED objects
  BY DEF UploadFails
<1>2. /\ upload' \in [Uploaders -> UploadState] /\ UploadSane(u)'
      /\ \A v \in Uploaders : v # u => upload'[v] = upload[v]
      /\ \A x : Recording(x)' => Recording(x)
      /\ \A x : upload[u].step # "record" \/ x # t => (Recording(x)' <=> Recording(x))
  BY <1>1, UploadEnds
<1>3. t \in FullTexts
  BY <1>1, ContentParts DEF UploadSane
<1>4. /\ licence' \in [FullTexts -> Licence]
      /\ \A x \in FullTexts : x # t => licence'[x] = licence[x]
      /\ \A x \in FullTexts : licence'[x].status = "absent" <=> licence'[x].id = 0
      /\ \A g \in given : g[1] \in doubled \/ g[2] = licence'[g[1]].id
      /\ \A v \in Uploaders : upload'[v] = upload[v] => UploadSane(v)'
  <2>1. CASE licence' = licence
    <3>1. ASSUME NEW v \in Uploaders, upload'[v] = upload[v] PROVE UploadSane(v)'
      BY <2>1, <3>1, ContentParts DEF UploadSane
    <3>. QED
      BY <2>1, <3>1, ContentParts DEF RowsAndIds, IdsGiven
  <2>2. CASE upload[u].step = "record" /\ licence' = [licence EXCEPT ![t] = Recorded(u)]
    <3>1. /\ Recorded(u) \in Licence /\ Recorded(u).id # 0 /\ Recorded(u).status # "absent"
          /\ licence[t].status # "absent" => Recorded(u).id = licence[t].id
      BY <2>2, RecordedRow
    <3>. QED
      BY <1>3, <2>2, <3>1, RowWritten
  <2>. QED
    BY <1>1, <2>1, <2>2
<1>5. \A v \in Uploaders : UploadSane(v)'
  BY <1>2, <1>4
<1>6. /\ \A x \in FullTexts \ parted' : x \in FullTexts \ parted /\ (x \in objects' <=> x \in objects)
      /\ \A x \in FullTexts \ parted' : upload[u].step = "record" => x # t
      /\ objects' \subseteq FullTexts
  BY <1>1, <1>3, ContentParts DEF PutInVain
<1>7. ContentTypeOK' /\ RowsAndIds' /\ IdsGiven' /\ CollectorSane'
  BY <1>1, <1>4, <1>6, ContentParts DEF ContentTypeOK, RowsAndIds, IdsGiven, CollectorSane
<1>8. ASSUME NEW x \in FullTexts \ parted'
      PROVE  /\ x \in FullTexts \ parted /\ licence'[x] = licence[x] /\ (Recording(x)' <=> Recording(x))
             /\ (RightEnded(x)' <=> RightEnded(x)) /\ (x \in objects' <=> x \in objects)
  <2>1. licence'[x] = licence[x]
    BY <1>1, <1>4, <1>6, <1>8
  <2>. QED
    BY <1>1, <1>2, <1>6, <1>8, <2>1 DEF RightEnded
<1>9. Crossing' /\ TextsInStep'
  BY <1>1, <1>8, ContentParts DEF Crossing, TextsInStep
<1>. QED
  BY <1>1, <1>2, <1>5, <1>7, <1>9, ContentParts DEF ContentInv

\* What the uploads are doing stays as it is when none of them moves.
LEMMA UploadsStand ==
  ASSUME ContentInv, upload' = upload, collector' = collector, \A t \in FullTexts : licence'[t].id = licence[t].id
  PROVE  /\ upload' \in [Uploaders -> UploadState] /\ \A u \in Uploaders : UploadSane(u)'
         /\ \A t : Recording(t)' <=> Recording(t)
BY ContentParts DEF UploadSane, Recording, Storing

\* The purge chooses its rows.
LEMMA SelectEndedKeeps ==
  ASSUME ContentInv, SelectEnded
  PROVE  ContentInv'
<1>1. /\ purge' = [step |-> "delete", todo |-> {t \in FullTexts : RightEnded(t)}, current |-> {}]
      /\ collector.step = "idle"
      /\ UNCHANGED <<licence, objects, upload, hour, uploads, given, parted, doubled, collector>>
  BY DEF SelectEnded
<1>2. purge' \in PurgeState /\ purge'.step = "delete" /\ purge'.todo \subseteq FullTexts
  BY <1>1 DEF PurgeState
<1>3. /\ upload' \in [Uploaders -> UploadState] /\ \A u \in Uploaders : UploadSane(u)'
      /\ \A t : Recording(t)' <=> Recording(t)
  BY <1>1, UploadsStand
<1>4. ContentTypeOK' /\ RowsAndIds' /\ IdsGiven' /\ CollectorSane'
  BY <1>1, <1>2, ContentParts DEF ContentTypeOK, RowsAndIds, IdsGiven, CollectorSane
<1>5. Crossing' /\ TextsInStep'
  BY <1>1, <1>2, <1>3, ContentParts DEF Crossing, TextsInStep, RightEnded
<1>. QED
  BY <1>2, <1>3, <1>4, <1>5 DEF ContentInv

\* The purge takes the object of a text away.
LEMMA DeleteTextKeeps ==
  ASSUME ContentInv, DeleteText
  PROVE  ContentInv'
<1>1. PICK t \in purge.todo :
        /\ objects' = objects \ {t}
        /\ purge' = [step |-> "mark", todo |-> purge.todo \ {t}, current |-> {t}]
        /\ parted' = IF Recording(t) \/ ~RightEnded(t) THEN parted \cup {t} ELSE parted \ {t}
  BY DEF DeleteText
<1>2. purge.step = "delete" /\ UNCHANGED <<licence, upload, hour, uploads, given, doubled, collector>>
  BY DEF DeleteText
<1>3. t \in FullTexts /\ purge \in PurgeState /\ purge.todo \in SUBSET FullTexts
  BY ContentParts DEF PurgeState
<1>4. purge' \in PurgeState /\ purge'.current = {t} /\ purge'.todo \subseteq FullTexts
  BY <1>1, <1>3 DEF PurgeState
<1>5. /\ upload' \in [Uploaders -> UploadState] /\ \A u \in Uploaders : UploadSane(u)'
      /\ \A x : Recording(x)' <=> Recording(x)
  BY <1>2, UploadsStand
<1>6. ContentTypeOK' /\ RowsAndIds' /\ IdsGiven' /\ CollectorSane'
  <2>1. objects' \subseteq FullTexts
    BY <1>1, ContentParts
  <2>. QED
    BY <1>2, <1>4, <2>1, ContentParts DEF ContentTypeOK, RowsAndIds, IdsGiven, CollectorSane
<1>7. ASSUME NEW x \in FullTexts \ parted'
      PROVE  /\ Recording(x)' => x \in objects'
             /\ purge'.step = "mark" /\ x \in purge'.current => x \notin objects' \/ Recording(x)'
             /\ licence'[x].status = "expired" /\ ~Recording(x)' => x \notin objects'
             /\ licence'[x].status = "active" /\ ~RightEnded(x)' => x \in objects'
  <2>1. RightEnded(x)' <=> RightEnded(x)
    BY <1>2 DEF RightEnded
  <2>2. CASE x = t
    <3>1. ~Recording(t) /\ RightEnded(t)
      BY <1>1, <1>7, <2>2
    <3>. QED
      BY <1>1, <1>5, <2>1, <2>2, <3>1
  <2>3. CASE x # t
    <3>1. x \in FullTexts \ parted /\ x \notin purge'.current /\ (x \in objects' <=> x \in objects)
      BY <1>1, <1>4, <1>7, <2>3
    <3>. QED
      BY <1>2, <1>5, <2>1, <3>1, ContentParts DEF Crossing, TextsInStep
  <2>. QED
    BY <2>2, <2>3
<1>8. Crossing' /\ TextsInStep'
  BY <1>7 DEF Crossing, TextsInStep
<1>. QED
  BY <1>4, <1>5, <1>6, <1>8 DEF ContentInv

\* What the purge goes on with is a state of it that marks nothing.
LEMMA ContinuedState ==
  ASSUME NEW todo \in SUBSET FullTexts
  PROVE  Continued(todo) \in PurgeState /\ Continued(todo).step # "mark" /\ Continued(todo).todo \subseteq FullTexts
BY DEF Continued, NoPurge, PurgeState

\* The purge marks the row whose object is gone.
LEMMA MarkExpiredKeeps ==
  ASSUME ContentInv, MarkExpired
  PROVE  ContentInv'
<1>1. PICK t \in purge.current : licence' = [licence EXCEPT ![t] = Marked(licence[t])]
  BY DEF MarkExpired
<1>2. purge.step = "mark" /\ purge' = Continued(purge.todo)
      /\ UNCHANGED <<objects, upload, hour, uploads, given, parted, doubled, collector>>
  BY DEF MarkExpired
<1>3. t \in FullTexts /\ purge.todo \in SUBSET FullTexts /\ licence[t] \in Licence
  BY ContentParts DEF PurgeState
<1>4. purge' \in PurgeState /\ purge'.step # "mark" /\ purge'.todo \subseteq FullTexts
  BY <1>2, <1>3, ContinuedState
<1>5. /\ Marked(licence[t]) \in Licence /\ Marked(licence[t]).id = licence[t].id
      /\ Marked(licence[t]).status # "active"
      /\ Marked(licence[t]).status = "absent" <=> licence[t].status = "absent"
  <2>1. CASE licence[t].status = "active"
    <3>1. PICK row : row = [licence[t] EXCEPT !.status = "expired"] /\ Marked(licence[t]) = row
      BY <2>1 DEF Marked
    <3>2. row \in Licence /\ row.id = licence[t].id /\ row.status = "expired"
      BY <1>3, <3>1 DEF Licence
    <3>. QED
      BY <2>1, <3>1, <3>2
  <2>2. CASE licence[t].status # "active"
    BY <1>3, <2>2 DEF Marked
  <2>. QED
    BY <2>1, <2>2
<1>6. /\ licence' \in [FullTexts -> Licence] /\ licence'[t] = Marked(licence[t])
      /\ \A x \in FullTexts : x # t => licence'[x] = licence[x]
      /\ \A x \in FullTexts : licence'[x].id = licence[x].id
      /\ \A x \in FullTexts : licence'[x].status = "absent" <=> licence[x].status = "absent"
  <2>1. /\ licence' \in [FullTexts -> Licence] /\ licence'[t] = Marked(licence[t])
        /\ \A x \in FullTexts : x # t => licence'[x] = licence[x]
    BY <1>1, <1>3, <1>5, ContentParts
  <2>. QED
    BY <1>5, <2>1
<1>7. /\ upload' \in [Uploaders -> UploadState] /\ \A u \in Uploaders : UploadSane(u)'
      /\ \A x : Recording(x)' <=> Recording(x)
  BY <1>2, <1>6, UploadsStand
<1>8. ContentTypeOK' /\ RowsAndIds' /\ IdsGiven' /\ CollectorSane'
  <2>1. RowsAndIds'
    BY <1>2, <1>6, ContentParts DEF RowsAndIds
  <2>2. ASSUME NEW g \in given PROVE g[1] \in doubled \/ g[2] = licence'[g[1]].id
    BY <1>6, ContentParts DEF RowsAndIds, IdsGiven
  <2>. QED
    BY <1>2, <1>4, <1>6, <2>1, <2>2, ContentParts DEF ContentTypeOK, IdsGiven, CollectorSane
<1>9. Crossing'
  BY <1>2, <1>4, <1>7, ContentParts DEF Crossing
<1>10. TextsInStep'
  <2>1. ASSUME NEW x \in FullTexts \ parted'
        PROVE  /\ licence'[x].status = "expired" /\ ~Recording(x)' => x \notin objects'
               /\ licence'[x].status = "active" /\ ~RightEnded(x)' => x \in objects'
    <3>1. x \in FullTexts \ parted
      BY <1>2
    <3>2. CASE x = t
      BY <1>2, <1>5, <1>6, <1>7, <3>1, <3>2, ContentParts DEF Crossing
    <3>3. CASE x # t
      <4>1. RightEnded(x)' <=> RightEnded(x)
        BY <1>2, <1>6, <3>3 DEF RightEnded
      <4>. QED
        BY <1>2, <1>6, <1>7, <3>1, <3>3, <4>1, ContentParts DEF TextsInStep
    <3>. QED
      BY <3>2, <3>3
  <2>. QED
    BY <2>1 DEF TextsInStep
<1>. QED
  BY <1>4, <1>7, <1>8, <1>9, <1>10 DEF ContentInv

\* The purge fails at a text, or is cut off.
LEMMA PurgeFailsKeeps ==
  ASSUME ContentInv, PurgeFails
  PROVE  ContentInv'
<1>1. purge.step # "idle" /\ UNCHANGED <<licence, objects, upload, hour, uploads, given, parted, doubled, collector>>
  BY DEF PurgeFails
<1>2. purge.todo \in SUBSET FullTexts
  BY ContentParts DEF PurgeState
<1>3. purge' \in PurgeState /\ purge'.step # "mark" /\ purge'.todo \subseteq FullTexts
  <2>1. NoPurge \in PurgeState /\ NoPurge.step = "idle" /\ NoPurge.todo = {}
    BY DEF NoPurge, PurgeState
  <2>2. (\E todo \in SUBSET FullTexts : purge' = Continued(todo)) \/ purge' = NoPurge
    BY <1>2 DEF PurgeFails
  <2>. QED
    BY <2>1, <2>2, ContinuedState
<1>4. /\ upload' \in [Uploaders -> UploadState] /\ \A u \in Uploaders : UploadSane(u)'
      /\ \A t : Recording(t)' <=> Recording(t)
  BY <1>1, UploadsStand
<1>5. ContentTypeOK' /\ RowsAndIds' /\ IdsGiven' /\ CollectorSane'
  BY <1>1, <1>3, ContentParts DEF ContentTypeOK, RowsAndIds, IdsGiven, CollectorSane
<1>6. Crossing' /\ TextsInStep'
  BY <1>1, <1>3, <1>4, ContentParts DEF Crossing, TextsInStep, RightEnded
<1>. QED
  BY <1>3, <1>4, <1>5, <1>6 DEF ContentInv

\* An hour passes: rights end and none begins again.
LEMMA HourPassesKeeps ==
  ASSUME ContentInv, HourPasses
  PROVE  ContentInv'
<1>1. /\ hour' = hour + 1 /\ hour' \in Hours /\ hour \in Nat /\ ShutHour \in Nat
      /\ UNCHANGED <<licence, objects, upload, purge, uploads, given, parted, doubled, collector>>
  BY ContentParts, AuthorizedContentAssumption DEF HourPasses, Hours, AuthorizedContentAssumption
<1>2. ASSUME NEW t \in FullTexts, RightEnded(t) PROVE RightEnded(t)'
  <2>1. licence[t].until \in Rights /\ LastHour \in Nat /\ Endless > LastHour
    BY ContentParts, AuthorizedContentAssumption DEF Licence, AuthorizedContentAssumption
  <2>2. licence[t].until \in Nat \/ licence[t].until = Endless
    BY <1>1, <2>1 DEF Rights
  <2>3. CASE hour > ShutHour
    BY <1>1, <1>2, <2>3 DEF RightEnded
  <2>4. CASE licence[t].until <= hour /\ licence[t].until \in Nat
    BY <1>1, <1>2, <2>4 DEF RightEnded
  <2>5. CASE licence[t].until <= hour /\ licence[t].until = Endless
    BY <1>1, <1>2, <2>5, AuthorizedContentAssumption DEF RightEnded, AuthorizedContentAssumption
  <2>. QED
    BY <1>2, <2>2, <2>3, <2>4, <2>5 DEF RightEnded
<1>3. /\ upload' \in [Uploaders -> UploadState] /\ \A u \in Uploaders : UploadSane(u)'
      /\ \A t : Recording(t)' <=> Recording(t)
  BY <1>1, UploadsStand
<1>4. ContentTypeOK' /\ RowsAndIds' /\ IdsGiven' /\ CollectorSane'
  BY <1>1, ContentParts DEF ContentTypeOK, RowsAndIds, IdsGiven, CollectorSane
<1>5. Crossing' /\ TextsInStep'
  BY <1>1, <1>2, <1>3, ContentParts DEF Crossing, TextsInStep
<1>. QED
  BY <1>1, <1>3, <1>4, <1>5, ContentParts DEF ContentInv

\* The uploads stand while the collector moves.
LEMMA CollectorMoves ==
  ASSUME ContentInv, UNCHANGED <<upload, purge, hour>>
  PROVE  /\ upload' \in [Uploaders -> UploadState] /\ purge' \in PurgeState /\ hour' \in Hours
         /\ \A x : Storing(x)' <=> Storing(x)
         /\ licence' = licence => \A u \in Uploaders : UploadSane(u)'
         /\ NoCollect \in CollectorState /\ NoCollect.step = "idle"
<1>1. NoCollect \in CollectorState /\ NoCollect.step = "idle"
  <2>1. 0 \in 0 .. UploadCalls /\ 0 \in Hours
    BY AuthorizedContentAssumption DEF Hours, AuthorizedContentAssumption
  <2>2. PICK s : s = (CHOOSE t \in FullTexts : TRUE) /\ NoCollect = [step |-> "idle", text |-> s, no |-> 0, at |-> 0]
    BY DEF NoCollect
  <2>3. NoCollect.text = s /\ NoCollect.step = "idle"
    BY <2>2
  <2>. QED
    BY <2>1, <2>2, <2>3 DEF CollectorState
<1>2. upload' = upload /\ purge' = purge /\ hour' = hour
  OBVIOUS
<1>3. \A x : Storing(x)' <=> Storing(x)
  BY <1>2 DEF Storing
<1>4. licence' = licence => \A u \in Uploaders : UploadSane(u)'
  BY <1>2, ContentParts DEF UploadSane
<1>. QED
  BY <1>1, <1>2, <1>3, <1>4, ContentParts

\* The collector takes up a text.
LEMMA BeginCollectKeeps ==
  ASSUME ContentInv, BeginCollect
  PROVE  ContentInv'
<1>1. /\ collector.step = "idle" /\ purge.step = "idle" /\ uploads < UploadCalls /\ uploads' = uploads + 1
      /\ UNCHANGED <<licence, objects, upload, purge, hour, given, parted, doubled>>
  BY DEF BeginCollect
<1>2. PICK t \in FullTexts : collector' = [step |-> "put", text |-> t, no |-> uploads + 1, at |-> hour]
  BY DEF BeginCollect
<1>3. /\ uploads + 1 \in 1 .. UploadCalls /\ uploads + 1 \in 0 .. UploadCalls /\ uploads' \in 0 .. UploadCalls
      /\ hour \in Hours
  BY <1>1, ContentParts
<1>4. CollectorSane'
  <2>1. collector' \in CollectorState
    BY <1>2, <1>3 DEF CollectorState
  <2>2. collector'.text = t /\ collector'.no = uploads + 1 /\ purge'.step = "idle"
    BY <1>1, <1>2
  <2>. QED
    BY <1>3, <2>1, <2>2 DEF CollectorSane
<1>5. collector'.step = "put"
  BY <1>2
<1>6. /\ upload' \in [Uploaders -> UploadState] /\ purge' \in PurgeState /\ \A u \in Uploaders : UploadSane(u)'
      /\ \A x : Storing(x)' <=> Storing(x)
  BY <1>1, CollectorMoves
<1>7. \A x : Recording(x)' <=> Recording(x)
  BY <1>1, <1>5, <1>6 DEF Recording
<1>8. ContentTypeOK' /\ RowsAndIds' /\ IdsGiven'
  BY <1>1, <1>3, <1>5, ContentParts DEF ContentTypeOK, RowsAndIds, IdsGiven
<1>9. Crossing' /\ TextsInStep'
  BY <1>1, <1>7, ContentParts DEF Crossing, TextsInStep, RightEnded
<1>. QED
  BY <1>4, <1>6, <1>8, <1>9 DEF ContentInv

\* The collector puts the text.
LEMMA CollectPutKeeps ==
  ASSUME ContentInv, CollectPut
  PROVE  ContentInv'
<1> DEFINE t == collector.text
<1>1. /\ collector.step = "put" /\ objects' = objects \cup {t}
      /\ UNCHANGED <<licence, upload, purge, hour, uploads, given, parted, doubled>>
  BY DEF CollectPut
<1>2. PICK c : c = [collector EXCEPT !.step = "insert"] /\ collector' = c
  BY DEF CollectPut
<1>3. /\ collector \in CollectorState /\ t \in FullTexts /\ collector.no \in 1 .. UploadCalls /\ purge.step = "idle"
  BY <1>1, ContentParts DEF CollectorSane
<1>4. c \in CollectorState /\ c.step = "insert" /\ c.text = t /\ c.no = collector.no
  BY <1>2, <1>3 DEF CollectorState
<1>5. CollectorSane'
  BY <1>1, <1>2, <1>3, <1>4 DEF CollectorSane
<1>6. /\ upload' \in [Uploaders -> UploadState] /\ purge' \in PurgeState /\ \A u \in Uploaders : UploadSane(u)'
      /\ \A x : Storing(x)' <=> Storing(x)
  BY <1>1, CollectorMoves
<1>7. \A x : Recording(x)' <=> Recording(x) \/ x = t
  BY <1>1, <1>2, <1>4, <1>6 DEF Recording
<1>8. ContentTypeOK' /\ RowsAndIds' /\ IdsGiven'
  BY <1>1, <1>2, <1>3, <1>4, ContentParts DEF ContentTypeOK, RowsAndIds, IdsGiven
<1>9. Crossing' /\ TextsInStep'
  BY <1>1, <1>7, ContentParts DEF Crossing, TextsInStep, RightEnded
<1>. QED
  BY <1>5, <1>6, <1>8, <1>9 DEF ContentInv

\* The row is written, and the statement answered or not.
LEMMA CollectRowKeeps ==
  ASSUME ContentInv, CollectInsert \/ CollectRefused
  PROVE  ContentInv'
<1> DEFINE t == collector.text
<1>1. /\ collector.step = "insert"
      /\ UNCHANGED <<objects, upload, purge, hour, uploads, given, parted, doubled>>
      /\ licence' = licence \/ licence' = [licence EXCEPT ![t] = CollectedRow(t)]
      /\ collector' = NoCollect => licence' = [licence EXCEPT ![t] = CollectedRow(t)]
      /\ collector' = NoCollect \/ collector' = [collector EXCEPT !.step = "undo"]
  <2>1. CASE CollectInsert
    BY <2>1 DEF CollectInsert
  <2>2. CASE CollectRefused
    <3>1. PICK c : c = [collector EXCEPT !.step = "undo"] /\ collector' = c
      BY <2>2 DEF CollectRefused
    <3>2. c.step = "undo"
      BY <3>1, ContentParts DEF CollectorSane, CollectorState
    <3>3. NoCollect.step = "idle"
      BY <2>2, CollectorMoves DEF CollectRefused
    <3>. QED
      BY <2>2, <3>1, <3>2, <3>3 DEF CollectRefused
  <2>. QED
    BY <2>1, <2>2
<1>2. /\ t \in FullTexts /\ CollectedRow(t) \in Licence /\ CollectedRow(t).id # 0
      /\ CollectedRow(t).status = "active"
      /\ licence[t].status # "absent" => CollectedRow(t).id = licence[t].id
      /\ purge.step = "idle" /\ collector \in CollectorState /\ collector.no \in 1 .. UploadCalls
  BY <1>1, CollectedFacts, ContentParts DEF CollectorSane
<1>3. /\ upload' \in [Uploaders -> UploadState] /\ purge' \in PurgeState
      /\ licence' = licence => \A u \in Uploaders : UploadSane(u)'
      /\ \A x : Storing(x)' <=> Storing(x)
      /\ NoCollect \in CollectorState /\ NoCollect.step = "idle"
  BY <1>1, CollectorMoves
<1>4. /\ licence' \in [FullTexts -> Licence]
      /\ \A x \in FullTexts : licence'[x] = licence[x] \/ (x = t /\ licence'[x].status = "active")
      /\ \A x \in FullTexts : licence'[x].status = "absent" <=> licence'[x].id = 0
      /\ \A g \in given : g[1] \in doubled \/ g[2] = licence'[g[1]].id
      /\ \A v \in Uploaders : UploadSane(v)'
  <2>1. CASE licence' = licence
    BY <1>3, <2>1, ContentParts DEF RowsAndIds, IdsGiven
  <2>2. CASE licence' = [licence EXCEPT ![t] = CollectedRow(t)]
    <3>1. /\ licence' \in [FullTexts -> Licence] /\ licence'[t] = CollectedRow(t)
          /\ \A x \in FullTexts : x # t => licence'[x] = licence[x]
          /\ \A x \in FullTexts : licence'[x].status = "absent" <=> licence'[x].id = 0
          /\ \A g \in given : g[1] \in doubled \/ g[2] = licence'[g[1]].id
          /\ \A v \in Uploaders : upload'[v] = upload[v] => UploadSane(v)'
      BY <1>2, <2>2, RowWritten
    <3>. QED
      BY <1>1, <1>2, <3>1
  <2>. QED
    BY <1>1, <2>1, <2>2
<1>5. CollectorSane' /\ (collector'.step = "idle" \/ (collector'.step = "undo" /\ collector'.text = t))
  <2>1. CASE collector' = NoCollect
    BY <1>3, <2>1 DEF CollectorSane
  <2>2. CASE collector' = [collector EXCEPT !.step = "undo"]
    <3>1. PICK c : c = [collector EXCEPT !.step = "undo"] /\ collector' = c
      BY <2>2
    <3>2. c \in CollectorState /\ c.step = "undo" /\ c.text = t /\ c.no = collector.no
      BY <1>2, <3>1 DEF CollectorState
    <3>. QED
      BY <1>1, <1>2, <3>1, <3>2 DEF CollectorSane
  <2>. QED
    BY <1>1, <2>1, <2>2
<1>6. /\ \A x : Recording(x)' => Recording(x)
      /\ \A x : x # t => (Recording(x)' <=> Recording(x))
      /\ Recording(t)
      /\ collector' # NoCollect => \A x : x = t => Recording(x)'
      /\ collector' = NoCollect => licence'[t].status = "active"
  <2>1. collector' # NoCollect => collector'.step = "undo" /\ collector'.text = t
    <3>1. SUFFICES ASSUME collector' # NoCollect PROVE collector'.step = "undo" /\ collector'.text = t
      OBVIOUS
    <3>2. PICK c : c = [collector EXCEPT !.step = "undo"] /\ collector' = c
      BY <1>1, <3>1
    <3>. QED
      BY <1>2, <3>2 DEF CollectorState
  <2>2. collector' = NoCollect => licence'[t].status = "active"
    BY <1>1, <1>2, ContentParts
  <2>. QED
    BY <1>1, <1>3, <1>5, <2>1, <2>2 DEF Recording
<1>7. ContentTypeOK' /\ RowsAndIds' /\ IdsGiven'
  BY <1>1, <1>4, <1>5, ContentParts DEF ContentTypeOK, RowsAndIds, IdsGiven
<1>8. ASSUME NEW x \in FullTexts \ parted'
      PROVE  /\ Recording(x)' => x \in objects'
             /\ purge'.step = "mark" /\ x \in purge'.current => x \notin objects' \/ Recording(x)'
             /\ licence'[x].status = "expired" /\ ~Recording(x)' => x \notin objects'
             /\ licence'[x].status = "active" /\ ~RightEnded(x)' => x \in objects'
  <2>1. x \in FullTexts \ parted /\ objects' = objects /\ purge'.step # "mark"
    BY <1>1, <1>2, <1>8
  <2>2. CASE x # t
    <3>1. licence'[x] = licence[x] /\ (Recording(x)' <=> Recording(x)) /\ (RightEnded(x)' <=> RightEnded(x))
      BY <1>1, <1>4, <1>6, <2>2 DEF RightEnded
    <3>. QED
      BY <2>1, <3>1, ContentParts DEF TextsInStep, Crossing
  <2>3. CASE x = t
    <3>1. x \in objects'
      BY <1>6, <2>1, <2>3, ContentParts DEF Crossing
    <3>2. licence'[x].status = "active" \/ Recording(x)'
      <4>1. CASE collector' = NoCollect
        <5>1. licence'[t].status = "active"
          BY <1>6, <4>1
        <5>. QED
          BY <2>3, <5>1
      <4>2. CASE collector' # NoCollect
        BY <1>6, <2>3, <4>2
      <4>. QED
        BY <4>1, <4>2
    <3>. QED
      BY <2>1, <3>1, <3>2
  <2>. QED
    BY <2>2, <2>3
<1>9. Crossing' /\ TextsInStep'
  BY <1>8 DEF Crossing, TextsInStep
<1>. QED
  BY <1>3, <1>4, <1>5, <1>7, <1>9 DEF ContentInv

\* The object is taken back, or the collection broken off.
LEMMA CollectEndsKeeps ==
  ASSUME ContentInv, TakeBack \/ CollectFails
  PROVE  ContentInv'
<1> DEFINE t == collector.text
<1>1. /\ collector.step # "idle" /\ collector' = NoCollect
      /\ UNCHANGED <<licence, upload, purge, hour, uploads, given, doubled>>
  BY DEF TakeBack, CollectFails
<1>2. t \in FullTexts /\ purge.step = "idle"
  BY <1>1, ContentParts DEF CollectorSane
<1>3. /\ upload' \in [Uploaders -> UploadState] /\ purge' \in PurgeState /\ \A u \in Uploaders : UploadSane(u)'
      /\ \A x : Storing(x)' <=> Storing(x)
      /\ NoCollect \in CollectorState /\ NoCollect.step = "idle"
  BY <1>1, CollectorMoves
<1>4. CollectorSane' /\ collector'.step = "idle"
  BY <1>1, <1>3 DEF CollectorSane
<1>5. \A x : Recording(x)' <=> Storing(x)
  BY <1>3, <1>4 DEF Recording
<1>6. \A x : x # t => (Storing(x) <=> Recording(x))
  BY DEF Recording
<1>7. /\ objects' \subseteq FullTexts
      /\ \A x \in FullTexts \ parted' :
           /\ x \in FullTexts \ parted
           /\ x # t => (x \in objects' <=> x \in objects)
  <2>1. CASE TakeBack
    BY <1>2, <2>1, ContentParts DEF TakeBack
  <2>2. CASE CollectFails
    BY <1>2, <2>2, ContentParts DEF CollectFails, PutInVain
  <2>. QED
    BY <2>1, <2>2
<1>8. ASSUME t \in FullTexts \ parted'
      PROVE  \/ t \notin objects' /\ licence[t].status # "active" /\ ~Storing(t)
             \/ (t \in objects' <=> t \in objects) /\ (Storing(t) <=> Recording(t))
  <2>1. CASE TakeBack
    BY <1>8, <2>1 DEF TakeBack
  <2>2. CASE CollectFails
    <3>1. collector.step = "put" /\ (t \in objects' <=> t \in objects)
      BY <1>8, <2>2 DEF CollectFails, PutInVain
    <3>. QED
      BY <3>1 DEF Recording
  <2>. QED
    BY <2>1, <2>2
<1>9. ContentTypeOK' /\ RowsAndIds' /\ IdsGiven'
  BY <1>1, <1>4, <1>7, ContentParts DEF ContentTypeOK, RowsAndIds, IdsGiven
<1>10. ASSUME NEW x \in FullTexts \ parted'
       PROVE  /\ Recording(x)' => x \in objects'
              /\ purge'.step = "mark" /\ x \in purge'.current => x \notin objects' \/ Recording(x)'
              /\ licence'[x].status = "expired" /\ ~Recording(x)' => x \notin objects'
              /\ licence'[x].status = "active" /\ ~RightEnded(x)' => x \in objects'
  <2>1. /\ x \in FullTexts \ parted /\ purge'.step # "mark" /\ licence' = licence
        /\ (RightEnded(x)' <=> RightEnded(x))
    BY <1>1, <1>2, <1>7, <1>10 DEF RightEnded
  <2>2. CASE (x \in objects' <=> x \in objects) /\ (Storing(x) <=> Recording(x))
    BY <1>5, <2>1, <2>2, ContentParts DEF TextsInStep, Crossing
  <2>3. CASE x = t /\ t \notin objects' /\ licence[t].status # "active" /\ ~Storing(t)
    BY <1>5, <2>1, <2>3
  <2>. QED
    BY <1>6, <1>7, <1>8, <1>10, <2>2, <2>3
<1>11. Crossing' /\ TextsInStep'
  BY <1>10 DEF Crossing, TextsInStep
<1>. QED
  BY <1>3, <1>4, <1>9, <1>11 DEF ContentInv

\* Every step of the texts keeps the invariant.
LEMMA ContentInvStep ==
  ASSUME ContentInv, [ContentNext]_contentVars
  PROVE  ContentInv'
<1>1. CASE UNCHANGED contentVars
  <2>1. /\ licence' = licence /\ objects' = objects /\ upload' = upload /\ purge' = purge /\ hour' = hour
        /\ uploads' = uploads /\ collector' = collector /\ given' = given /\ parted' = parted /\ doubled' = doubled
    BY <1>1 DEF contentVars
  <2>2. /\ upload' \in [Uploaders -> UploadState] /\ \A u \in Uploaders : UploadSane(u)'
        /\ \A t : Recording(t)' <=> Recording(t)
    BY <2>1, UploadsStand
  <2>3. ContentTypeOK' /\ RowsAndIds' /\ IdsGiven' /\ CollectorSane'
    BY <2>1, ContentParts DEF ContentTypeOK, RowsAndIds, IdsGiven, CollectorSane
  <2>4. Crossing' /\ TextsInStep'
    BY <2>1, <2>2, ContentParts DEF Crossing, TextsInStep, RightEnded
  <2>. QED
    BY <2>1, <2>2, <2>3, <2>4, ContentParts DEF ContentInv
<1>2. ASSUME NEW u \in Uploaders, BeginUpload(u) \/ LookUp(u) \/ PutText(u) \/ RecordText(u) \/ UploadFails(u)
      PROVE  ContentInv'
  BY <1>2, BeginUploadKeeps, LookUpKeeps, PutTextKeeps, RecordTextKeeps, UploadFailsKeeps
<1>3. ASSUME SelectEnded \/ DeleteText \/ MarkExpired \/ PurgeFails \/ HourPasses
      PROVE  ContentInv'
  BY <1>3, SelectEndedKeeps, DeleteTextKeeps, MarkExpiredKeeps, PurgeFailsKeeps, HourPassesKeeps
<1>4. ASSUME BeginCollect \/ CollectPut \/ CollectInsert \/ CollectRefused \/ TakeBack \/ CollectFails
      PROVE  ContentInv'
  BY <1>4, BeginCollectKeeps, CollectPutKeeps, CollectRowKeeps, CollectEndsKeeps
<1>. QED
  BY <1>1, <1>2, <1>3, <1>4 DEF ContentNext

\* There are no texts at first.
LEMMA ContentInvInit ==
  ASSUME ContentInit
  PROVE  ContentInv
<1>1. /\ licence = [t \in FullTexts |-> Unrecorded] /\ objects = {} /\ upload = [u \in Uploaders |-> NoUpload]
      /\ purge = NoPurge /\ collector = NoCollect /\ hour = 0 /\ uploads = 0 /\ given = {} /\ parted = {} /\ doubled = {}
  BY DEF ContentInit
<1>2. Unrecorded \in Licence /\ Unrecorded.status = "absent" /\ Unrecorded.id = 0
  BY AuthorizedContentAssumption DEF Unrecorded, Licence, Hours, Rights, AuthorizedContentAssumption
<1>3. NoPurge \in PurgeState /\ NoPurge.step = "idle" /\ NoPurge.todo = {}
  BY DEF NoPurge, PurgeState
<1>7. CollectorSane /\ collector.step = "idle"
  <2>1. 0 \in 0 .. UploadCalls /\ 0 \in Hours
    BY AuthorizedContentAssumption DEF Hours, AuthorizedContentAssumption
  <2>2. PICK s : s = (CHOOSE t \in FullTexts : TRUE) /\ NoCollect = [step |-> "idle", text |-> s, no |-> 0, at |-> 0]
    BY DEF NoCollect
  <2>3. NoCollect.text = s /\ NoCollect.step = "idle"
    BY <2>2
  <2>4. NoCollect \in CollectorState
    BY <2>1, <2>2, <2>3 DEF CollectorState
  <2>. QED
    BY <1>1, <2>3, <2>4 DEF CollectorSane
<1>4. ContentTypeOK
  BY <1>1, <1>2, <1>3, <1>7, AuthorizedContentAssumption DEF ContentTypeOK, Hours, AuthorizedContentAssumption
<1>5. /\ upload \in [Uploaders -> UploadState] /\ \A u \in Uploaders : UploadSane(u)
      /\ \A t : ~Recording(t)
  BY <1>1, <1>7, NoUploadState DEF UploadSane, Recording, Storing
<1>6. RowsAndIds /\ Crossing /\ TextsInStep /\ IdsGiven
  BY <1>1, <1>2, <1>3, <1>5 DEF RowsAndIds, Crossing, TextsInStep, IdsGiven
<1>. QED
  BY <1>1, <1>3, <1>4, <1>5, <1>6, <1>7 DEF ContentInv

\* The texts are in step, and the one chosen is held.
LEMMA ContentKept ==
  ASSUME ContentInv
  PROVE  ContentInStep
<1>1. ASSUME hour <= ShutHour, NEW t \in FullTexts, LatestLicensed(t)
      PROVE  t \in objects \cup parted
  <2>1. licence[t].status = "active" /\ licence[t].until > hour
    BY <1>1 DEF LatestLicensed, Licensed
  <2>2. ~(licence[t].until <= hour) /\ ~(hour > ShutHour)
    <3>1. hour \in Nat /\ ShutHour \in Nat /\ licence[t].until \in Rights
      BY ContentParts, AuthorizedContentAssumption DEF Licence, AuthorizedContentAssumption
    <3>2. ~(hour > ShutHour)
      BY <1>1, <3>1
    <3>3. CASE licence[t].until \in 1 .. LastHour
      BY <2>1, <3>1, <3>2, <3>3
    <3>4. CASE licence[t].until = Endless
      <4>1. hour <= LastHour /\ LastHour \in Nat
        BY <3>1, ContentParts, AuthorizedContentAssumption DEF Hours, AuthorizedContentAssumption
      <4>. QED
        BY <2>1, <3>1, <3>2, <3>4, <4>1, AuthorizedContentAssumption DEF AuthorizedContentAssumption
    <3>5. CASE licence[t].until = ShutHour
      BY <2>1, <3>1, <3>2, <3>5
    <3>. QED
      BY <3>1, <3>3, <3>4, <3>5 DEF Rights
  <2>3. ~RightEnded(t)
    BY <2>2 DEF RightEnded
  <2>. QED
    BY <2>1, <2>3, ContentParts DEF TextsInStep
<1>. QED
  BY <1>1, ContentParts DEF ContentInStep, ChosenIsHeld

----------------------------------------------------------------------------
(* The administrator's page *)

DayStatuses == {"empty", "pending", "success", "failed"}
PageStatuses == {"", "importing", "imported", "failed", "analysing", "success", "listing", "listed", "period",
                 "period_done", "period_failed", "reading", "pages_done", "capped"}
RowSets     == SUBSET DOMAIN FileRows
ImportBatch == [structured : BOOLEAN, rows : Seq(DOMAIN FileRows)]
ImportWork  == [kind : {"import"}, jobs : Seq(ImportBatch), rows : RowSets, sent : Nat]
DayWork     == [kind : {"day"}, date : PeriodDays]
ListWork    == [kind : {"list"}, look : BOOLEAN]
PeriodWork  == [kind : {"period"}, todo : Seq(PeriodDays), known : [PeriodDays -> DayStatuses],
                completed : SUBSET PeriodDays, skipped : SUBSET PeriodDays, failed : SUBSET PeriodDays]
PagesWork   == [kind : {"pages"}, round : Nat]
DayTables   == UNION {[days -> DayStatuses] : days \in SUBSET PeriodDays}
ConsoleState == [rows : Seq(DOMAIN FileRows), errors : BOOLEAN, status : PageStatuses, days : DayTables,
                 acknowledged : BOOLEAN, file : RowSets]
StoreState  == [rows : RowSets, analyses : RowSets, dated : SUBSET PeriodDays, published : SUBSET PeriodDays,
                last : DayTables, pages : [DayPages -> {"unread", "analyzed", "failed"}], drawn : SUBSET DayPages]

ConsoleTyped ==
  /\ console \in ConsoleState /\ store \in StoreState
  /\ work \in {NoWork} \cup ImportWork \cup DayWork \cup ListWork \cup PeriodWork \cup PagesWork
  /\ presses \in 0 .. ConsoleActs /\ blurred \in BOOLEAN

\* The rows on the page are those of the file; while they are imported they stay there.
RowsOfFile ==
  /\ console.rows # << >> => console.file = InRows(console.rows)
  /\ work.kind = "import" /\ ~blurred => console.rows # << >> /\ console.file = work.rows

\* A row of an import is stored or waits in a batch, one with a text in a batch of texts.
RowsWaiting == work.kind = "import" =>
  /\ work.jobs # << >>
  /\ \A r \in work.rows :
       /\ r \in store.rows \/ \E i \in DOMAIN work.jobs : r \in InRows(work.jobs[i].rows)
       /\ Structured(r) => \/ r \in store.analyses
                           \/ \E i \in DOMAIN work.jobs : work.jobs[i].structured /\ r \in InRows(work.jobs[i].rows)

\* A day whose last analysis was published stays published; the days of a period are in
\* order, none of them counted yet, and what the page knew of them still holds.
PublishedDays ==
  /\ \A d \in store.dated : d \in DOMAIN store.last /\ store.last[d] # "empty"
  /\ \A d \in store.dated : store.last[d] = "success" => d \in store.published
DaysInOrder == work.kind = "period" =>
  /\ \A i, j \in DOMAIN work.todo : i < j => work.todo[i] < work.todo[j]
  /\ InRows(work.todo) \cap (work.completed \cup work.skipped \cup work.failed) = {}
  /\ \A d \in PeriodDays : /\ work.known[d] = "success" => d \in store.published
                           /\ work.known[d] = "empty" => d \notin store.dated
  /\ work.skipped \cap store.dated \subseteq store.published
\* The rounds of public pages are not said to be done while one is under way.
RoundsOpen == work.kind = "pages" => console.status # "pages_done"

ConsoleInv ==
  /\ ConsoleTyped /\ RowsOfFile /\ RowsWaiting /\ PublishedDays /\ DaysInOrder /\ RoundsOpen
  /\ ConsoleHonest

\* The numbers of a finite set can be put in order.
LEMMA OrderExists ==
  ASSUME NEW ns \in SUBSET Nat, IsFiniteSet(ns)
  PROVE  \E s \in [1 .. Cardinality(ns) -> ns] : \A i, j \in DOMAIN s : i < j => s[i] < s[j]
<1> DEFINE Sorted(m) == \E s \in [1 .. Cardinality(m) -> m] : \A i, j \in DOMAIN s : i < j => s[i] < s[j]
           unsorted == {k \in Nat : \E m \in SUBSET Nat : IsFiniteSet(m) /\ Cardinality(m) = k /\ ~Sorted(m)}
<1>1. SUFFICES ASSUME ~Sorted(ns) PROVE FALSE
  OBVIOUS
<1>2. unsorted \subseteq Nat /\ Cardinality(ns) \in unsorted
  <2>1. Cardinality(ns) \in Nat
    BY FS_CardinalityType
  <2> HIDE DEF Sorted
  <2>. QED
    BY <1>1, <2>1
<1>3. PICK k \in unsorted : \A l \in unsorted : k <= l
  <2> HIDE DEF unsorted
  <2>. QED
    BY <1>2, LeastOf
<1>4. PICK m \in SUBSET Nat : IsFiniteSet(m) /\ Cardinality(m) = k /\ ~Sorted(m)
  <2> HIDE DEF Sorted
  <2>. QED
    BY <1>3
<1>5. k \in Nat
  BY <1>2, <1>3
<1>6. m # {}
  <2>1. ASSUME m = {} PROVE FALSE
    <3>1. Cardinality(m) = 0
      BY <2>1, FS_EmptySet
    <3> DEFINE e == [i \in 1 .. 0 |-> 0]
    <3>2. e \in [1 .. Cardinality(m) -> m] /\ DOMAIN e = {}
      BY <3>1
    <3>3. Sorted(m)
      <4> HIDE DEF e
      <4>. QED
        BY <3>2
    <3>. QED
      BY <1>4, <3>3
  <2>. QED
    BY <2>1
<1>7. PICK x \in m : \A y \in m : x <= y
  BY <1>6, LeastOf
<1> DEFINE rest == m \ {x}
<1>8. IsFiniteSet(rest) /\ Cardinality(rest) = k - 1 /\ rest \in SUBSET Nat /\ k - 1 \in Nat
  <2>1. IsFiniteSet(rest) /\ Cardinality(rest) = k - 1
    BY <1>4, <1>7, FS_RemoveElement
  <2>2. Cardinality(rest) \in Nat
    BY <2>1, FS_CardinalityType
  <2>. QED
    BY <2>1, <2>2
<1>9. Sorted(rest)
  <2>1. ASSUME ~Sorted(rest) PROVE FALSE
    <3>1. k - 1 \in unsorted
      <4> HIDE DEF Sorted, rest
      <4>. QED
        BY <1>8, <2>1
    <3>2. k <= k - 1
      BY <1>3, <3>1
    <3>. QED
      BY <1>5, <3>2
  <2>. QED
    BY <2>1
<1>10. PICK t \in [1 .. k - 1 -> rest] : \A i, j \in 1 .. k - 1 : i < j => t[i] < t[j]
  BY <1>8, <1>9
<1> DEFINE s == [i \in 1 .. k |-> IF i = 1 THEN x ELSE t[i - 1]]
<1>11. ASSUME NEW i \in 1 .. k, i # 1 PROVE i - 1 \in 1 .. k - 1 /\ s[i] = t[i - 1] /\ s[i] \in rest
  BY <1>5, <1>10, <1>11
<1>12. s \in [1 .. k -> m]
  <2>1. \A i \in 1 .. k : s[i] \in m
    BY <1>7, <1>11
  <2>. QED
    BY <2>1
<1>13. ASSUME NEW i \in 1 .. k, NEW j \in 1 .. k, i < j PROVE s[i] < s[j]
  <2>1. j # 1 /\ s[j] \in rest /\ s[j] = t[j - 1] /\ j - 1 \in 1 .. k - 1
    BY <1>11, <1>13
  <2>2. CASE i = 1
    <3>1. s[i] = x /\ x <= s[j] /\ s[j] # x /\ x \in Nat /\ s[j] \in Nat
      BY <1>7, <2>1, <2>2
    <3>. QED
      BY <3>1
  <2>3. CASE i # 1
    <3>1. i - 1 \in 1 .. k - 1 /\ s[i] = t[i - 1] /\ i - 1 < j - 1
      BY <1>11, <1>13, <2>3
    <3>. QED
      BY <1>10, <2>1, <3>1
  <2>. QED
    BY <2>2, <2>3
<1>14. Sorted(m)
  <2>1. DOMAIN s = 1 .. k
    OBVIOUS
  <2> HIDE DEF s
  <2>. QED
    BY <1>4, <1>12, <1>13, <2>1
<1>. QED
  BY <1>4, <1>14

\* What is put in order keeps every number, once.
LEMMA AscendingNumbers ==
  ASSUME NEW ns \in SUBSET Nat, IsFiniteSet(ns)
  PROVE  /\ Cardinality(ns) \in Nat
         /\ Ascending(ns) \in [1 .. Cardinality(ns) -> ns]
         /\ \A i, j \in DOMAIN Ascending(ns) : i < j => Ascending(ns)[i] < Ascending(ns)[j]
         /\ \A x \in ns : \E i \in DOMAIN Ascending(ns) : Ascending(ns)[i] = x
<1> DEFINE n == Cardinality(ns)
           s == Ascending(ns)
<1>1. n \in Nat
  BY FS_CardinalityType
<1>2. s \in [1 .. n -> ns] /\ \A i, j \in DOMAIN s : i < j => s[i] < s[j]
  BY OrderExists DEF Ascending
<1>3. s \in Injection(1 .. n, ns)
  <2>1. ASSUME NEW i \in 1 .. n, NEW j \in 1 .. n, s[i] = s[j] PROVE i = j
    <3>1. s[i] \in Nat /\ s[j] \in Nat
      BY <1>2
    <3>2. ~(i < j) /\ ~(j < i)
      BY <1>2, <2>1, <3>1
    <3>. QED
      BY <1>1, <3>2
  <2>2. \A i, j \in 1 .. n : s[i] = s[j] => i = j
    BY <2>1
  <2> HIDE DEF s, n
  <2>. QED
    BY <1>2, <2>2 DEF Injection, IsInjective
<1>4. s \in Surjection(1 .. n, ns)
  <2>1. Cardinality(1 .. n) = n
    BY <1>1, FS_Interval
  <2>2. Cardinality(1 .. n) = Cardinality(ns)
    BY <2>1
  <2> HIDE DEF s
  <2>. QED
    BY <1>3, <2>2, FS_Injection
<1>5. \A x \in ns : \E i \in 1 .. n : s[i] = x
  <2> HIDE DEF s, n
  <2>. QED
    BY <1>4 DEF Surjection
<1>. QED
  BY <1>1, <1>2, <1>5

\* The rows of a table that are among the given ones
LEMMA AmongRows ==
  ASSUME NEW R, NEW table \in Seq(R), NEW rows
  PROVE  /\ Among(table, rows) \in Seq(R)
         /\ InRows(Among(table, rows)) = InRows(table) \cap rows
<1> DEFINE ns == {i \in DOMAIN table : table[i] \in rows}
           at == Ascending(ns)
           n  == Cardinality(ns)
<1>1. DOMAIN table = 1 .. Len(table) /\ Len(table) \in Nat
  OBVIOUS
<1>2. ns \in SUBSET Nat /\ IsFiniteSet(ns)
  <2>1. IsFiniteSet(1 .. Len(table)) /\ ns \in SUBSET (1 .. Len(table))
    BY <1>1, FS_Interval
  <2>2. IsFiniteSet(ns)
    <3> HIDE DEF ns
    <3>. QED
      BY <2>1, FS_Subset
  <2>. QED
    BY <2>1, <2>2
<1>3. /\ n \in Nat /\ at \in [1 .. n -> ns]
      /\ \A x \in ns : \E i \in 1 .. n : at[i] = x
  <2> HIDE DEF ns
  <2>. QED
    BY <1>2, AscendingNumbers
<1>4. Among(table, rows) = [i \in 1 .. n |-> table[at[i]]]
  BY <1>3 DEF Among
<1>5. ASSUME NEW i \in 1 .. n PROVE at[i] \in DOMAIN table /\ table[at[i]] \in rows /\ table[at[i]] \in R
  <2>1. at[i] \in ns
    BY <1>3
  <2>. QED
    BY <2>1
<1>6. Among(table, rows) \in Seq(R)
  <2> HIDE DEF at, n
  <2>. QED
    BY <1>3, <1>4, <1>5
<1>7. InRows(Among(table, rows)) \subseteq InRows(table) \cap rows
  BY <1>4, <1>5 DEF InRows
<1>8. ASSUME NEW r \in InRows(table) \cap rows PROVE r \in InRows(Among(table, rows))
  <2>1. PICK x \in DOMAIN table : r = table[x]
    BY DEF InRows
  <2>2. x \in ns
    BY <2>1
  <2>3. PICK i \in 1 .. n : at[i] = x
    BY <1>3, <2>2
  <2>4. Among(table, rows)[i] = r
    BY <1>4, <2>1, <2>3
  <2>. QED
    BY <1>4, <2>3, <2>4 DEF InRows
<1>. QED
  BY <1>6, <1>7, <1>8

\* The batches of a sequence of rows leave none of them out.
LEMMA BatchesCover ==
  ASSUME NEW R, NEW s \in Seq(R)
  PROVE  /\ Batches(s) \in Seq(Seq(R))
         /\ \A r \in InRows(s) : \E n \in DOMAIN Batches(s) : r \in InRows(Batches(s)[n])
<1> DEFINE L == Len(s)
           B == RowsPerBatch
           K == (L + B - 1) \div B
           lo(n) == (n - 1) * B + 1
           hi(n) == IF n * B < L THEN n * B ELSE L
<1>1. L \in Nat /\ B \in Nat \ {0} /\ s \in [1 .. L -> R]
  BY AdminConsoleAssumption DEF AdminConsoleAssumption
<1>2. K \in Nat /\ L <= K * B
  <2> HIDE DEF L, B
  <2>1. K \in Nat
    BY <1>1
  <2>2. L <= K * B
    BY <1>1
  <2>. QED
    BY <2>1, <2>2
<1>3. Batches(s) = [n \in 1 .. K |-> SubSeq(s, lo(n), hi(n))]
  BY DEF Batches
<1>4. ASSUME NEW n \in 1 .. K
      PROVE  /\ lo(n) \in 1 .. L + n * B + 1 /\ hi(n) \in 0 .. L /\ lo(n) >= 1
             /\ SubSeq(s, lo(n), hi(n)) \in Seq(R)
  <2>1. (n - 1) * B \in Nat /\ n * B \in Nat /\ n * B = (n - 1) * B + B
    <3> HIDE DEF B, K
    <3>1. n \in Nat /\ n - 1 \in Nat /\ B \in Nat
      BY <1>1, <1>2
    <3>2. \A m \in Nat : m * B \in Nat
      BY <3>1
    <3>3. n * B = (n - 1) * B + B
      BY <3>1
    <3>. QED
      BY <3>1, <3>2, <3>3
  <2>2. hi(n) \in 0 .. L
    <3> HIDE DEF L, B
    <3>. QED
      BY <1>1, <2>1
  <2>3. lo(n) \in Nat /\ lo(n) >= 1 /\ lo(n) <= L + n * B + 1
    <3> HIDE DEF L, B
    <3>. QED
      BY <1>1, <2>1
  <2>4. \A j \in lo(n) .. hi(n) : s[j] \in R
    <3> HIDE DEF L, B, lo, hi
    <3>. QED
      BY <1>1, <2>2, <2>3
  <2>5. SubSeq(s, lo(n), hi(n)) \in Seq(R)
    <3> HIDE DEF L, B, lo, hi
    <3>. QED
      BY <1>1, <2>2, <2>3, <2>4
  <2>. QED
    BY <2>2, <2>3, <2>5
<1>5. Batches(s) \in Seq(Seq(R)) /\ DOMAIN Batches(s) = 1 .. K
  <2> HIDE DEF K, lo, hi
  <2>. QED
    BY <1>2, <1>3, <1>4
<1>6. ASSUME NEW r \in InRows(s)
      PROVE  \E n \in DOMAIN Batches(s) : r \in InRows(Batches(s)[n])
  <2>1. PICK i \in 1 .. L : r = s[i]
    BY <1>1 DEF InRows
  <2> DEFINE q == (i - 1) \div B
  <2>2. q \in Nat /\ q * B <= i - 1 /\ i - 1 < (q + 1) * B
    <3> HIDE DEF L, B
    <3>1. i - 1 \in Nat
      BY <1>1
    <3>. QED
      BY <1>1, <3>1
  <2>3. q < K
    <3>1. ASSUME K <= q PROVE FALSE
      <4>1. K * B <= q * B
        <5> HIDE DEF K, q, B
        <5>. QED
          BY <1>1, <1>2, <2>2, <3>1
      <4>2. q * B \in Nat /\ K * B \in Nat
        <5> HIDE DEF K, q, B
        <5>. QED
          BY <1>1, <1>2, <2>2
      <4> HIDE DEF K, q, B, L
      <4>. QED
        BY <1>1, <1>2, <2>2, <4>1, <4>2
    <3> HIDE DEF K, q
    <3>. QED
      BY <1>2, <2>2, <3>1
  <2> DEFINE n == q + 1
  <2>4. n \in 1 .. K /\ n - 1 = q
    <3> HIDE DEF K, q
    <3>. QED
      BY <1>2, <2>2, <2>3
  <2>5. i \in lo(n) .. hi(n) /\ lo(n) \in Nat /\ hi(n) \in Nat /\ lo(n) >= 1 /\ hi(n) <= L
    <3>1. lo(n) = q * B + 1 /\ hi(n) = IF (q + 1) * B < L THEN (q + 1) * B ELSE L
      BY <2>4
    <3>2. q * B \in Nat /\ (q + 1) * B \in Nat
      <4> HIDE DEF q, B
      <4>. QED
        BY <1>1, <2>2
    <3> HIDE DEF lo, hi, n, K, q, B, L
    <3>. QED
      BY <1>1, <2>2, <3>1, <3>2
  <2>6. /\ i - lo(n) + 1 \in DOMAIN SubSeq(s, lo(n), hi(n))
        /\ SubSeq(s, lo(n), hi(n))[i - lo(n) + 1] = s[i]
    <3> HIDE DEF lo, hi, n, L
    <3>. QED
      BY <1>1, <2>5
  <2>7. Batches(s)[n] = SubSeq(s, lo(n), hi(n)) /\ n \in DOMAIN Batches(s)
    <3> HIDE DEF lo, hi, n, K
    <3>. QED
      BY <1>3, <2>4
  <2>8. r \in InRows(Batches(s)[n])
    <3> HIDE DEF lo, hi, n
    <3>. QED
      BY <2>1, <2>6, <2>7 DEF InRows
  <2>. QED
    BY <2>7, <2>8
<1>. QED
  BY <1>5, <1>6

\* Two sequences, one after the other
LEMMA OneAfterOther ==
  ASSUME NEW R, NEW s \in Seq(R), NEW t \in Seq(R)
  PROVE  /\ s \o t \in Seq(R)
         /\ \A n \in 1 .. Len(s) : n \in DOMAIN (s \o t) /\ (s \o t)[n] = s[n]
         /\ \A n \in 1 .. Len(t) : Len(s) + n \in DOMAIN (s \o t) /\ (s \o t)[Len(s) + n] = t[n]
<1>1. Len(s) \in Nat /\ Len(t) \in Nat /\ DOMAIN (s \o t) = 1 .. Len(s) + Len(t) /\ s \o t \in Seq(R)
  OBVIOUS
<1>2. ASSUME NEW n \in 1 .. Len(s) PROVE (s \o t)[n] = s[n]
  OBVIOUS
<1>3. ASSUME NEW n \in 1 .. Len(t) PROVE (s \o t)[Len(s) + n] = t[n]
  OBVIOUS
<1>. QED
  BY <1>1, <1>2, <1>3

\* Every row of an import is in one of its batches, one with a text in a batch of texts.
LEMMA ImportJobsCover ==
  ASSUME NEW s \in Seq(DOMAIN FileRows)
  PROVE  /\ ImportJobs(s) \in Seq(ImportBatch)
         /\ \A r \in InRows(s) : \E i \in DOMAIN ImportJobs(s) :
              /\ r \in InRows(ImportJobs(s)[i].rows)
              /\ Structured(r) => ImportJobs(s)[i].structured
<1> DEFINE R == DOMAIN FileRows
           long  == {r \in R : Structured(r)}
           short == {r \in R : ~Structured(r)}
           texts == Batches(Among(s, long))
           plain == Batches(Among(s, short))
           J == [n \in DOMAIN texts |-> ImportJob(TRUE, texts[n])]
           M == [n \in DOMAIN plain |-> ImportJob(FALSE, plain[n])]
<1>1. /\ Among(s, long) \in Seq(R) /\ InRows(Among(s, long)) = InRows(s) \cap long
      /\ Among(s, short) \in Seq(R) /\ InRows(Among(s, short)) = InRows(s) \cap short
  <2> HIDE DEF R, long, short
  <2>. QED
    BY AmongRows DEF R
<1>2. /\ texts \in Seq(Seq(R)) /\ plain \in Seq(Seq(R))
      /\ \A r \in InRows(s) \cap long : \E n \in DOMAIN texts : r \in InRows(texts[n])
      /\ \A r \in InRows(s) \cap short : \E n \in DOMAIN plain : r \in InRows(plain[n])
  <2>1. /\ texts \in Seq(Seq(R))
        /\ \A r \in InRows(Among(s, long)) : \E n \in DOMAIN texts : r \in InRows(texts[n])
    <3> HIDE DEF R, long
    <3>. QED
      BY <1>1, BatchesCover
  <2>2. /\ plain \in Seq(Seq(R))
        /\ \A r \in InRows(Among(s, short)) : \E n \in DOMAIN plain : r \in InRows(plain[n])
    <3> HIDE DEF R, short
    <3>. QED
      BY <1>1, BatchesCover
  <2> HIDE DEF R, long, short, texts, plain
  <2>. QED
    BY <1>1, <2>1, <2>2
<1>3. ImportJobs(s) = J \o M
  BY DEF ImportJobs
<1> HIDE DEF texts, plain
<1>4. /\ J \in Seq(ImportBatch) /\ Len(J) = Len(texts) /\ Len(texts) \in Nat /\ DOMAIN texts = 1 .. Len(texts)
      /\ M \in Seq(ImportBatch) /\ Len(M) = Len(plain) /\ Len(plain) \in Nat /\ DOMAIN plain = 1 .. Len(plain)
  <2>1. \A n \in DOMAIN texts : ImportJob(TRUE, texts[n]) \in ImportBatch
    BY <1>2 DEF ImportJob, ImportBatch
  <2>2. \A n \in DOMAIN plain : ImportJob(FALSE, plain[n]) \in ImportBatch
    BY <1>2 DEF ImportJob, ImportBatch
  <2>3. DOMAIN texts = 1 .. Len(texts) /\ Len(texts) \in Nat /\ DOMAIN plain = 1 .. Len(plain) /\ Len(plain) \in Nat
    BY <1>2
  <2>4. J \in Seq(ImportBatch) /\ Len(J) = Len(texts)
    <3>1. J \in [1 .. Len(texts) -> ImportBatch]
      BY <2>1, <2>3
    <3> HIDE DEF J
    <3>. QED
      BY <2>3, <3>1
  <2>5. M \in Seq(ImportBatch) /\ Len(M) = Len(plain)
    <3>1. M \in [1 .. Len(plain) -> ImportBatch]
      BY <2>2, <2>3
    <3> HIDE DEF M
    <3>. QED
      BY <2>3, <3>1
  <2>. QED
    BY <2>3, <2>4, <2>5
<1>joined. J \o M \in Seq(ImportBatch)
     /\ (\A n \in 1 .. Len(J) : n \in DOMAIN (J \o M) /\ (J \o M)[n] = J[n])
     /\ (\A n \in 1 .. Len(M) : Len(J) + n \in DOMAIN (J \o M) /\ (J \o M)[Len(J) + n] = M[n])
  <2> HIDE DEF J, M
  <2>. QED
    BY <1>4, OneAfterOther
<1>5. \A n \in DOMAIN texts : n \in DOMAIN (J \o M) /\ (J \o M)[n] = ImportJob(TRUE, texts[n])
  <2>1. \A n \in DOMAIN texts : n \in 1 .. Len(J) /\ J[n] = ImportJob(TRUE, texts[n])
    BY <1>4
  <2> HIDE DEF J, M
  <2>. QED
    BY <1>4, <1>joined, <2>1
<1>6. \A n \in DOMAIN plain : Len(J) + n \in DOMAIN (J \o M) /\ (J \o M)[Len(J) + n] = ImportJob(FALSE, plain[n])
  <2>1. \A n \in DOMAIN plain : n \in 1 .. Len(M) /\ M[n] = ImportJob(FALSE, plain[n])
    BY <1>4
  <2> HIDE DEF J, M
  <2>. QED
    BY <1>4, <1>joined, <2>1
<1>7. ImportJobs(s) \in Seq(ImportBatch)
  <2> HIDE DEF J, M
  <2>. QED
    BY <1>3, <1>4
<1>8. ASSUME NEW r \in InRows(s)
      PROVE  \E i \in DOMAIN ImportJobs(s) :
               /\ r \in InRows(ImportJobs(s)[i].rows)
               /\ Structured(r) => ImportJobs(s)[i].structured
  <2>1. r \in R
    BY DEF InRows
  <2>2. CASE Structured(r)
    <3>1. PICK n \in DOMAIN texts : r \in InRows(texts[n])
      BY <1>2, <2>1, <2>2
    <3>2. (J \o M)[n] = ImportJob(TRUE, texts[n]) /\ n \in DOMAIN (J \o M)
      BY <1>5
    <3> HIDE DEF J, M
    <3>. QED
      BY <1>3, <3>1, <3>2 DEF ImportJob
  <2>3. CASE ~Structured(r)
    <3>1. PICK n \in DOMAIN plain : r \in InRows(plain[n])
      BY <1>2, <2>1, <2>3
    <3>2. (J \o M)[Len(J) + n] = ImportJob(FALSE, plain[n]) /\ Len(J) + n \in DOMAIN (J \o M)
      BY <1>6
    <3> HIDE DEF J, M
    <3>. QED
      BY <1>3, <2>3, <3>1, <3>2 DEF ImportJob
  <2>. QED
    BY <2>2, <2>3
<1>. QED
  BY <1>7, <1>8

LEMMA ConsoleParts ==
  ASSUME ConsoleInv
  PROVE  /\ console \in ConsoleState /\ store \in StoreState
         /\ work \in {NoWork} \cup ImportWork \cup DayWork \cup ListWork \cup PeriodWork \cup PagesWork
         /\ presses \in 0 .. ConsoleActs /\ blurred \in BOOLEAN /\ ConsoleActs \in Nat
         /\ RowsOfFile /\ RowsWaiting /\ PublishedDays /\ DaysInOrder /\ RoundsOpen
         /\ FileBroughtIn /\ PeriodCovered /\ PagesDrawn
BY AdminConsoleAssumption DEF ConsoleInv, ConsoleTyped, ConsoleHonest, AdminConsoleAssumption

\* What the page announces, and nothing else of it
LEMMA Announced ==
  ASSUME console \in ConsoleState, NEW s \in PageStatuses, Announce(s)
  PROVE  /\ console' \in ConsoleState /\ console'.status = s
         /\ console'.rows = console.rows /\ console'.file = console.file /\ console'.errors = console.errors
         /\ console'.days = console.days
<1>1. PICK c : c = [console EXCEPT !.status = s] /\ console' = c
  BY DEF Announce
<1>2. c \in ConsoleState
  BY <1>1 DEF ConsoleState
<1>. QED
  BY <1>1, <1>2 DEF ConsoleState

\* The kinds of work under way
LEMMA KindsOfWork ==
  /\ NoWork.kind = "none"
  /\ \A w \in {NoWork} \cup ImportWork \cup DayWork \cup ListWork \cup PeriodWork \cup PagesWork :
       /\ w.kind = "import" => w \in ImportWork
       /\ w.kind = "day" => w \in DayWork
       /\ w.kind = "list" => w \in ListWork
       /\ w.kind = "period" => w \in PeriodWork
       /\ w.kind = "pages" => w \in PagesWork
BY DEF NoWork, ImportWork, DayWork, ListWork, PeriodWork, PagesWork

\* A file whose rows the page and the worker keep is as much brought in as before.
LEMMA FileStays ==
  ASSUME FileBroughtIn, console'.file = console.file, console'.rows = console.rows,
         console'.errors = console.errors, blurred' = blurred,
         store.rows \subseteq store'.rows, store.analyses \subseteq store'.analyses,
         console'.status = "imported" => console.status = "imported"
  PROVE  FileBroughtIn'
BY DEF FileBroughtIn, Structured

\* What is published stays so; a period is said to be done when it was.
LEMMA PeriodStays ==
  ASSUME PeriodCovered, store'.dated = store.dated, store.published \subseteq store'.published,
         console'.status = "period_done" => console.status = "period_done",
         work'.kind # "period" \/ work' = work
  PROVE  PeriodCovered'
BY DEF PeriodCovered

LEMMA PagesStay ==
  ASSUME PagesDrawn, store'.pages = store.pages, store'.drawn = store.drawn,
         console'.status = "pages_done" => console.status = "pages_done"
  PROVE  PagesDrawn'
BY DEF PagesDrawn, Unread, Read

\* The store as it was
LEMMA StoreStays ==
  ASSUME UNCHANGED store, PublishedDays
  PROVE  PublishedDays'
BY DEF PublishedDays

\* A step that begins or ends a piece of work, announces it and leaves the rows and the store alone
LEMMA WorkTurns ==
  ASSUME ConsoleInv, NEW s \in PageStatuses \ {"imported", "period_done", "pages_done"}, Announce(s),
         work' \in {NoWork} \cup DayWork \cup ListWork \cup PagesWork,
         presses' \in 0 .. ConsoleActs, UNCHANGED <<store, blurred>>
  PROVE  ConsoleInv'
<1>1. /\ console' \in ConsoleState /\ console'.status = s
      /\ console'.rows = console.rows /\ console'.file = console.file /\ console'.errors = console.errors
  BY Announced, ConsoleParts
<1>2. work'.kind \in {"none", "day", "list", "pages"}
  BY DEF NoWork, DayWork, ListWork, PagesWork
<1>3. ConsoleTyped'
  BY <1>1, ConsoleParts DEF ConsoleTyped
<1>4. RowsOfFile' /\ RowsWaiting' /\ PublishedDays' /\ DaysInOrder' /\ RoundsOpen'
  <2>1. RowsOfFile'
    BY <1>1, <1>2, ConsoleParts DEF RowsOfFile
  <2>2. RowsWaiting' /\ DaysInOrder' /\ RoundsOpen'
    BY <1>1, <1>2 DEF RowsWaiting, DaysInOrder, RoundsOpen
  <2>. QED
    BY <2>1, <2>2, StoreStays, ConsoleParts
<1>5. FileBroughtIn' /\ PeriodCovered' /\ PagesDrawn'
  BY <1>1, <1>2, ConsoleParts, FileStays, PeriodStays, PagesStay
<1>. QED
  BY <1>3, <1>4, <1>5 DEF ConsoleInv, ConsoleHonest

\* A press counts.
LEMMA Pressed ==
  ASSUME Press, presses \in 0 .. ConsoleActs, ConsoleActs \in Nat
  PROVE  presses' \in 0 .. ConsoleActs
BY DEF Press

LEMMA ChooseFileKeeps ==
  ASSUME ConsoleInv, ChooseFile
  PROVE  ConsoleInv'
<1>1. /\ UNCHANGED <<work, store>> /\ presses' \in 0 .. ConsoleActs /\ blurred' = (work.kind = "import")
  BY ConsoleParts, Pressed DEF ChooseFile
<1>2. /\ console' \in ConsoleState /\ console'.status = ""
      /\ \/ /\ console'.errors = TRUE /\ console'.rows = console.rows /\ console'.file = console.file
         \/ console'.errors = TRUE /\ console'.rows = << >>
         \/ console'.file = InRows(console'.rows)
  <2>0. console \in ConsoleState /\ "" \in PageStatuses /\ << >> \in Seq(DOMAIN FileRows)
    BY ConsoleParts DEF PageStatuses
  <2>1. CASE console' = [console EXCEPT !.status = "", !.errors = TRUE]
    <3>1. PICK c : c = [console EXCEPT !.status = "", !.errors = TRUE] /\ console' = c
      BY <2>1
    <3>2. c \in ConsoleState
      BY <2>0, <3>1 DEF ConsoleState
    <3>. QED
      BY <2>0, <3>1, <3>2 DEF ConsoleState
  <2>2. CASE console' = [console EXCEPT !.status = "", !.errors = TRUE, !.rows = << >>]
    <3>1. PICK c : c = [console EXCEPT !.status = "", !.errors = TRUE, !.rows = << >>] /\ console' = c
      BY <2>2
    <3>2. c \in ConsoleState
      BY <2>0, <3>1 DEF ConsoleState
    <3>. QED
      BY <2>0, <3>1, <3>2 DEF ConsoleState
  <2>3. ASSUME NEW table \in AdminFiles,
               console' = [console EXCEPT !.status = "", !.rows = RowsKept(table), !.file = InRows(RowsKept(table)),
                                          !.errors = \E r \in InRows(RowsKept(table)) : ~Formed(r)]
        PROVE  console' \in ConsoleState /\ console'.status = "" /\ console'.file = InRows(console'.rows)
    <3>1. table \in Seq(DOMAIN FileRows)
      BY AdminConsoleAssumption DEF AdminConsoleAssumption
    <3>2. RowsKept(table) \in Seq(DOMAIN FileRows)
      BY <3>1, AmongRows DEF RowsKept
    <3>3. InRows(RowsKept(table)) \in RowSets
      BY <3>2 DEF InRows, RowSets
    <3> DEFINE rows == RowsKept(table)
               file == InRows(rows)
               bad  == \E r \in file : ~Formed(r)
    <3>4. bad \in BOOLEAN
      OBVIOUS
    <3>5. console' = [console EXCEPT !.status = "", !.rows = rows, !.file = file, !.errors = bad]
      BY <2>3
    <3>6. rows \in Seq(DOMAIN FileRows) /\ file \in RowSets /\ file = InRows(rows)
      BY <3>2, <3>3
    <3> HIDE DEF rows, file, bad
    <3>7. PICK c : c = [console EXCEPT !.status = "", !.rows = rows, !.file = file, !.errors = bad] /\ console' = c
      BY <3>5
    <3>8. c \in ConsoleState
      BY <2>0, <3>4, <3>6, <3>7 DEF ConsoleState
    <3>. QED
      BY <2>0, <3>6, <3>7, <3>8 DEF ConsoleState
  <2>. QED
    BY <2>1, <2>2, <2>3 DEF ChooseFile
<1>3. ConsoleTyped'
  BY <1>1, <1>2, ConsoleParts DEF ConsoleTyped
<1>4. RowsOfFile'
  BY <1>1, <1>2, ConsoleParts DEF RowsOfFile
<1>5. RowsWaiting' /\ PublishedDays' /\ DaysInOrder' /\ RoundsOpen'
  BY <1>1, <1>2, ConsoleParts DEF RowsWaiting, PublishedDays, DaysInOrder, RoundsOpen, Structured
<1>6. FileBroughtIn'
  <2>1. console'.status # "imported"
    BY <1>2
  <2>2. ASSUME console'.file = InRows(console'.rows), console'.rows = << >> PROVE console'.file = {}
    BY <2>2 DEF InRows
  <2>3. console'.rows = << >> /\ ~console'.errors => console'.file \subseteq store'.rows
    BY <1>2, <2>2
  <2>. QED
    BY <2>1, <2>3 DEF FileBroughtIn
<1>7. PeriodCovered' /\ PagesDrawn'
  BY <1>1, <1>2, ConsoleParts, PeriodStays, PagesStay
<1>. QED
  BY <1>3, <1>4, <1>5, <1>6, <1>7 DEF ConsoleInv, ConsoleHonest

LEMMA SubmitImportKeeps ==
  ASSUME ConsoleInv, SubmitImport
  PROVE  ConsoleInv'
<1> DEFINE jobs == ImportJobs(console.rows)
           file == InRows(console.rows)
<1>1. /\ presses' \in 0 .. ConsoleActs /\ console.rows # << >> /\ blurred' = FALSE /\ UNCHANGED store
      /\ work' = [kind |-> "import", jobs |-> jobs, rows |-> file, sent |-> 0]
      /\ Announce("importing")
  BY ConsoleParts, Pressed DEF SubmitImport
<1>2. /\ console' \in ConsoleState /\ console'.status = "importing"
      /\ console'.rows = console.rows /\ console'.file = console.file /\ console'.errors = console.errors
  <2>1. "importing" \in PageStatuses
    BY DEF PageStatuses
  <2>. QED
    BY <1>1, <2>1, Announced, ConsoleParts
<1>3. console.rows \in Seq(DOMAIN FileRows) /\ console.file = file
  BY <1>1, ConsoleParts DEF ConsoleState, RowsOfFile
<1>4. /\ jobs \in Seq(ImportBatch) /\ file \in RowSets
      /\ \A r \in file : \E i \in DOMAIN jobs :
              /\ r \in InRows(jobs[i].rows)
              /\ Structured(r) => jobs[i].structured
  <2>1. file \in RowSets
    BY <1>3 DEF InRows, RowSets
  <2>. QED
    BY <1>3, <2>1, ImportJobsCover
<1>5. jobs # << >>
  <2>1. PICK r : r \in file
    <3>1. 1 \in DOMAIN console.rows
      BY <1>1, <1>3
    <3>2. console.rows[1] \in file
      BY <3>1 DEF InRows
    <3>. QED
      BY <3>2
  <2>2. PICK i \in DOMAIN jobs : r \in InRows(jobs[i].rows)
    BY <1>4, <2>1
  <2> HIDE DEF jobs, file
  <2>. QED
    BY <2>2
<1> HIDE DEF jobs, file
<1>6. /\ work' \in ImportWork /\ work'.kind = "import" /\ work'.jobs = jobs /\ work'.rows = file
  BY <1>1, <1>4 DEF ImportWork
<1>7. ConsoleTyped'
  BY <1>1, <1>2, <1>6, ConsoleParts DEF ConsoleTyped
<1>8. RowsOfFile'
  BY <1>1, <1>2, <1>3, <1>6, ConsoleParts DEF RowsOfFile, file
<1>9. RowsWaiting'
  <2>1. \A r \in file : \E i \in DOMAIN jobs : r \in InRows(jobs[i].rows)
    BY <1>4
  <2>2. \A r \in file : Structured(r) => \E i \in DOMAIN jobs : jobs[i].structured /\ r \in InRows(jobs[i].rows)
    BY <1>4
  <2>. QED
    BY <1>5, <1>6, <2>1, <2>2 DEF RowsWaiting, Structured, InRows, FileRowOf, LongEnough
<1>10. PublishedDays' /\ DaysInOrder' /\ RoundsOpen'
  BY <1>1, <1>6, ConsoleParts, StoreStays DEF DaysInOrder, RoundsOpen
<1>11. FileBroughtIn'
  BY <1>1, <1>2 DEF FileBroughtIn
<1>12. PeriodCovered' /\ PagesDrawn'
  BY <1>1, <1>2, <1>6, ConsoleParts, PeriodStays, PagesStay
<1>. QED
  BY <1>7, <1>8, <1>9, <1>10, <1>11, <1>12 DEF ConsoleInv, ConsoleHonest

\* What a batch writes
LEMMA WrittenFacts ==
  ASSUME ConsoleInv, NEW job \in ImportBatch, NEW stored \in BOOLEAN, NEW analysed \in BOOLEAN,
         store' = BatchWritten(job, stored, analysed)
  PROVE  /\ store' \in StoreState
         /\ store'.rows = store.rows \cup (IF stored THEN InRows(job.rows) ELSE {})
         /\ store'.analyses = store.analyses \cup (IF analysed THEN InRows(job.rows) ELSE {})
         /\ store'.dated = store.dated /\ store'.published = store.published /\ store'.last = store.last
         /\ store'.pages = store.pages /\ store'.drawn = store.drawn
<1> DEFINE rows == store.rows \cup (IF stored THEN InRows(job.rows) ELSE {})
           analyses0 == store.analyses \cup (IF analysed THEN InRows(job.rows) ELSE {})
<1>1. store \in StoreState
  BY ConsoleParts
<1>2. rows \in RowSets /\ analyses0 \in RowSets
  <2>1. InRows(job.rows) \subseteq DOMAIN FileRows
    BY DEF ImportBatch, InRows
  <2>2. store.rows \subseteq DOMAIN FileRows /\ store.analyses \subseteq DOMAIN FileRows
    BY <1>1 DEF StoreState, RowSets
  <2>. QED
    BY <2>1, <2>2 DEF RowSets
<1>3. store' = [store EXCEPT !.rows = rows, !.analyses = analyses0]
  BY <1>1 DEF BatchWritten, StoreState
<1> HIDE DEF rows, analyses0
<1>4. PICK s : s = [store EXCEPT !.rows = rows, !.analyses = analyses0] /\ store' = s
  BY <1>3
<1>5. s \in StoreState
  BY <1>1, <1>2, <1>4 DEF StoreState
<1>6. s.rows = rows /\ s.analyses = analyses0
      /\ s.dated = store.dated /\ s.published = store.published /\ s.last = store.last
      /\ s.pages = store.pages /\ s.drawn = store.drawn
  BY <1>1, <1>4 DEF StoreState
<1>. QED
  BY <1>4, <1>5, <1>6 DEF rows, analyses0

\* A batch leaves the days and the public pages alone.
LEMMA WriteLeaves ==
  ASSUME ConsoleInv, work.kind = "import", store.rows \subseteq store'.rows, store.analyses \subseteq store'.analyses,
         store'.dated = store.dated, store'.published = store.published, store'.last = store.last,
         store'.pages = store.pages, store'.drawn = store.drawn,
         work'.kind \in {"import", "none"},
         console'.status = console.status \/ console'.status \in {"imported", "failed"}
  PROVE  PublishedDays' /\ DaysInOrder' /\ RoundsOpen' /\ PeriodCovered' /\ PagesDrawn'
<1>1. PublishedDays' /\ DaysInOrder' /\ RoundsOpen'
  BY ConsoleParts DEF PublishedDays, DaysInOrder, RoundsOpen
<1>2. PeriodCovered' /\ PagesDrawn'
  BY ConsoleParts, PeriodStays, PagesStay
<1>. QED
  BY <1>1, <1>2

LEMMA BatchDoneKeeps ==
  ASSUME ConsoleInv, BatchDone
  PROVE  ConsoleInv'
<1> DEFINE jobs == work.jobs
           first == work.jobs[1]
<1>1. /\ work.kind = "import" /\ store' = BatchWritten(first, TRUE, first.structured)
      /\ UNCHANGED <<presses, blurred>>
  BY DEF BatchDone
<1>2. /\ work \in ImportWork /\ work.jobs \in Seq(ImportBatch) /\ work.jobs # << >>
      /\ work.rows \in RowSets /\ work.sent \in Nat
  BY <1>1, ConsoleParts, KindsOfWork DEF ImportWork, RowsWaiting
<1>3. Len(jobs) \in Nat /\ Len(jobs) >= 1 /\ first \in ImportBatch /\ first.structured \in BOOLEAN
  <2>1. Len(jobs) \in Nat /\ Len(jobs) >= 1 /\ first \in ImportBatch
    BY <1>2
  <2>. QED
    BY <2>1 DEF ImportBatch
<1>4. /\ store' \in StoreState
      /\ store'.rows = store.rows \cup InRows(first.rows)
      /\ store'.analyses = store.analyses \cup (IF first.structured THEN InRows(first.rows) ELSE {})
      /\ store'.dated = store.dated /\ store'.published = store.published /\ store'.last = store.last
      /\ store'.pages = store.pages /\ store'.drawn = store.drawn
  <2> HIDE DEF first
  <2>. QED
    BY <1>1, <1>3, WrittenFacts
<1>5. store.rows \subseteq store'.rows /\ store.analyses \subseteq store'.analyses
  BY <1>4
<1>6. \A r \in work.rows :
        /\ r \in store'.rows \/ \E i \in 2 .. Len(jobs) : r \in InRows(jobs[i].rows)
        /\ Structured(r) => \/ r \in store'.analyses
                            \/ \E i \in 2 .. Len(jobs) : jobs[i].structured /\ r \in InRows(jobs[i].rows)
  <2>1. ASSUME NEW r \in work.rows
        PROVE  r \in store'.rows \/ \E i \in 2 .. Len(jobs) : r \in InRows(jobs[i].rows)
    <3>1. CASE r \in store.rows
      BY <1>5, <3>1
    <3>2. ASSUME NEW i \in DOMAIN jobs, r \in InRows(jobs[i].rows)
          PROVE  r \in store'.rows \/ \E j \in 2 .. Len(jobs) : r \in InRows(jobs[j].rows)
      <4>1. i = 1 \/ i \in 2 .. Len(jobs)
        BY <1>2, <1>3
      <4>. QED
        BY <1>4, <3>2, <4>1
    <3>. QED
      BY <1>1, <3>1, <3>2, ConsoleParts DEF RowsWaiting
  <2>2. ASSUME NEW r \in work.rows, Structured(r)
        PROVE  \/ r \in store'.analyses
               \/ \E i \in 2 .. Len(jobs) : jobs[i].structured /\ r \in InRows(jobs[i].rows)
    <3>1. CASE r \in store.analyses
      BY <1>5, <3>1
    <3>2. ASSUME NEW i \in DOMAIN jobs, jobs[i].structured, r \in InRows(jobs[i].rows)
          PROVE  \/ r \in store'.analyses
                 \/ \E j \in 2 .. Len(jobs) : jobs[j].structured /\ r \in InRows(jobs[j].rows)
      <4>1. i = 1 \/ i \in 2 .. Len(jobs)
        BY <1>2, <1>3
      <4>. QED
        BY <1>4, <3>2, <4>1
    <3>. QED
      BY <1>1, <2>2, <3>1, <3>2, ConsoleParts DEF RowsWaiting
  <2>. QED
    BY <2>1, <2>2
<1>7. CASE Len(jobs) > 1
  <2>1. work' = [work EXCEPT !.jobs = Tail(@), !.sent = @ + 1] /\ UNCHANGED console
    BY <1>7 DEF BatchDone
  <2> DEFINE left == Tail(jobs)
  <2>2. /\ left \in Seq(ImportBatch) /\ left # << >>
        /\ \A i \in 2 .. Len(jobs) : i - 1 \in DOMAIN left /\ left[i - 1] = jobs[i]
    <3> HIDE DEF jobs
    <3>1. jobs \in Seq(ImportBatch) /\ jobs # << >>
      BY <1>2 DEF jobs
    <3>2. left \in Seq(ImportBatch) /\ Len(left) = Len(jobs) - 1
      BY <1>3, <3>1
    <3>3. left # << >>
      <4>1. Len(left) # 0
        BY <1>3, <1>7, <3>2
      <4> HIDE DEF left
      <4>. QED
        BY <4>1
    <3>4. ASSUME NEW i \in 2 .. Len(jobs) PROVE i - 1 \in 1 .. Len(left) /\ left[i - 1] = jobs[i]
      BY <1>3, <3>1, <3>2
    <3>. QED
      BY <3>2, <3>3, <3>4
  <2>3. PICK w : w = [work EXCEPT !.jobs = left, !.sent = work.sent + 1] /\ work' = w
    BY <1>2, <2>1 DEF ImportWork
  <2>sent. work.sent + 1 \in Nat
    BY <1>2
  <2> HIDE DEF left
  <2>4. w \in ImportWork /\ w.kind = "import" /\ w.jobs = left /\ w.rows = work.rows
    BY <1>2, <2>2, <2>3, <2>sent DEF ImportWork
  <2>5. ConsoleTyped'
    BY <1>1, <1>4, <2>1, <2>3, <2>4, ConsoleParts DEF ConsoleTyped
  <2>6. RowsOfFile'
    BY <1>1, <2>1, <2>3, <2>4, ConsoleParts DEF RowsOfFile
  <2>7. RowsWaiting'
    <3>1. ASSUME NEW r \in work.rows
          PROVE  r \in store'.rows \/ \E i \in DOMAIN left : r \in InRows(left[i].rows)
      BY <1>6, <2>2
    <3>2. ASSUME NEW r \in work.rows, Structured(r)
          PROVE  r \in store'.analyses \/ \E i \in DOMAIN left : left[i].structured /\ r \in InRows(left[i].rows)
      BY <1>6, <2>2, <3>2
    <3>. QED
      BY <2>2, <2>3, <2>4, <3>1, <3>2 DEF RowsWaiting, Structured, InRows, FileRowOf, LongEnough
  <2>8. PublishedDays' /\ DaysInOrder' /\ RoundsOpen' /\ PeriodCovered' /\ PagesDrawn'
    BY <1>1, <1>4, <1>5, <2>1, <2>3, <2>4, WriteLeaves
  <2>9. FileBroughtIn'
    BY <1>1, <1>5, <2>1, ConsoleParts, FileStays
  <2>. QED
    BY <2>5, <2>6, <2>7, <2>8, <2>9 DEF ConsoleInv, ConsoleHonest
<1>8. CASE ~(Len(jobs) > 1)
  <2>1. work' = NoWork /\ console' = [console EXCEPT !.status = "imported", !.rows = << >>]
    BY <1>8 DEF BatchDone
  <2>2. /\ console' \in ConsoleState /\ console'.status = "imported" /\ console'.rows = << >>
        /\ console'.file = console.file
    <3>1. /\ console \in ConsoleState /\ "imported" \in PageStatuses /\ << >> \in Seq(DOMAIN FileRows)
      BY ConsoleParts DEF PageStatuses
    <3>2. PICK c : c = [console EXCEPT !.status = "imported", !.rows = << >>] /\ console' = c
      BY <2>1
    <3>3. c \in ConsoleState
      BY <3>1, <3>2 DEF ConsoleState
    <3>. QED
      BY <3>1, <3>2, <3>3 DEF ConsoleState
  <2>3. work'.kind = "none" /\ work' = NoWork
    BY <2>1, KindsOfWork
  <2>4. 2 .. Len(jobs) = {}
    BY <1>3, <1>8
  <2>5. ConsoleTyped'
    BY <1>1, <1>4, <2>2, <2>3, ConsoleParts DEF ConsoleTyped
  <2>6. RowsOfFile' /\ RowsWaiting'
    BY <2>2, <2>3 DEF RowsOfFile, RowsWaiting
  <2>7. PublishedDays' /\ DaysInOrder' /\ RoundsOpen' /\ PeriodCovered' /\ PagesDrawn'
    BY <1>1, <1>4, <1>5, <2>2, <2>3, WriteLeaves
  <2>8. FileBroughtIn'
    <3>1. ~blurred => console.file = work.rows
      BY <1>1, ConsoleParts DEF RowsOfFile
    <3>2. /\ work.rows \subseteq store'.rows
          /\ {r \in work.rows : Structured(r)} \subseteq store'.analyses
      BY <1>6, <2>4
    <3>3. ~blurred => /\ console'.file \subseteq store'.rows
                      /\ {r \in console'.file : Structured(r)} \subseteq store'.analyses
      BY <2>2, <3>1, <3>2
    <3>. QED
      BY <1>1, <3>3 DEF FileBroughtIn, Structured
  <2>. QED
    BY <2>5, <2>6, <2>7, <2>8 DEF ConsoleInv, ConsoleHonest
<1>. QED
  BY <1>7, <1>8

LEMMA BatchFailsKeeps ==
  ASSUME ConsoleInv, BatchFails
  PROVE  ConsoleInv'
<1>1. /\ work.kind = "import" /\ work' = NoWork /\ Announce("failed") /\ UNCHANGED <<presses, blurred>>
  BY DEF BatchFails, ImportEnds, Announce
<1>2. /\ console' \in ConsoleState /\ console'.status = "failed"
      /\ console'.rows = console.rows /\ console'.file = console.file /\ console'.errors = console.errors
  <2>1. "failed" \in PageStatuses
    BY DEF PageStatuses
  <2>. QED
    BY <1>1, <2>1, Announced, ConsoleParts
<1>3. /\ store' \in StoreState /\ store.rows \subseteq store'.rows /\ store.analyses \subseteq store'.analyses
      /\ store'.dated = store.dated /\ store'.published = store.published /\ store'.last = store.last
      /\ store'.pages = store.pages /\ store'.drawn = store.drawn
  <2>1. CASE UNCHANGED store
    BY <2>1, ConsoleParts
  <2>2. CASE ~UNCHANGED store
    <3>1. PICK stored \in BOOLEAN, analysed \in BOOLEAN : store' = BatchWritten(work.jobs[1], stored, analysed)
      BY <2>2 DEF BatchFails
    <3>2. work.jobs[1] \in ImportBatch
      <4>1. work.jobs \in Seq(ImportBatch) /\ work.jobs # << >>
        BY <1>1, ConsoleParts, KindsOfWork DEF ImportWork, RowsWaiting
      <4>. QED
        BY <4>1
    <3>. QED
      BY <3>1, <3>2, WrittenFacts
  <2>. QED
    BY <2>1, <2>2
<1>4. work'.kind = "none"
  BY <1>1, KindsOfWork
<1>5. ConsoleTyped'
  BY <1>1, <1>2, <1>3, ConsoleParts DEF ConsoleTyped
<1>6. RowsOfFile' /\ RowsWaiting'
  BY <1>1, <1>2, <1>4, ConsoleParts DEF RowsOfFile, RowsWaiting
<1>7. PublishedDays' /\ DaysInOrder' /\ RoundsOpen' /\ PeriodCovered' /\ PagesDrawn'
  BY <1>1, <1>2, <1>3, <1>4, WriteLeaves
<1>8. FileBroughtIn'
  BY <1>1, <1>2, <1>3, ConsoleParts, FileStays
<1>. QED
  BY <1>5, <1>6, <1>7, <1>8 DEF ConsoleInv, ConsoleHonest

\* What an analysis in the worker does to the days
LEMMA AnalysedFacts ==
  ASSUME ConsoleInv, NEW d \in store.dated, NEW good \in BOOLEAN, store' = Analysed(store, d, good)
  PROVE  /\ store' \in StoreState /\ PublishedDays'
         /\ store'.rows = store.rows /\ store'.analyses = store.analyses
         /\ store'.dated = store.dated /\ store'.pages = store.pages /\ store'.drawn = store.drawn
         /\ store'.published = IF good THEN store.published \cup {d} ELSE store.published
<1> DEFINE result == IF good THEN "success" ELSE "failed"
           last == [store.last EXCEPT ![d] = result]
           published == IF good THEN store.published \cup {d} ELSE store.published
<1>1. store \in StoreState /\ PublishedDays
  BY ConsoleParts
<1>2. result \in DayStatuses /\ (result = "success" <=> good) /\ result # "empty"
  BY DEF DayStatuses
<1>3. PICK days \in SUBSET PeriodDays : store.last \in [days -> DayStatuses]
  BY <1>1 DEF StoreState, DayTables
<1>4. last \in [days -> DayStatuses]
  BY <1>2, <1>3
<1>5. last \in DayTables /\ published \in SUBSET PeriodDays
  <2>1. last \in DayTables
    <3> HIDE DEF last
    <3>. QED
      BY <1>4 DEF DayTables
  <2>2. published \in SUBSET PeriodDays
    BY <1>1 DEF StoreState
  <2>. QED
    BY <2>1, <2>2
<1>6. store' = [store EXCEPT !.last = last, !.published = published]
  BY <1>1 DEF Analysed, StoreState
<1>7. \A x \in store.dated : x \in DOMAIN last /\ last[x] = IF x = d THEN result ELSE store.last[x]
  BY <1>1, <1>3 DEF PublishedDays
<1>8. \A x \in store.published : x \in published
  OBVIOUS
<1>9. good => d \in published
  OBVIOUS
<1> HIDE DEF last, published, result
<1>10. PICK s : s = [store EXCEPT !.last = last, !.published = published] /\ store' = s
  BY <1>6
<1>11. s \in StoreState
  BY <1>1, <1>5, <1>10 DEF StoreState
<1>12. s.last = last /\ s.published = published /\ s.rows = store.rows /\ s.analyses = store.analyses
       /\ s.dated = store.dated /\ s.pages = store.pages /\ s.drawn = store.drawn
  BY <1>1, <1>10 DEF StoreState
<1>13. PublishedDays'
  <2>1. ASSUME NEW x \in store.dated
        PROVE  /\ x \in DOMAIN last /\ last[x] # "empty"
               /\ last[x] = "success" => x \in published
    BY <1>1, <1>2, <1>7, <1>8, <1>9 DEF PublishedDays
  <2>. QED
    BY <1>10, <1>12, <2>1 DEF PublishedDays
<1>. QED
  BY <1>10, <1>11, <1>12, <1>13 DEF published

\* What the page learns of an analysis is true when it learns of a success.
LEMMA AnalysesFacts ==
  ASSUME ConsoleInv, NEW d \in PeriodDays, NEW learnt \in {"success", "failed"}, Analyses(d, store', learnt)
  PROVE  /\ store' \in StoreState /\ PublishedDays'
         /\ store'.rows = store.rows /\ store'.analyses = store.analyses
         /\ store'.dated = store.dated /\ store'.pages = store.pages /\ store'.drawn = store.drawn
         /\ store.published \subseteq store'.published
         /\ learnt = "success" => d \in store'.published
<1>1. CASE UNCHANGED store /\ learnt = "failed"
  BY <1>1, ConsoleParts, StoreStays
<1>2. CASE d \in store.dated /\ store' = Analysed(store, d, TRUE)
  BY <1>2, AnalysedFacts
<1>3. CASE d \in store.dated /\ store' = Analysed(store, d, FALSE) /\ learnt = "failed"
  BY <1>3, AnalysedFacts
<1>. QED
  BY <1>1, <1>2, <1>3 DEF Analyses

LEMMA AnalysisAnsweredKeeps ==
  ASSUME ConsoleInv, AnalysisAnswered
  PROVE  ConsoleInv'
<1>1. PICK learnt \in {"success", "failed"} : Analyses(work.date, store', learnt) /\ Announce(learnt)
  BY DEF AnalysisAnswered
<1>2. work.kind = "day" /\ work' = NoWork /\ UNCHANGED <<presses, blurred>>
  BY DEF AnalysisAnswered
<1>3. work.date \in PeriodDays
  BY <1>2, ConsoleParts, KindsOfWork DEF DayWork
<1>4. /\ store' \in StoreState /\ PublishedDays'
      /\ store'.rows = store.rows /\ store'.analyses = store.analyses
      /\ store'.dated = store.dated /\ store'.pages = store.pages /\ store'.drawn = store.drawn
      /\ store.published \subseteq store'.published
  BY <1>1, <1>3, AnalysesFacts
<1>5. /\ console' \in ConsoleState /\ console'.status = learnt
      /\ console'.rows = console.rows /\ console'.file = console.file /\ console'.errors = console.errors
  <2>1. learnt \in PageStatuses
    BY DEF PageStatuses
  <2>. QED
    BY <1>1, <2>1, Announced, ConsoleParts
<1>6. work'.kind = "none"
  BY <1>2, KindsOfWork
<1>7. ConsoleTyped'
  BY <1>2, <1>4, <1>5, ConsoleParts DEF ConsoleTyped
<1>8. RowsOfFile' /\ RowsWaiting' /\ DaysInOrder' /\ RoundsOpen'
  BY <1>2, <1>5, <1>6, ConsoleParts DEF RowsOfFile, RowsWaiting, DaysInOrder, RoundsOpen
<1>9. FileBroughtIn' /\ PeriodCovered' /\ PagesDrawn'
  BY <1>2, <1>4, <1>5, <1>6, ConsoleParts, FileStays, PeriodStays, PagesStay
<1>. QED
  BY <1>4, <1>7, <1>8, <1>9 DEF ConsoleInv, ConsoleHonest

\* The dates of a period, in order
LEMMA PeriodDatesInOrder ==
  /\ PeriodDates \in Seq(PeriodDays) /\ InRows(PeriodDates) = PeriodDays
  /\ \A i, j \in DOMAIN PeriodDates : i < j => PeriodDates[i] < PeriodDates[j]
<1> DEFINE n == Cardinality(PeriodDays)
<1>1. PeriodDays \in SUBSET Nat /\ IsFiniteSet(PeriodDays)
  BY AdminConsoleAssumption DEF AdminConsoleAssumption
<1>2. /\ n \in Nat /\ PeriodDates \in [1 .. n -> PeriodDays]
      /\ \A i, j \in DOMAIN PeriodDates : i < j => PeriodDates[i] < PeriodDates[j]
      /\ \A d \in PeriodDays : \E i \in DOMAIN PeriodDates : PeriodDates[i] = d
  BY <1>1, AscendingNumbers DEF PeriodDates
<1>3. PeriodDates \in Seq(PeriodDays)
  <2> HIDE DEF n
  <2>. QED
    BY <1>2
<1>4. InRows(PeriodDates) = PeriodDays
  BY <1>2 DEF InRows
<1>. QED
  BY <1>2, <1>3, <1>4

LEMMA PeriodListedKeeps ==
  ASSUME ConsoleInv, PeriodListed
  PROVE  ConsoleInv'
<1> DEFINE known  == [d \in PeriodDays |-> DayStatus(d)]
           status == IF work.look THEN "listed" ELSE "period"
           begun  == [kind |-> "period", todo |-> PeriodDates, known |-> known,
                      completed |-> {}, skipped |-> {}, failed |-> {}]
<1>1. /\ work.kind = "list" /\ UNCHANGED <<store, presses, blurred>>
      /\ console' = [console EXCEPT !.days = known, !.status = status]
      /\ work' = NoWork \/ work' = begun
  BY DEF PeriodListed
<1>2. \A d \in PeriodDays : /\ DayStatus(d) \in DayStatuses
                            /\ DayStatus(d) = "success" => d \in store.published
                            /\ DayStatus(d) = "empty" => d \notin store.dated
  <2>1. PICK days \in SUBSET PeriodDays : store.last \in [days -> DayStatuses]
    BY ConsoleParts DEF StoreState, DayTables
  <2>2. "empty" \in DayStatuses
    BY DEF DayStatuses
  <2>3. \A d \in store.dated : store.last[d] \in DayStatuses /\ store.last[d] # "empty"
                               /\ (store.last[d] = "success" => d \in store.published)
    BY <2>1, ConsoleParts DEF PublishedDays
  <2>. QED
    BY <2>2, <2>3 DEF DayStatus
<1>3. known \in [PeriodDays -> DayStatuses] /\ known \in DayTables /\ status \in PageStatuses
      /\ status \notin {"imported", "period_done", "pages_done"}
  <2>1. known \in [PeriodDays -> DayStatuses]
    BY <1>2
  <2> HIDE DEF known
  <2>. QED
    BY <2>1 DEF DayTables, PageStatuses
<1>4. \A d \in PeriodDays : /\ known[d] = "success" => d \in store.published
                            /\ known[d] = "empty" => d \notin store.dated
  BY <1>2
<1> HIDE DEF known, status
<1>5. /\ console' \in ConsoleState /\ console'.status = status
      /\ console'.rows = console.rows /\ console'.file = console.file /\ console'.errors = console.errors
  <2>1. PICK c : c = [console EXCEPT !.days = known, !.status = status] /\ console' = c
    BY <1>1
  <2>2. c \in ConsoleState
    BY <1>3, <2>1, ConsoleParts DEF ConsoleState
  <2>. QED
    BY <2>1, <2>2, ConsoleParts DEF ConsoleState
<1>6. begun \in PeriodWork
  BY <1>3, PeriodDatesInOrder DEF PeriodWork
<1>7. work' \in {NoWork} \cup PeriodWork /\ work'.kind \in {"none", "period"}
      /\ (work'.kind = "period" => work' = begun)
  <2>1. begun.kind = "period"
    OBVIOUS
  <2> HIDE DEF begun
  <2>2. CASE work' = NoWork
    BY <2>2, KindsOfWork
  <2>3. CASE work' = begun
    BY <1>6, <2>1, <2>3
  <2>. QED
    BY <1>1, <2>2, <2>3
<1>8. ConsoleTyped'
  BY <1>1, <1>5, <1>7, ConsoleParts DEF ConsoleTyped
<1>9. RowsOfFile' /\ RowsWaiting' /\ PublishedDays' /\ RoundsOpen'
  BY <1>1, <1>5, <1>7, ConsoleParts, StoreStays DEF RowsOfFile, RowsWaiting, RoundsOpen
<1>10. DaysInOrder'
  BY <1>1, <1>4, <1>7, PeriodDatesInOrder DEF DaysInOrder, InRows
<1>11. FileBroughtIn' /\ PagesDrawn'
  BY <1>1, <1>3, <1>5, ConsoleParts, FileStays, PagesStay
<1>12. PeriodCovered'
  <2>1. console'.status # "period_done"
    BY <1>3, <1>5
  <2>2. work'.kind = "period" =>
          /\ work'.completed = {} /\ work'.failed = {} /\ work'.skipped = {}
          /\ InRows(work'.todo) = PeriodDays
    BY <1>7, PeriodDatesInOrder
  <2>. QED
    BY <2>1, <2>2 DEF PeriodCovered, InRows
<1>. QED
  BY <1>8, <1>9, <1>10, <1>11, <1>12 DEF ConsoleInv, ConsoleHonest

\* The day at hand comes off the days still to do.
LEMMA NextDay ==
  ASSUME ConsoleInv, work.kind = "period", work.todo # << >>
  PROVE  /\ work \in PeriodWork /\ work.todo \in Seq(PeriodDays) /\ Today \in PeriodDays
         /\ Tail(work.todo) \in Seq(PeriodDays)
         /\ InRows(work.todo) = InRows(Tail(work.todo)) \cup {Today} /\ Today \notin InRows(Tail(work.todo))
         /\ \A i, j \in DOMAIN Tail(work.todo) : i < j => Tail(work.todo)[i] < Tail(work.todo)[j]
         /\ Today \notin work.completed \cup work.skipped \cup work.failed
<1> DEFINE todo == work.todo
           left == Tail(todo)
<1>1. work \in PeriodWork /\ todo \in Seq(PeriodDays) /\ todo # << >>
  BY ConsoleParts, KindsOfWork DEF PeriodWork
<1>2. \A i, j \in DOMAIN todo : i < j => todo[i] < todo[j]
  BY ConsoleParts DEF DaysInOrder
<1> HIDE DEF todo
<1>3. /\ Len(todo) \in Nat /\ Len(todo) >= 1 /\ DOMAIN todo = 1 .. Len(todo) /\ todo[1] \in PeriodDays
      /\ left \in Seq(PeriodDays) /\ Len(left) = Len(todo) - 1
  BY <1>1
<1>4. DOMAIN left = 1 .. Len(todo) - 1 /\ \A i \in 1 .. Len(todo) - 1 : left[i] = todo[i + 1] /\ i + 1 \in DOMAIN todo
  <2>1. ASSUME NEW i \in 1 .. Len(todo) - 1 PROVE left[i] = todo[i + 1] /\ i + 1 \in DOMAIN todo
    BY <1>1, <1>3
  <2>2. DOMAIN left = 1 .. Len(todo) - 1
    BY <1>3
  <2>. QED
    BY <2>1, <2>2
<1> HIDE DEF left
<1>5. \A i, j \in DOMAIN left : i < j => left[i] < left[j]
  BY <1>2, <1>3, <1>4
<1>6. \A i \in DOMAIN left : todo[1] < left[i]
  <2>1. ASSUME NEW i \in DOMAIN left PROVE 1 < i + 1 /\ i + 1 \in DOMAIN todo /\ left[i] = todo[i + 1]
    BY <1>3, <1>4
  <2>. QED
    BY <1>2, <1>3, <2>1
<1>7. todo[1] \notin InRows(left)
  <2>1. PeriodDays \subseteq Nat
    BY AdminConsoleAssumption DEF AdminConsoleAssumption
  <2>2. todo[1] \in Nat
    BY <1>3, <2>1
  <2>. QED
    BY <1>6, <2>2 DEF InRows
<1>8. InRows(todo) = InRows(left) \cup {todo[1]}
  <2>1. InRows(left) \cup {todo[1]} \subseteq InRows(todo)
    BY <1>3, <1>4 DEF InRows
  <2>2. ASSUME NEW i \in DOMAIN todo PROVE todo[i] \in InRows(left) \cup {todo[1]}
    <3>1. CASE i = 1
      BY <3>1
    <3>2. CASE i # 1
      <4>1. i - 1 \in 1 .. Len(todo) - 1 /\ (i - 1) + 1 = i
        BY <1>3, <3>2
      <4>2. left[i - 1] = todo[i] /\ i - 1 \in DOMAIN left
        BY <1>4, <4>1
      <4>. QED
        BY <4>2 DEF InRows
    <3>. QED
      BY <3>1, <3>2
  <2>. QED
    BY <2>1, <2>2 DEF InRows
<1>9. todo[1] \notin work.completed \cup work.skipped \cup work.failed
  <2>1. InRows(work.todo) \cap (work.completed \cup work.skipped \cup work.failed) = {}
    BY ConsoleParts DEF DaysInOrder
  <2>2. todo[1] \in InRows(work.todo)
    BY <1>8 DEF todo
  <2>. QED
    BY <2>1, <2>2
<1>. QED
  BY <1>1, <1>3, <1>5, <1>7, <1>8, <1>9 DEF todo, left, Today

LEMMA SkipDayKeeps ==
  ASSUME ConsoleInv, SkipDay
  PROVE  ConsoleInv'
<1> DEFINE left == Tail(work.todo)
           skipped == work.skipped \cup {Today}
<1>1. /\ work.kind = "period" /\ work.todo # << >> /\ Skipped(Today)
      /\ work' = [work EXCEPT !.todo = left, !.skipped = skipped]
      /\ UNCHANGED <<console, store, presses, blurred>>
  <2>1. /\ work.kind = "period" /\ work.todo # << >> /\ Skipped(Today)
        /\ work' = [work EXCEPT !.todo = Tail(@), !.skipped = @ \cup {Today}]
        /\ UNCHANGED <<console, store, presses, blurred>>
    BY DEF SkipDay
  <2>2. work \in PeriodWork
    BY <2>1, ConsoleParts, KindsOfWork
  <2>. QED
    BY <2>1, <2>2 DEF PeriodWork
<1>2. /\ work \in PeriodWork /\ work.todo \in Seq(PeriodDays) /\ Today \in PeriodDays
      /\ left \in Seq(PeriodDays)
      /\ InRows(work.todo) = InRows(left) \cup {Today} /\ Today \notin InRows(left)
      /\ \A i, j \in DOMAIN left : i < j => left[i] < left[j]
      /\ Today \notin work.completed \cup work.skipped \cup work.failed
  BY <1>1, NextDay
<1>3. skipped \in SUBSET PeriodDays /\ work.completed \in SUBSET PeriodDays /\ work.failed \in SUBSET PeriodDays
  BY <1>2 DEF PeriodWork
<1>4. Today \in store.dated => Today \in store.published
  BY <1>1, <1>2, ConsoleParts DEF Skipped, DaysInOrder
<1> HIDE DEF left
<1>5. PICK w : w = [work EXCEPT !.todo = left, !.skipped = skipped] /\ work' = w
  BY <1>1
<1>6. /\ w \in PeriodWork /\ w.kind = "period" /\ w.todo = left /\ w.skipped = skipped
      /\ w.known = work.known /\ w.completed = work.completed /\ w.failed = work.failed
  <2> HIDE DEF skipped
  <2>. QED
    BY <1>2, <1>3, <1>5 DEF PeriodWork
<1>7. ConsoleTyped'
  BY <1>1, <1>5, <1>6, ConsoleParts DEF ConsoleTyped
<1>8. RowsOfFile' /\ RowsWaiting' /\ PublishedDays' /\ RoundsOpen'
  BY <1>1, <1>5, <1>6, ConsoleParts, StoreStays DEF RowsOfFile, RowsWaiting, RoundsOpen
<1>9. /\ InRows(work.todo) \cap (work.completed \cup work.skipped \cup work.failed) = {}
      /\ \A d \in PeriodDays : /\ work.known[d] = "success" => d \in store.published
                               /\ work.known[d] = "empty" => d \notin store.dated
      /\ work.skipped \cap store.dated \subseteq store.published
  BY <1>1, ConsoleParts DEF DaysInOrder
<1>10. DaysInOrder'
  <2>1. InRows(left) \cap (work.completed \cup skipped \cup work.failed) = {}
    BY <1>2, <1>9
  <2>2. skipped \cap store.dated \subseteq store.published
    BY <1>4, <1>9
  <2> HIDE DEF skipped
  <2>. QED
    BY <1>1, <1>2, <1>5, <1>6, <1>9, <2>1, <2>2 DEF DaysInOrder, InRows
<1>11. FileBroughtIn' /\ PagesDrawn'
  BY <1>1, ConsoleParts, FileStays, PagesStay
<1>12. PeriodCovered'
  <2>1. /\ work.completed \cap work.failed = {} /\ work.skipped \cap (work.completed \cup work.failed) = {}
        /\ work.completed \subseteq store.published
        /\ InRows(work.todo) \cup work.completed \cup work.skipped \cup work.failed = PeriodDays
    BY <1>1, ConsoleParts DEF PeriodCovered
  <2>2. /\ skipped \cap (work.completed \cup work.failed) = {}
        /\ InRows(left) \cup work.completed \cup skipped \cup work.failed = PeriodDays
    BY <1>2, <2>1
  <2>3. console'.status = "period_done" => store'.dated \subseteq store'.published
    BY <1>1, ConsoleParts DEF PeriodCovered
  <2> HIDE DEF skipped
  <2>. QED
    BY <1>1, <1>5, <1>6, <2>1, <2>2, <2>3 DEF PeriodCovered, InRows
<1>. QED
  BY <1>7, <1>8, <1>10, <1>11, <1>12 DEF ConsoleInv, ConsoleHonest

LEMMA AnalyseDayKeeps ==
  ASSUME ConsoleInv, AnalyseDay
  PROVE  ConsoleInv'
<1> DEFINE left == Tail(work.todo)
<1>1. PICK learnt \in {"success", "failed"} :
        /\ Analyses(Today, store', learnt)
        /\ console' = [console EXCEPT !.days[Today] = learnt]
        /\ work' = [work EXCEPT !.todo = Tail(@),
                                !.completed = IF learnt = "success" THEN @ \cup {Today} ELSE @,
                                !.failed = IF learnt = "failed" THEN @ \cup {Today} ELSE @]
  BY DEF AnalyseDay
<1>2. work.kind = "period" /\ work.todo # << >> /\ UNCHANGED <<presses, blurred>>
  BY DEF AnalyseDay
<1>3. /\ work \in PeriodWork /\ work.todo \in Seq(PeriodDays) /\ Today \in PeriodDays
      /\ left \in Seq(PeriodDays)
      /\ InRows(work.todo) = InRows(left) \cup {Today} /\ Today \notin InRows(left)
      /\ \A i, j \in DOMAIN left : i < j => left[i] < left[j]
      /\ Today \notin work.completed \cup work.skipped \cup work.failed
  BY <1>2, NextDay
<1>4. /\ store' \in StoreState /\ PublishedDays'
      /\ store'.rows = store.rows /\ store'.analyses = store.analyses
      /\ store'.dated = store.dated /\ store'.pages = store.pages /\ store'.drawn = store.drawn
      /\ store.published \subseteq store'.published
      /\ learnt = "success" => Today \in store'.published
  BY <1>1, <1>3, AnalysesFacts
<1> DEFINE completed == IF learnt = "success" THEN work.completed \cup {Today} ELSE work.completed
           failed    == IF learnt = "failed" THEN work.failed \cup {Today} ELSE work.failed
<1>5. completed \in SUBSET PeriodDays /\ failed \in SUBSET PeriodDays /\ work.skipped \in SUBSET PeriodDays
  BY <1>3 DEF PeriodWork
<1>6. work' = [work EXCEPT !.todo = left, !.completed = completed, !.failed = failed]
  BY <1>1, <1>3 DEF PeriodWork
<1>7. completed \cup failed = work.completed \cup work.failed \cup {Today}
  BY <1>1
<1>sets. /\ work.completed \cap work.failed = {} => completed \cap failed = {}
         /\ work.completed \subseteq store.published => completed \subseteq store'.published
  BY <1>1, <1>3, <1>4
<1> HIDE DEF left, completed, failed
<1>8. PICK w : w = [work EXCEPT !.todo = left, !.completed = completed, !.failed = failed] /\ work' = w
  BY <1>6
<1>9. /\ w \in PeriodWork /\ w.kind = "period" /\ w.todo = left /\ w.skipped = work.skipped
      /\ w.known = work.known /\ w.completed = completed /\ w.failed = failed
  BY <1>3, <1>5, <1>8 DEF PeriodWork
<1>10. /\ console' \in ConsoleState /\ console'.status = console.status
       /\ console'.rows = console.rows /\ console'.file = console.file /\ console'.errors = console.errors
  <2> DEFINE days == [console.days EXCEPT ![Today] = learnt]
  <2>1. PICK D \in SUBSET PeriodDays : console.days \in [D -> DayStatuses]
    BY ConsoleParts DEF ConsoleState, DayTables
  <2>2. learnt \in DayStatuses
    BY <1>1 DEF DayStatuses
  <2>3. days \in [D -> DayStatuses]
    BY <2>1, <2>2
  <2>4. console' = [console EXCEPT !.days = days]
    BY <1>1, ConsoleParts DEF ConsoleState
  <2> HIDE DEF days
  <2>5. days \in DayTables
    BY <2>3 DEF DayTables
  <2>6. PICK c : c = [console EXCEPT !.days = days] /\ console' = c
    BY <2>4
  <2>7. c \in ConsoleState
    BY <2>5, <2>6, ConsoleParts DEF ConsoleState
  <2>. QED
    BY <2>6, <2>7, ConsoleParts DEF ConsoleState
<1>11. ConsoleTyped'
  BY <1>2, <1>4, <1>8, <1>9, <1>10, ConsoleParts DEF ConsoleTyped
<1>12. RowsOfFile' /\ RowsWaiting' /\ RoundsOpen'
  BY <1>2, <1>8, <1>9, <1>10, ConsoleParts DEF RowsOfFile, RowsWaiting, RoundsOpen
<1>13. /\ InRows(work.todo) \cap (work.completed \cup work.skipped \cup work.failed) = {}
       /\ \A d \in PeriodDays : /\ work.known[d] = "success" => d \in store.published
                                /\ work.known[d] = "empty" => d \notin store.dated
       /\ work.skipped \cap store.dated \subseteq store.published
  BY <1>2, ConsoleParts DEF DaysInOrder
<1>14. DaysInOrder'
  <2>1. InRows(left) \cap (completed \cup work.skipped \cup failed) = {}
    BY <1>3, <1>7, <1>13
  <2>. QED
    BY <1>3, <1>4, <1>8, <1>9, <1>13, <2>1 DEF DaysInOrder, InRows, left
<1>15. FileBroughtIn' /\ PagesDrawn'
  BY <1>2, <1>4, <1>10, ConsoleParts, FileStays, PagesStay
<1>16. PeriodCovered'
  <2>1. /\ work.completed \cap work.failed = {} /\ work.skipped \cap (work.completed \cup work.failed) = {}
        /\ work.completed \subseteq store.published
        /\ InRows(work.todo) \cup work.completed \cup work.skipped \cup work.failed = PeriodDays
    BY <1>2, ConsoleParts DEF PeriodCovered
  <2>2. work.skipped \cap (completed \cup failed) = {}
    BY <1>3, <1>7, <2>1
  <2>3. InRows(left) \cup completed \cup work.skipped \cup failed = PeriodDays
    BY <1>3, <1>7, <2>1
  <2>4. completed \cap failed = {} /\ completed \subseteq store'.published
    BY <1>sets, <2>1
  <2>5. console'.status = "period_done" => store'.dated \subseteq store'.published
    BY <1>4, <1>10, ConsoleParts DEF PeriodCovered
  <2>. QED
    BY <1>8, <1>9, <2>2, <2>3, <2>4, <2>5 DEF PeriodCovered, InRows
<1>. QED
  BY <1>4, <1>11, <1>12, <1>14, <1>15, <1>16 DEF ConsoleInv, ConsoleHonest

LEMMA PeriodDoneKeeps ==
  ASSUME ConsoleInv, PeriodDone
  PROVE  ConsoleInv'
<1> DEFINE status == IF work.failed = {} THEN "period_done" ELSE "period_failed"
<1>1. /\ work.kind = "period" /\ work.todo = << >> /\ Announce(status) /\ work' = NoWork
      /\ UNCHANGED <<store, presses, blurred>>
  BY DEF PeriodDone
<1>2. /\ console' \in ConsoleState /\ console'.status = status
      /\ console'.rows = console.rows /\ console'.file = console.file /\ console'.errors = console.errors
  <2>1. status \in PageStatuses
    BY DEF PageStatuses
  <2> HIDE DEF status
  <2>. QED
    BY <1>1, <2>1, Announced, ConsoleParts
<1>3. work'.kind = "none"
  BY <1>1, KindsOfWork
<1>4. ConsoleTyped'
  BY <1>1, <1>2, ConsoleParts DEF ConsoleTyped
<1>5. RowsOfFile' /\ RowsWaiting' /\ PublishedDays' /\ DaysInOrder' /\ RoundsOpen'
  BY <1>1, <1>2, <1>3, ConsoleParts, StoreStays DEF RowsOfFile, RowsWaiting, DaysInOrder, RoundsOpen
<1>6. FileBroughtIn' /\ PagesDrawn'
  BY <1>1, <1>2, ConsoleParts, FileStays, PagesStay
<1>7. PeriodCovered'
  <2>1. /\ work.completed \subseteq store.published
        /\ InRows(work.todo) \cup work.completed \cup work.skipped \cup work.failed = PeriodDays
    BY <1>1, ConsoleParts DEF PeriodCovered
  <2>2. work.skipped \cap store.dated \subseteq store.published
    BY <1>1, ConsoleParts DEF DaysInOrder
  <2>3. InRows(work.todo) = {}
    BY <1>1 DEF InRows
  <2>4. store.dated \subseteq PeriodDays
    BY ConsoleParts DEF StoreState
  <2>5. work.failed = {} => store.dated \subseteq store.published
    BY <2>1, <2>2, <2>3, <2>4
  <2>. QED
    BY <1>1, <1>2, <1>3, <2>5 DEF PeriodCovered
<1>. QED
  BY <1>4, <1>5, <1>6, <1>7 DEF ConsoleInv, ConsoleHonest

LEMMA TurnsKeep ==
  ASSUME ConsoleInv, RunAnalysis \/ OpenPeriod \/ RunTransient \/ RequestLost
  PROVE  ConsoleInv'
<1> DEFINE Quiet == PageStatuses \ {"imported", "period_done", "pages_done"}
<1>1. "analysing" \in Quiet /\ "listing" \in Quiet /\ "reading" \in Quiet /\ "failed" \in Quiet
  BY DEF PageStatuses
<1>2. CASE RunAnalysis
  <2>1. presses' \in 0 .. ConsoleActs /\ Announce("analysing") /\ UNCHANGED <<store, blurred>>
    BY <1>2, ConsoleParts, Pressed DEF RunAnalysis
  <2>2. work' \in DayWork
    BY <1>2 DEF RunAnalysis, DayWork
  <2>. QED
    BY <1>1, <2>1, <2>2, WorkTurns
<1>3. CASE OpenPeriod
  <2>1. presses' \in 0 .. ConsoleActs /\ Announce("listing") /\ UNCHANGED <<store, blurred>>
    BY <1>3, ConsoleParts, Pressed DEF OpenPeriod
  <2>2. work' \in ListWork
    BY <1>3 DEF OpenPeriod, ListWork
  <2>. QED
    BY <1>1, <2>1, <2>2, WorkTurns
<1>4. CASE RunTransient
  <2>1. presses' \in 0 .. ConsoleActs /\ Announce("reading") /\ UNCHANGED <<store, blurred>>
    BY <1>4, ConsoleParts, Pressed DEF RunTransient
  <2>2. work' \in PagesWork
    BY <1>4 DEF RunTransient, PagesWork
  <2>. QED
    BY <1>1, <2>1, <2>2, WorkTurns
<1>5. CASE RequestLost
  <2>1. presses' \in 0 .. ConsoleActs /\ Announce("failed") /\ UNCHANGED <<store, blurred>> /\ work' = NoWork
    BY <1>5, ConsoleParts DEF RequestLost
  <2>. QED
    BY <1>1, <2>1, WorkTurns
<1>. QED
  BY <1>2, <1>3, <1>4, <1>5

LEMMA AcknowledgeKeeps ==
  ASSUME ConsoleInv, Acknowledge
  PROVE  ConsoleInv'
<1>1. presses' \in 0 .. ConsoleActs /\ UNCHANGED <<work, store, blurred>>
  BY ConsoleParts, Pressed DEF Acknowledge
<1>2. PICK c : c = [console EXCEPT !.acknowledged = TRUE] /\ console' = c
  BY DEF Acknowledge
<1>3. c \in ConsoleState
  BY <1>2, ConsoleParts DEF ConsoleState
<1>4. c.status = console.status /\ c.rows = console.rows /\ c.file = console.file /\ c.errors = console.errors
  BY <1>2, ConsoleParts DEF ConsoleState
<1>5. ConsoleTyped' /\ RowsOfFile' /\ RoundsOpen'
  BY <1>1, <1>2, <1>3, <1>4, ConsoleParts DEF ConsoleTyped, RowsOfFile, RoundsOpen
<1>6. RowsWaiting' /\ PublishedDays' /\ DaysInOrder'
  BY <1>1, ConsoleParts DEF RowsWaiting, PublishedDays, DaysInOrder, Structured
<1>7. FileBroughtIn' /\ PeriodCovered' /\ PagesDrawn'
  BY <1>1, <1>2, <1>4, ConsoleParts, FileStays, PeriodStays, PagesStay
<1>. QED
  BY <1>5, <1>6, <1>7 DEF ConsoleInv, ConsoleHonest

LEMMA RunElsewhereKeeps ==
  ASSUME ConsoleInv, RunElsewhere
  PROVE  ConsoleInv'
<1>1. presses' \in 0 .. ConsoleActs /\ UNCHANGED <<console, work, blurred>>
  BY ConsoleParts, Pressed DEF RunElsewhere
<1>2. PICK d \in store.dated, good \in BOOLEAN : store' = Analysed(store, d, good)
  BY DEF RunElsewhere
<1>3. /\ store' \in StoreState /\ PublishedDays'
      /\ store'.rows = store.rows /\ store'.analyses = store.analyses
      /\ store'.dated = store.dated /\ store'.pages = store.pages /\ store'.drawn = store.drawn
      /\ store.published \subseteq store'.published
  BY <1>2, AnalysedFacts
<1>4. ConsoleTyped' /\ RowsOfFile' /\ RoundsOpen'
  BY <1>1, <1>3, ConsoleParts DEF ConsoleTyped, RowsOfFile, RoundsOpen
<1>5. RowsWaiting' /\ DaysInOrder'
  BY <1>1, <1>3, ConsoleParts DEF RowsWaiting, DaysInOrder, Structured
<1>6. FileBroughtIn' /\ PagesDrawn'
  BY <1>1, <1>3, ConsoleParts, FileStays, PagesStay
<1>7. PeriodCovered'
  BY <1>1, <1>3, ConsoleParts, PeriodStays
<1>. QED
  BY <1>3, <1>4, <1>5, <1>6, <1>7 DEF ConsoleInv, ConsoleHonest

\* A round decides pages; once none is left the agenda is drawn from all that were read.
LEMMA RoundAnsweredKeeps ==
  ASSUME ConsoleInv, RoundAnswered
  PROVE  ConsoleInv'
<1>round. PICK chosen \in SUBSET Unread : \E good \in SUBSET chosen :
       LET after == RoundOf(chosen, good)
           left  == Left(after)
           read  == [store EXCEPT !.pages = after]
           drawn == [read EXCEPT !.drawn = Read(read)]
       IN \/ /\ store' = IF Draws(left, good) THEN drawn ELSE read
             /\ IF left = {}
                THEN /\ work' = NoWork
                     /\ console' = [console EXCEPT !.status = "pages_done", !.acknowledged = FALSE]
                ELSE IF work.round = RoundCap THEN work' = NoWork /\ Announce("capped")
                ELSE work' = [work EXCEPT !.round = @ + 1] /\ UNCHANGED console
          \/ /\ store' \in {read} \cup (IF Draws(left, good) THEN {drawn} ELSE {})
             /\ work' = NoWork /\ Announce("failed")
  BY DEF RoundAnswered
<1>1. PICK good \in SUBSET chosen :
       LET after == RoundOf(chosen, good)
           left  == Left(after)
           read  == [store EXCEPT !.pages = after]
           drawn == [read EXCEPT !.drawn = Read(read)]
       IN \/ /\ store' = IF Draws(left, good) THEN drawn ELSE read
             /\ IF left = {}
                THEN /\ work' = NoWork
                     /\ console' = [console EXCEPT !.status = "pages_done", !.acknowledged = FALSE]
                ELSE IF work.round = RoundCap THEN work' = NoWork /\ Announce("capped")
                ELSE work' = [work EXCEPT !.round = @ + 1] /\ UNCHANGED console
          \/ /\ store' \in {read} \cup (IF Draws(left, good) THEN {drawn} ELSE {})
             /\ work' = NoWork /\ Announce("failed")
  BY <1>round
<1> DEFINE after == RoundOf(chosen, good)
           left  == Left(after)
           read  == [store EXCEPT !.pages = after]
           drawn == [read EXCEPT !.drawn = Read(read)]
<1>2. work.kind = "pages" /\ UNCHANGED <<presses, blurred>>
  BY DEF RoundAnswered
<1>3. store \in StoreState /\ work \in PagesWork /\ console \in ConsoleState
  BY <1>2, ConsoleParts, KindsOfWork
<1>4. after \in [DayPages -> {"unread", "analyzed", "failed"}]
  <2>1. \A p \in DayPages : store.pages[p] \in {"unread", "analyzed", "failed"}
    BY <1>3 DEF StoreState
  <2>. QED
    BY <2>1 DEF RoundOf
<1>5. Draws(left, good) <=> left = {}
  BY DEF Draws
<1>6. /\ store' = drawn \/ store' = read
      /\ console'.status = "pages_done" => store' = drawn /\ left = {}
      /\ console' \in ConsoleState /\ console'.status \in {"pages_done", "capped", "failed", console.status}
      /\ console'.rows = console.rows /\ console'.file = console.file /\ console'.errors = console.errors
      /\ work' = NoWork \/ (work' \in PagesWork /\ console' = console)
  <2> HIDE DEF left, read, drawn
  <2>0. console.status # "pages_done" /\ {"capped", "failed", "pages_done"} \subseteq PageStatuses
    BY <1>2, ConsoleParts DEF RoundsOpen, PageStatuses
  <2>1. CASE /\ store' = IF Draws(left, good) THEN drawn ELSE read
             /\ left = {} /\ work' = NoWork
             /\ console' = [console EXCEPT !.status = "pages_done", !.acknowledged = FALSE]
    <3>1. PICK c : c = [console EXCEPT !.status = "pages_done", !.acknowledged = FALSE] /\ console' = c
      BY <2>1
    <3>2. c \in ConsoleState
      BY <1>3, <2>0, <3>1 DEF ConsoleState
    <3>3. c.status = "pages_done" /\ c.rows = console.rows /\ c.file = console.file /\ c.errors = console.errors
      BY <1>3, <3>1 DEF ConsoleState
    <3>4. store' = drawn
      BY <1>5, <2>1
    <3>. QED
      BY <2>1, <3>1, <3>2, <3>3, <3>4
  <2>2. CASE /\ store' = drawn \/ store' = read
             /\ work' = NoWork
             /\ Announce("capped") \/ Announce("failed")
    BY <1>3, <2>0, <2>2, Announced
  <2>3. CASE /\ store' = drawn \/ store' = read
             /\ work' = [work EXCEPT !.round = @ + 1] /\ UNCHANGED console
    <3>1. work.round + 1 \in Nat
      BY <1>3 DEF PagesWork
    <3>2. PICK w : w = [work EXCEPT !.round = work.round + 1] /\ work' = w
      BY <1>3, <2>3 DEF PagesWork
    <3>3. w \in PagesWork
      BY <1>3, <3>1, <3>2 DEF PagesWork
    <3>. QED
      BY <1>3, <2>0, <2>3, <3>2, <3>3
  <2>4. CASE /\ store' = IF Draws(left, good) THEN drawn ELSE read
             /\ IF left = {}
                THEN /\ work' = NoWork
                     /\ console' = [console EXCEPT !.status = "pages_done", !.acknowledged = FALSE]
                ELSE IF work.round = RoundCap THEN work' = NoWork /\ Announce("capped")
                ELSE work' = [work EXCEPT !.round = @ + 1] /\ UNCHANGED console
    BY <2>1, <2>2, <2>3, <2>4
  <2>5. CASE /\ store' \in {read} \cup (IF Draws(left, good) THEN {drawn} ELSE {})
             /\ work' = NoWork /\ Announce("failed")
    BY <2>2, <2>5
  <2>. QED
    BY <1>1, <2>4, <2>5 DEF left, read, drawn
<1>7. /\ store' \in StoreState /\ store'.pages = after
      /\ store'.rows = store.rows /\ store'.analyses = store.analyses /\ store'.dated = store.dated
      /\ store'.published = store.published /\ store'.last = store.last
      /\ store' = drawn => store'.drawn = {p \in DayPages : after[p] = "analyzed"}
  <2> HIDE DEF after
  <2>1. /\ read \in StoreState /\ read.pages = after
        /\ read.rows = store.rows /\ read.analyses = store.analyses /\ read.dated = store.dated
        /\ read.published = store.published /\ read.last = store.last /\ read.drawn = store.drawn
    BY <1>3, <1>4 DEF StoreState
  <2>2. Read(read) = {p \in DayPages : after[p] = "analyzed"}
    BY <1>4, <2>1 DEF Read
  <2> DEFINE seen == {p \in DayPages : after[p] = "analyzed"}
  <2>3. drawn = [read EXCEPT !.drawn = seen]
    BY <2>2
  <2>4. seen \in SUBSET DayPages
    OBVIOUS
  <2> HIDE DEF seen, read, drawn
  <2>5. PICK s : s = [read EXCEPT !.drawn = seen] /\ drawn = s
    BY <2>3
  <2>6. s \in StoreState
    BY <2>1, <2>4, <2>5 DEF StoreState
  <2>7. /\ s.pages = after /\ s.drawn = seen
        /\ s.rows = store.rows /\ s.analyses = store.analyses /\ s.dated = store.dated
        /\ s.published = store.published /\ s.last = store.last
    BY <2>1, <2>5 DEF StoreState
  <2>. QED
    BY <1>6, <2>1, <2>5, <2>6, <2>7 DEF seen
<1>8. work'.kind \in {"none", "pages"}
  BY <1>6, KindsOfWork DEF PagesWork
<1>9. ConsoleTyped'
  BY <1>2, <1>6, <1>7, ConsoleParts DEF ConsoleTyped
<1>10. RowsOfFile' /\ RowsWaiting' /\ DaysInOrder' /\ RoundsOpen' /\ PublishedDays'
  <2>1. RowsOfFile' /\ RowsWaiting' /\ DaysInOrder'
    BY <1>6, <1>8, ConsoleParts DEF RowsOfFile, RowsWaiting, DaysInOrder
  <2>2. RoundsOpen'
    BY <1>2, <1>6, ConsoleParts, KindsOfWork DEF RoundsOpen
  <2>3. PublishedDays'
    BY <1>7, ConsoleParts DEF PublishedDays
  <2>. QED
    BY <2>1, <2>2, <2>3
<1>11. console.status # "pages_done"
  BY <1>2, ConsoleParts DEF RoundsOpen
<1>12. FileBroughtIn' /\ PeriodCovered'
  BY <1>2, <1>6, <1>7, <1>8, <1>11, ConsoleParts, FileStays, PeriodStays
<1>13. PagesDrawn'
  <2>1. SUFFICES ASSUME console'.status = "pages_done"
                 PROVE  /\ {p \in DayPages : store'.pages[p] = "unread"} = {}
                        /\ store'.drawn = {p \in DOMAIN store'.pages : store'.pages[p] = "analyzed"}
    BY DEF PagesDrawn, Unread, Read
  <2>2. left = {} /\ store' = drawn
    BY <1>6, <2>1
  <2>3. {p \in DayPages : after[p] = "unread"} = {}
    BY <2>2 DEF Left
  <2> HIDE DEF after, drawn
  <2>. QED
    BY <1>4, <1>7, <2>2, <2>3
<1>. QED
  BY <1>9, <1>10, <1>12, <1>13 DEF ConsoleInv, ConsoleHonest

\* The inductive step of the page
LEMMA ConsoleInvStep ==
  ASSUME ConsoleInv, [ConsoleNext]_consoleVars
  PROVE  ConsoleInv'
<1>1. CASE UNCHANGED consoleVars
  <2>1. UNCHANGED <<console, work, store, presses, blurred>>
    BY <1>1 DEF consoleVars
  <2>2. ConsoleTyped' /\ RowsOfFile' /\ RoundsOpen'
    BY <2>1, ConsoleParts DEF ConsoleTyped, RowsOfFile, RoundsOpen, InRows
  <2>3. RowsWaiting' /\ PublishedDays' /\ DaysInOrder'
    BY <2>1, ConsoleParts DEF RowsWaiting, PublishedDays, DaysInOrder, Structured
  <2>4. FileBroughtIn' /\ PeriodCovered' /\ PagesDrawn'
    BY <2>1, ConsoleParts, FileStays, PeriodStays, PagesStay
  <2>. QED
    BY <2>2, <2>3, <2>4 DEF ConsoleInv, ConsoleHonest
<1>2. CASE ConsoleNext
  BY <1>2, ChooseFileKeeps, SubmitImportKeeps, BatchDoneKeeps, BatchFailsKeeps, TurnsKeep, AnalysisAnsweredKeeps,
     PeriodListedKeeps, SkipDayKeeps, AnalyseDayKeeps, PeriodDoneKeeps, AcknowledgeKeeps, RoundAnsweredKeeps,
     RunElsewhereKeeps
     DEF ConsoleNext
<1>. QED
  BY <1>1, <1>2

\* Nothing has been pressed at first.
LEMMA ConsoleInvInit ==
  ASSUME ConsoleInit
  PROVE  ConsoleInv
<1>1. /\ console = [rows |-> << >>, errors |-> FALSE, status |-> "", days |-> [d \in {} |-> ""],
                    acknowledged |-> FALSE, file |-> {}]
      /\ work = NoWork /\ presses = 0 /\ blurred = FALSE
  BY DEF ConsoleInit
<1>2. PICK days \in SUBSET PeriodDays :
       store = [rows |-> {}, analyses |-> {}, dated |-> days, published |-> {}, last |-> [d \in days |-> "pending"],
                pages |-> [p \in DayPages |-> "unread"], drawn |-> {}]
  BY DEF ConsoleInit
<1>3. console \in ConsoleState
  <2>1. [d \in {} |-> ""] \in DayTables
    <3>1. [d \in {} |-> ""] \in [{} -> DayStatuses] /\ {} \in SUBSET PeriodDays
      OBVIOUS
    <3>. QED
      BY <3>1 DEF DayTables
  <2>2. "" \in PageStatuses /\ << >> \in Seq(DOMAIN FileRows) /\ {} \in RowSets
    BY DEF PageStatuses, RowSets
  <2>. QED
    BY <1>1, <2>1, <2>2 DEF ConsoleState
<1>4. store \in StoreState
  <2>1. [d \in days |-> "pending"] \in [days -> DayStatuses]
    BY DEF DayStatuses
  <2>2. [d \in days |-> "pending"] \in DayTables
    BY <2>1 DEF DayTables
  <2>3. [p \in DayPages |-> "unread"] \in [DayPages -> {"unread", "analyzed", "failed"}] /\ {} \in RowSets
    BY DEF RowSets
  <2>. QED
    BY <1>2, <2>2, <2>3 DEF StoreState
<1>5. ConsoleTyped
  <2>1. ConsoleActs \in Nat /\ 0 \in 0 .. ConsoleActs
    BY AdminConsoleAssumption DEF AdminConsoleAssumption
  <2>. QED
    BY <1>1, <1>3, <1>4, <2>1 DEF ConsoleTyped
<1>6. work.kind = "none"
  BY <1>1, KindsOfWork
<1>7. RowsOfFile /\ RowsWaiting /\ DaysInOrder /\ RoundsOpen
  BY <1>1, <1>6 DEF RowsOfFile, RowsWaiting, DaysInOrder, RoundsOpen
<1>8. PublishedDays
  BY <1>2 DEF PublishedDays
<1>9. ConsoleHonest
  BY <1>1, <1>6 DEF ConsoleHonest, FileBroughtIn, PeriodCovered, PagesDrawn
<1>. QED
  BY <1>5, <1>7, <1>8, <1>9 DEF ConsoleInv

LEMMA ConsoleTypesHold == ConsoleInv => ConsoleTypeOK
<1> SUFFICES ASSUME ConsoleInv PROVE ConsoleTypeOK
  OBVIOUS
<1>1. /\ console \in ConsoleState /\ store \in StoreState /\ presses \in 0 .. ConsoleActs /\ blurred \in BOOLEAN
      /\ work \in {NoWork} \cup ImportWork \cup DayWork \cup ListWork \cup PeriodWork \cup PagesWork
  BY DEF ConsoleInv, ConsoleTyped
<1>2. console.errors \in BOOLEAN /\ console.acknowledged \in BOOLEAN
  BY <1>1 DEF ConsoleState
<1>3. store.published \subseteq PeriodDays /\ store.drawn \subseteq DayPages
  BY <1>1 DEF StoreState
<1>4. work.kind \in {"none", "import", "day", "list", "period", "pages"}
  <2>1. NoWork.kind = "none"
    BY DEF NoWork
  <2>2. \A w \in ImportWork : w.kind = "import"
    BY DEF ImportWork
  <2>3. \A w \in DayWork : w.kind = "day"
    BY DEF DayWork
  <2>4. \A w \in ListWork : w.kind = "list"
    BY DEF ListWork
  <2>5. \A w \in PeriodWork : w.kind = "period"
    BY DEF PeriodWork
  <2>6. \A w \in PagesWork : w.kind = "pages"
    BY DEF PagesWork
  <2>. QED
    BY <1>1, <2>1, <2>2, <2>3, <2>4, <2>5, <2>6
<1>. QED
  BY <1>1, <1>2, <1>3, <1>4 DEF ConsoleTypeOK

=============================================================================
