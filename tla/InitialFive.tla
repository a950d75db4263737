---------------------------- MODULE InitialFive -----------------------------
(***************************************************************************)
(* The five issues built from files (site/lib/initial-five/builder.mjs):   *)
(* the issues with their articles, a directory of profiles for each rank,  *)
(* a file of clusters and one of the agreement of the coders.  Profiles    *)
(* are written while a reader lives: it reads the directories it needs for *)
(* the manifest once and keeps them, and any other when it is first asked. *)
(***************************************************************************)
EXTENDS Naturals, FiniteSets, Sequences

CONSTANTS
  TopFiles,     \* bound: the issue file, issues in file order
  TopCount,     \* issues published (5)
  ProfileKinds, \* what a profile file may hold
  ClusterKinds, \* bound: the clusters of the metadata, by issue
  FileWrites    \* bound: profiles written

FiveRanks == 1 .. 9

\* An issue has a rank of its own: the rank names its directory.
ASSUME InitialFiveAssumption ==
  /\ TopCount \in Nat \ {0} /\ FileWrites \in Nat
  /\ \A t \in TopFiles :
       /\ t \in Seq([rank : FiveRanks, articles : SUBSET Nat, declared : SUBSET Nat]) /\ Len(t) >= TopCount
       /\ \A i \in DOMAIN t : IsFiniteSet(t[i].articles)
       /\ \A i, j \in DOMAIN t : i # j => t[i].rank # t[j].rank

VARIABLES
  topFile,  \* the issue file
  clusterOf, \* cluster of each issue
  files,    \* profile files: rank, article, kind; one for each name
  writes,   \* files written
  cached,   \* directories a reader has read
  manifest, \* rows of the manifest; none: no reader yet
  opened    \* the bundles the reader has answered, by rank
fiveVars == <<topFile, clusterOf, files, writes, cached, manifest, opened>>

ProfileFile == [rank : FiveRanks, article : Nat, kind : ProfileKinds]

FiveInit ==
  /\ topFile \in TopFiles /\ clusterOf \in ClusterKinds
  /\ files = {} /\ writes = 0 /\ cached = << >> /\ manifest = {} /\ opened = {}

----------------------------------------------------------------------------
(* Profiles and statuses *)

\* Fault: a decision to analyse is enough, with evidence or without.
Decided(p) == p.kind \in {"sound", "no_evidence"}
\* isSemanticProfileSuccess: rules, a fallback, no decision, no text or no evidence are none
ProfileSuccess(p) == p.kind = "sound"

\* issueState and semanticSummary, over all the files of the directory
Successes(ps) == Cardinality({p \in ps : ProfileSuccess(p)})
Summary(ps, cluster, count) ==
  [succeeded |-> Successes(ps), review |-> IF count > Successes(ps) THEN count - Successes(ps) ELSE 0,
   semantic |-> IF Successes(ps) = count /\ count > 0 THEN "succeeded" ELSE "review_needed",
   status |-> IF cluster = "succeeded" /\ Successes(ps) = count THEN "succeeded" ELSE "review_needed"]

\* the last file of an article counts (mapSemanticProfiles); one file each here
EntryStatus(ps, a) == IF \E p \in ps : p.article = a /\ ProfileSuccess(p) THEN "succeeded" ELSE "review_needed"

----------------------------------------------------------------------------
(* The reader *)

Directory(r)  == {f \in files : f.rank = r}
Lowest(t, n)  == {i \in DOMAIN t : Cardinality({j \in DOMAIN t : t[j].rank < t[i].rank}) < n}
\* the directories read before the manifest is built: the first issues in FILE order
Preloaded(t)  == {t[i].rank : i \in 1 .. TopCount}
Held(c, r)    == IF r \in DOMAIN c THEN c[r] ELSE {}

\* the number of articles an issue declares, or the number it has where it declares none
ArticleCount(i) == IF i.declared = {} THEN Cardinality(i.articles) ELSE CHOOSE n \in i.declared : TRUE
\* buildManifestFromSources: the issues of the lowest ranks, by the number declared
ManifestRow(c, i) ==
  [rank |-> i.rank, count |-> ArticleCount(i),
   summary |-> Summary(Held(c, i.rank), clusterOf[i.rank], ArticleCount(i))]

OpenReader ==
  /\ manifest = {}
  /\ cached' = [r \in Preloaded(topFile) |-> Directory(r)]
  /\ manifest' = {ManifestRow([r \in Preloaded(topFile) |-> Directory(r)], topFile[i]) :
                    i \in Lowest(topFile, TopCount)}
  /\ UNCHANGED <<topFile, clusterOf, files, writes, opened>>

\* Fault: the directory is read again for each bundle.
Reread(r) == Directory(r)
Profiles(r) == IF r \in DOMAIN cached THEN cached[r] ELSE Directory(r)

\* buildIssueAnalysisBundle: the state is by the articles there are, the number shown is the declared
Bundled(i, ps) ==
  [rank |-> i.rank, articles |-> i.articles, count |-> ArticleCount(i),
   entries |-> [a \in i.articles |-> EntryStatus(ps, a)],
   summary |-> Summary(ps, clusterOf[i.rank], Cardinality(i.articles))]

\* getIssue: an issue of the file whose rank is among the published
GetIssue(i) ==
  /\ manifest # {} /\ topFile[i].rank <= TopCount
  /\ cached' = [r \in DOMAIN cached \cup {topFile[i].rank} |-> Profiles(r)]
  /\ opened' = opened \cup {Bundled(topFile[i], Profiles(topFile[i].rank))}
  /\ UNCHANGED <<topFile, clusterOf, files, writes, manifest>>

\* A coder writes or rewrites the file of an article.
WriteProfile(r, a) ==
  /\ writes < FileWrites /\ writes' = writes + 1
  /\ \E k \in ProfileKinds :
       files' = {f \in files : f.rank # r \/ f.article # a} \cup {[rank |-> r, article |-> a, kind |-> k]}
  /\ UNCHANGED <<topFile, clusterOf, cached, manifest, opened>>

FiveNext ==
  \/ OpenReader
  \/ \E i \in DOMAIN topFile : GetIssue(i) \/ \E a \in topFile[i].articles : WriteProfile(topFile[i].rank, a)

----------------------------------------------------------------------------

FiveTypeOK ==
  /\ topFile \in TopFiles /\ clusterOf \in ClusterKinds /\ files \subseteq ProfileFile
  /\ writes \in 0 .. FileWrites /\ DOMAIN cached \subseteq FiveRanks

(* Every issue of the manifest opens, with the counts the manifest gives   *)
(* it however the profiles change meanwhile, and with its status where the *)
(* number of articles it declares is the number it has; a bundle called    *)
(* succeeded has a successful profile of each of its articles              *)
(* (createInitialFiveReader and writeInitialFiveArtifacts of builder.mjs;  *)
(* the first issues of the file are those of the lowest ranks).            *)
Ordered(t) == \A i \in DOMAIN t : t[i].rank = i
ManifestKept ==
  /\ Ordered(topFile) => \A m \in manifest : m.rank <= TopCount
  /\ \A b \in opened : \A m \in manifest :
       m.rank = b.rank /\ Ordered(topFile) =>
         /\ m.count = b.count /\ m.summary.succeeded = b.summary.succeeded
         /\ b.count = Cardinality(b.articles) => m.summary = b.summary
  /\ \A b \in opened :
       /\ b.summary.status = "succeeded" => \A a \in b.articles : b.entries[a] = "succeeded"
       /\ b.summary.succeeded = Cardinality({a \in b.articles : b.entries[a] = "succeeded"})
=============================================================================
