---------------------------- MODULE ArticleFeed -----------------------------
(***************************************************************************)
(* The list of articles (handleArticles of site/worker/runtime.mjs) read   *)
(* page by page while imports change the table.  A page is two queries,    *)
(* the number of rows first, and its cursor is an offset: the rows shift   *)
(* under it when an import inserts, re-dates or re-files an article.       *)
(***************************************************************************)
EXTENDS Naturals, FiniteSets

CONSTANTS
  FeedArticles,  \* ids, ordered
  PostTimes,     \* bound: publication times, from 1
  PageLimit,     \* rows of one page
  OffsetCap,     \* largest offset a cursor may name (100 000)
  FeedChanges    \* bound: rows changed by imports

ASSUME ArticleFeedAssumption ==
  /\ FeedArticles \subseteq Nat /\ IsFiniteSet(FeedArticles) /\ PostTimes \subseteq Nat \ {0} /\ 1 \in PostTimes
  /\ PageLimit \in Nat \ {0} /\ OffsetCap \in Nat /\ FeedChanges \in Nat

VARIABLES
  posted,   \* time of each article under the reader's filters; 0: not there
  walk,     \* the reader who follows the cursors
  changes,  \* rows changed
  steady,   \* history: articles there and unmoved since the walk began
  slid      \* history: a row went from before the cursor to behind it, or a row
            \* came between the count and the page
articleFeedVars == <<posted, walk, changes, steady, slid>>

\* ORDER BY COALESCE(published_at, collected_at) DESC, id DESC
ListedAhead(p, a, b) == p[a] > p[b] \/ (p[a] = p[b] /\ a > b)
Listed(p)      == {a \in FeedArticles : p[a] # 0}
Place(p, a)    == Cardinality({b \in Listed(p) : ListedAhead(p, b, a)})

WalkSteps == {"rest", "count", "page", "done", "refused"}
Walk == [step : WalkSteps, offset : 0 .. 2 * Cardinality(FeedArticles),
         total : 0 .. Cardinality(FeedArticles), shown : SUBSET FeedArticles]

ArticleFeedInit ==
  /\ posted \in [FeedArticles -> {0, 1}] /\ changes = 0
  /\ walk = [step |-> "rest", offset |-> 0, total |-> 0, shown |-> {}]
  /\ steady = {} /\ slid = FALSE

\* The import writes one row: a new article, another date, or one under another filter.
ImportRow(a) ==
  /\ changes < FeedChanges /\ walk.step \notin {"rest", "done", "refused"}
  /\ \E t \in PostTimes \cup {0} :
       /\ t # posted[a]
       /\ LET p == [posted EXCEPT ![a] = t]
              was == posted[a] # 0 /\ Place(posted, a) < walk.offset
              is  == t # 0 /\ Place(p, a) < walk.offset
          IN /\ posted' = p
             /\ slid' = (slid \/ (was /\ ~is) \/ (walk.step = "page" /\ posted[a] = 0))
  /\ changes' = changes + 1 /\ steady' = steady \ {a}
  /\ UNCHANGED walk

OpenFeed ==
  /\ walk.step = "rest"
  /\ walk' = [walk EXCEPT !.step = "count"] /\ steady' = Listed(posted)
  /\ UNCHANGED <<posted, changes, slid>>

CountRows ==
  /\ walk.step = "count"
  /\ walk' = [walk EXCEPT !.step = "page", !.total = Cardinality(Listed(posted))]
  /\ UNCHANGED <<posted, changes, steady, slid>>

PageRows(offset) == {a \in Listed(posted) : Place(posted, a) \in offset .. offset + PageLimit - 1}

\* Fault: the last row is taken for one of this page.
MoreButOne(next, total) == next + 1 < total
HasMore(next, total) == next < total

\* decodeCursor: an offset over the cap is no cursor
CursorFits(offset) == offset <= OffsetCap

ReadPage ==
  /\ walk.step = "page"
  /\ LET rows == PageRows(walk.offset)
         next == walk.offset + Cardinality(rows)
     IN walk' = [walk EXCEPT !.shown = @ \cup rows, !.offset = next,
                   !.step = IF ~HasMore(next, walk.total) THEN "done"
                            ELSE IF CursorFits(next) THEN "count" ELSE "refused"]
  /\ UNCHANGED <<posted, changes, steady, slid>>

ArticleFeedNext ==
  \/ \E a \in FeedArticles : ImportRow(a)
  \/ OpenFeed \/ CountRows \/ ReadPage

----------------------------------------------------------------------------

ArticleFeedTypeOK ==
  /\ posted \in [FeedArticles -> PostTimes \cup {0}] /\ walk \in Walk
  /\ changes \in 0 .. FeedChanges /\ steady \subseteq FeedArticles /\ slid \in BOOLEAN

(* A reader who follows the cursors to the end of the list has been shown  *)
(* every article that was there all the time, whatever was imported        *)
(* meanwhile, unless a row fell behind the cursor or one came between a    *)
(* page's count and its rows (handleArticles of site/worker/runtime.mjs).  *)
FeedComplete == walk.step = "done" /\ ~slid => steady \subseteq walk.shown
=============================================================================
