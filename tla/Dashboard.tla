------------------------------ MODULE Dashboard ------------------------------
(***************************************************************************)
(* The dashboard in the browser (site/app/agenda-dashboard.tsx): what the  *)
(* reader has chosen, what is shown, and the requests in between.  Answers *)
(* come in any order or not at all.  Only the request for the detail of an *)
(* issue is cancelled when a newer one replaces it; the lists take every   *)
(* answer, and a handler goes on after an await with the choices of the    *)
(* rendering it began in.                                                  *)
(***************************************************************************)
EXTENDS Naturals, Sequences, FiniteSets

CONSTANTS
  BoardCategories, \* categories, "all" among them
  BoardDates,      \* bound: what the server may list as its dates, newest first
  IssueLists,      \* the issues the server lists, by category, date and scope
  FilteredTotal,   \* articles of the archive, by filter; the filter "none" among them
  BoardActs             \* bound: what the reader does

\* what a list of the server is asked for; before its dates are known the date is empty
BoardDays == {""} \cup UNION {{s[i] : i \in DOMAIN s} : s \in BoardDates}
PanelScope    == "academic_panel_12"
FallbackScope == "general_daily_10"
ListKeys == [category : BoardCategories, date : BoardDays, scope : {PanelScope, FallbackScope}]

ASSUME DashboardAssumption ==
  /\ "all" \in BoardCategories /\ "none" \in DOMAIN FilteredTotal /\ BoardActs \in Nat
  /\ FilteredTotal \in [DOMAIN FilteredTotal -> Nat] /\ BoardDates \subseteq Seq(STRING)
  /\ IssueLists \in [ListKeys -> Seq(STRING)]

VARIABLES
  board,    \* the state of the component
  asked,    \* its requests in flight
  acts,     \* acts of the reader
  crossed,  \* history: the requests of the last burst for dates and issues overlapped
  strayed   \* history: the archive listed is not the one the applied filter stands for
boardVars == <<board, asked, acts, crossed, strayed>>

Board(c) == [category |-> c, date |-> "", scope |-> PanelScope, selected |-> "", detail |-> << >>,
             detailError |-> FALSE, cleared |-> FALSE, issues |-> << >>, issueError |-> FALSE,
             applied |-> "none", archive |-> FALSE, found |-> << >>, offset |-> 0, loading |-> FALSE,
             refreshing |-> FALSE, options |-> {}]

\* the first effect: the category and the date of the url, then dates and issues
BoardInit ==
  /\ \E c \in BoardCategories, d \in BoardDays :
       /\ board = Board(c)
       /\ asked = [dates |-> {[prefer |-> d, category |-> c, scope |-> PanelScope, by |-> "mount",
                               applied |-> "none", free |-> FALSE]},
                   issues |-> {}, detail |-> {}, archive |-> {}]
  /\ acts = 0 /\ crossed = FALSE /\ strayed = FALSE

----------------------------------------------------------------------------
(* What a change of the state sets off *)

\* Fault: the detail asked for earlier is not cancelled.
LeftOpen(ds) == ds
Cancelled(ds) == {[d EXCEPT !.live = FALSE] : d \in ds}

\* the effect on the selected issue, the scope and the nonce: it cancels, and asks if one is selected
Detailed(b, ds) ==
  Cancelled(ds) \cup {[issue |-> i, scope |-> b.scope, live |-> TRUE] : i \in {b.selected} \ {""}}
DetailEffect(b, ds) ==
  IF b.selected # board.selected \/ b.scope # board.scope THEN Detailed(b, ds) ELSE ds
\* a selection made anew has a request of its own
Reselected(b) == IF b.selected # board.selected \/ b.scope # board.scope
              THEN [b EXCEPT !.cleared = FALSE] ELSE b

Quiet == asked.dates = {} /\ asked.issues = {}
Burst == crossed' = ~Quiet
Act == acts < BoardActs /\ acts' = acts + 1
ListKey(c, d, s) == [category |-> c, date |-> d, scope |-> s]

\* loadIssues, up to its await
AskIssues(b, key) ==
  /\ board' = Reselected([b EXCEPT !.issueError = FALSE])
  /\ asked' = [asked EXCEPT !.issues = @ \cup {key}, !.detail = DetailEffect(b, @)]

----------------------------------------------------------------------------
(* The reader *)

HandleCategory ==
  /\ Act /\ Burst
  /\ \E c \in BoardCategories :
       AskIssues([board EXCEPT !.category = c, !.detail = << >>, !.detailError = FALSE, !.cleared = TRUE],
                 ListKey(c, board.date, board.scope))
  /\ UNCHANGED strayed

\* one of the dates it was offered
HandleIssueDate ==
  /\ Act /\ Burst
  /\ \E d \in board.options :
       AskIssues([board EXCEPT !.date = d, !.category = "all", !.detail = << >>, !.detailError = FALSE,
                               !.selected = ""], ListKey("all", d, board.scope))
  /\ UNCHANGED strayed

\* a card of the list shown
ShownIssues == IF board.issues = << >> \/ board.issueError THEN << >> ELSE IssueLists[board.issues[1]]
SelectIssue ==
  /\ Act
  /\ \E n \in DOMAIN ShownIssues :
       LET b == [board EXCEPT !.detail = << >>, !.detailError = FALSE, !.selected = ShownIssues[n],
                              !.cleared = board.cleared \/ ShownIssues[n] = board.selected]
       IN board' = Reselected(b) /\ asked' = [asked EXCEPT !.detail = DetailEffect(b, @)]
  /\ UNCHANGED <<crossed, strayed>>

RetryDetail ==
  /\ Act /\ board.detailError
  /\ board' = [board EXCEPT !.detail = << >>, !.detailError = FALSE, !.cleared = FALSE]
  /\ asked' = [asked EXCEPT !.detail = Detailed(board, @)]
  /\ UNCHANGED <<crossed, strayed>>

RetryIssues ==
  /\ Act /\ Burst /\ board.issueError
  /\ AskIssues(board, ListKey(board.category, board.date, board.scope))
  /\ UNCHANGED strayed

\* loadArticles, up to its await: it asks nothing while the rendering it belongs to is loading
ArchiveAsk(append, filter, offset) == [append |-> append, filter |-> filter, offset |-> offset]
OpenArchive ==
  /\ Act /\ ~board.archive
  /\ board' = [board EXCEPT !.archive = TRUE, !.loading = TRUE]
  /\ asked' = [asked EXCEPT !.archive = @ \cup {ArchiveAsk(FALSE, board.applied, 0)}]
  /\ UNCHANGED <<crossed, strayed>>

\* submitFilters needs a list at rest; resetFilters does not, and may only change the filter applied
Filter(f) ==
  /\ Act /\ board.archive /\ (f = "none" \/ ~board.loading)
  /\ board' = [board EXCEPT !.applied = f, !.loading = TRUE]
  /\ IF board.loading THEN asked' = asked
     ELSE asked' = [asked EXCEPT !.archive = @ \cup {ArchiveAsk(FALSE, f, 0)}]
  /\ strayed' = (strayed \/ f # board.applied)
  /\ UNCHANGED crossed

MoreArticles ==
  /\ Act /\ board.archive /\ ~board.loading /\ board.offset < FilteredTotal[board.applied]
  /\ board' = [board EXCEPT !.loading = TRUE]
  /\ asked' = [asked EXCEPT !.archive = @ \cup {ArchiveAsk(TRUE, board.applied, board.offset)}]
  /\ UNCHANGED <<crossed, strayed>>

\* refreshAll keeps the category, the filter and the idle list of the rendering of the click
RefreshAll ==
  /\ Act /\ Burst /\ ~board.refreshing
  /\ board' = [board EXCEPT !.refreshing = TRUE]
  /\ asked' = [asked EXCEPT !.dates = @ \cup
                {[prefer |-> board.date, category |-> board.category, scope |-> board.scope, by |-> "refresh",
                  applied |-> board.applied, free |-> board.archive /\ ~board.loading]}]
  /\ UNCHANGED strayed

----------------------------------------------------------------------------
(* The answers *)

\* Fault: the list is asked for the date the reader preferred.
PreferredDate(q, d) == q.prefer
ListDate(q, d) == d

\* loadIssueDates has its dates, or failed; the list, and for a refresh the archive, are asked at once
Resolved(q, d, s, listed) ==
  LET b == [board EXCEPT !.date = d, !.options = listed, !.scope = IF s = << >> THEN @ ELSE s[1], !.issueError = FALSE,
                         !.loading = @ \/ q.free, !.refreshing = @ /\ q.by # "refresh"]
      scope == IF s = << >> THEN q.scope ELSE s[1]
  IN /\ board' = Reselected(b)
     /\ asked' = [dates   |-> asked.dates \ {q},
                  issues  |-> asked.issues \cup {ListKey(q.category, ListDate(q, d), scope)},
                  detail  |-> DetailEffect(b, asked.detail),
                  archive |-> asked.archive \cup (IF q.free THEN {ArchiveAsk(FALSE, q.applied, 0)} ELSE {})]
     /\ strayed' = (strayed \/ (q.free /\ (asked.archive # {} \/ q.applied # board.applied)))

DatesAnswered ==
  /\ \E q \in asked.dates, ds \in BoardDates, s \in {PanelScope, FallbackScope} :
       /\ s = PanelScope => ds # << >>
       /\ LET listed == {ds[i] : i \in DOMAIN ds}
          IN Resolved(q, IF q.prefer \in listed \/ ds = << >> THEN q.prefer ELSE ds[1], <<s>>, listed)
  /\ UNCHANGED <<acts, crossed>>

DatesFailed ==
  /\ \E q \in asked.dates : Resolved(q, q.prefer, << >>, {})
  /\ UNCHANGED <<acts, crossed>>

\* by then the url names the issue selected, so that the one it first asked for is lost
Selection(list) ==
  IF \E n \in DOMAIN list : list[n] = board.selected THEN board.selected
  ELSE IF list = << >> THEN "" ELSE list[1]
IssuesAnswered ==
  /\ \E key \in asked.issues :
       LET b == [board EXCEPT !.issues = <<key>>, !.selected = Selection(IssueLists[key])]
       IN /\ board' = Reselected(b)
          /\ asked' = [asked EXCEPT !.issues = @ \ {key}, !.detail = DetailEffect(b, @)]
  /\ UNCHANGED <<acts, crossed, strayed>>
IssuesFailed ==
  /\ \E key \in asked.issues : asked' = [asked EXCEPT !.issues = @ \ {key}]
  /\ board' = [board EXCEPT !.issueError = TRUE]
  /\ UNCHANGED <<acts, crossed, strayed>>

\* an answer that was cancelled changes nothing; one that came does not take back an earlier error
DetailAnswered ==
  /\ \E d \in asked.detail :
       /\ asked' = [asked EXCEPT !.detail = @ \ {d}]
       /\ board' \in IF ~d.live THEN {board}
                     ELSE {[board EXCEPT !.detail = <<[issue |-> d.issue, scope |-> d.scope]>>],
                           [board EXCEPT !.detail = << >>, !.detailError = TRUE]}
  /\ UNCHANGED <<acts, crossed, strayed>>

\* a page of one article stands for the twelve of the code
ArchiveAnswered ==
  /\ \E a \in asked.archive :
       LET next == IF a.offset < FilteredTotal[a.filter] THEN <<[filter |-> a.filter, at |-> a.offset]>> ELSE << >>
       IN /\ asked' = [asked EXCEPT !.archive = @ \ {a}]
          /\ board' = [board EXCEPT !.found = IF a.append THEN @ \o next ELSE next,
                                    !.offset = a.offset + Len(next), !.loading = FALSE]
          /\ strayed' = (IF a.append \/ asked.archive # {a} THEN strayed ELSE a.filter # board.applied)
  /\ UNCHANGED <<acts, crossed>>
ArchiveFailed ==
  /\ \E a \in asked.archive : asked' = [asked EXCEPT !.archive = @ \ {a}]
  /\ board' = [board EXCEPT !.loading = FALSE]
  /\ UNCHANGED <<acts, crossed, strayed>>

BoardNext ==
  \/ HandleCategory \/ HandleIssueDate \/ SelectIssue \/ RetryDetail \/ RetryIssues
  \/ OpenArchive \/ (\E f \in DOMAIN FilteredTotal : Filter(f)) \/ MoreArticles \/ RefreshAll
  \/ DatesAnswered \/ DatesFailed \/ IssuesAnswered \/ IssuesFailed \/ DetailAnswered
  \/ ArchiveAnswered \/ ArchiveFailed

----------------------------------------------------------------------------
(* Properties *)

BoardTypeOK ==
  /\ acts \in 0 .. BoardActs /\ crossed \in BOOLEAN /\ strayed \in BOOLEAN
  /\ asked.issues \subseteq DOMAIN IssueLists /\ board.applied \in DOMAIN FilteredTotal

\* With no request for it under way the detail is of the issue selected and of the
\* scope in use; there is none only when the request failed or the reader cleared it
\* without choosing another issue.
DetailFits ==
  board.selected # "" /\ ~(\E d \in asked.detail : d.live) =>
    \/ board.detail = <<[issue |-> board.selected, scope |-> board.scope]>>
    \/ board.detail = << >> /\ (board.detailError \/ board.cleared)

\* Unless requests crossed or the last one failed, the issues listed are those of the
\* category, the date and the scope the page names.
ListFits ==
  Quiet /\ ~crossed /\ ~board.issueError =>
    board.issues = <<ListKey(board.category, board.date, board.scope)>>

\* Unless a filter was applied without its list, the articles found are the first of
\* that filter, without a gap and without one twice.
ArchiveFits ==
  ~strayed /\ board.found # << >> =>
    board.found = [n \in 1 .. Len(board.found) |-> [filter |-> board.applied, at |-> n - 1]]

BoardFits == DetailFits /\ ListFits /\ ArchiveFits
=============================================================================
