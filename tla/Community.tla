----------------------------- MODULE Community ------------------------------
(***************************************************************************)
(* The community of site/worker/community.mjs: comments and replies,       *)
(* reports, reactions, their rate limits and the moderator.  A handler     *)
(* runs one D1 statement at a time, so the requests of one reader, or of   *)
(* several, interleave between the SELECT a decision rests on and the      *)
(* write that follows it.                                                  *)
(***************************************************************************)
EXTENDS Integers, FiniteSets

CONSTANTS
  Comments,      \* ids a comment may get
  Posted,        \* comments already there, with their issue
  Issues,        \* issues that exist
  Actors,        \* hashed sessions
  Requests,      \* requests in flight
  Nobody,
  LimitOf,       \* requests of each kind an actor may make in a window
  HideAt,        \* reports that hide a comment
  MaxReports,    \* bound: reports of one comment
  MaxReceived    \* bound: requests that arrive

Kinds == {"comment", "report", "reaction"}
ASSUME CommunityAssumption ==
  /\ Nobody \notin Comments \cup Issues \cup Actors
  /\ DOMAIN Posted \subseteq Comments /\ Posted \in [DOMAIN Posted -> Issues]
  /\ LimitOf \in [Kinds -> Nat] /\ HideAt \in Nat \ {0} /\ MaxReports \in Nat /\ MaxReceived \in Nat

VARIABLES
  comment,   \* community_comments
  report,    \* community_reports: <<comment, reporter>>, unique
  reaction,  \* community_reactions: <<comment, actor>>, unique
  rate,      \* community_rate_limits of the running window
  received,  \* requests that have arrived
  spent,     \* history: the requests let through in the running window
  overlap,   \* history: actors two of whose requests were counted at once in it
  request    \* the handlers

communityHistory == <<received, spent, overlap>>
communityVars == <<comment, report, reaction, rate, received, spent, overlap, request>>

----------------------------------------------------------------------------
(* State *)

Counters == [Kinds -> Nat]
Zero == [k \in Kinds |-> 0]

CommentRow == [status : {"absent", "pending", "published", "hidden"},
               issue : Issues \cup {Nobody}, parent : Comments \cup {Nobody}, reports : Nat]
NoComment == [status |-> "absent", issue |-> Nobody, parent |-> Nobody, reports |-> 0]
PostedComment(c) == [status |-> "published", issue |-> Posted[c], parent |-> Nobody, reports |-> 0]

ReportRow   == Comments \X Actors
ReactionRow == Comments \X Actors

\* seen   : the counters the rate limit has read
\* fresh  : the window they were read in is still running
\* mine   : whether the reader had reacted when that was read
HandlerPhases == {"idle", "limit", "count", "check", "look", "act"}
Handler == [phase : HandlerPhases, kind : Kinds, actor : Actors \cup {Nobody}, target : Comments \cup {Nobody},
            issue : Issues \cup {Nobody}, seen : Counters, fresh : BOOLEAN, mine : BOOLEAN]
NoRequest == [phase |-> "idle", kind |-> "comment", actor |-> Nobody, target |-> Nobody,
              issue |-> Nobody, seen |-> Zero, fresh |-> TRUE, mine |-> FALSE]
Rest(q) == request[q].phase = "idle"

CommunityInit ==
  /\ comment = [c \in Comments |-> IF c \in DOMAIN Posted THEN PostedComment(c) ELSE NoComment]
  /\ report = {} /\ reaction = {}
  /\ rate = [a \in Actors |-> Zero] /\ spent = [a \in Actors |-> Zero] /\ overlap = {}
  /\ received = 0
  /\ request = [q \in Requests |-> NoRequest]

Visible == {c \in Comments : comment[c].status = "published"}
Roots     == {c \in Visible : comment[c].parent = Nobody}
Free      == {c \in Comments : comment[c].status = "absent"}
\* Ids are random and fresh: which one a comment gets makes no difference.
NewId     == CHOOSE c \in Free : TRUE

Goes(q, phase) == request' = [request EXCEPT ![q].phase = phase]
Answered(q) == request' = [request EXCEPT ![q] = NoRequest]

----------------------------------------------------------------------------
(* A request arrives with a valid payload *)

Receive(q) ==
  /\ Rest(q)
  /\ received < MaxReceived /\ received' = received + 1
  /\ \E a \in Actors, k \in Kinds, i \in Issues \cup {Nobody}, t \in Comments \cup {Nobody} :
       /\ k = "comment" => i # Nobody
       /\ k # "comment" => i = Nobody /\ t # Nobody
       /\ request' = [request EXCEPT ![q].phase = "limit", ![q].kind = k, ![q].actor = a,
                                     ![q].target = t, ![q].issue = i]
  /\ UNCHANGED <<comment, report, reaction, rate, spent, overlap>>

----------------------------------------------------------------------------
(* consumeRateLimit: a SELECT, then all three counters written absolutely *)

\* Fault: one request too few.
Early(kind, count) == count + 1 >= LimitOf[kind]
Exhausted(kind, count) == count >= LimitOf[kind]

Counting(q, actor) ==
  request[q].phase = "count" /\ request[q].fresh /\ request[q].actor = actor

RateRead(q) ==
  /\ request[q].phase = "limit"
  /\ LET a == request[q].actor
         k == request[q].kind
     IN  \/ /\ Exhausted(k, rate[a][k]) /\ Answered(q) /\ UNCHANGED overlap
         \/ /\ ~Exhausted(k, rate[a][k])
            /\ request' = [request EXCEPT ![q].phase = "count", ![q].seen = rate[a]]
            /\ overlap' = IF \E p \in Requests : Counting(p, a) THEN overlap \cup {a}
                           ELSE overlap
  /\ UNCHANGED <<comment, report, reaction, rate, received, spent>>

\* Fault: the request counts for every kind.
CountedAll(counters, kind) == [k \in Kinds |-> counters[k] + 1]
Counted(counters, kind) == [counters EXCEPT ![kind] = @ + 1]

\* The row of a window that is over is written too, and never read again.
RateWrite(q) ==
  /\ request[q].phase = "count"
  /\ LET a == request[q].actor
         k == request[q].kind
     IN  IF request[q].fresh
         THEN /\ rate' = [rate EXCEPT ![a] = Counted(request[q].seen, k)]
              /\ spent' = [spent EXCEPT ![a][k] = @ + 1]
         ELSE UNCHANGED <<rate, spent>>
  /\ Goes(q, "check")
  /\ UNCHANGED <<comment, report, reaction, received, overlap>>

NewWindow ==
  /\ rate' = [a \in Actors |-> Zero] /\ spent' = [a \in Actors |-> Zero] /\ overlap' = {}
  /\ request' = [q \in Requests |-> IF request[q].phase = "count"
                   THEN [request[q] EXCEPT !.fresh = FALSE] ELSE request[q]]
  /\ UNCHANGED <<comment, report, reaction, received>>

----------------------------------------------------------------------------
(* The SELECT the write rests on *)

MayAnswer(issue, parent) ==
  parent = Nobody \/ (parent \in Roots /\ comment[parent].issue = issue)

Found(q) ==
  LET t == request[q].target
  IN  CASE request[q].kind = "comment"  -> MayAnswer(request[q].issue, t)
        [] request[q].kind = "report"   -> comment[t].status \notin {"absent", "hidden"}
        [] request[q].kind = "reaction" -> t \in Visible

Check(q) ==
  /\ request[q].phase = "check"
  /\ \/ ~Found(q) /\ Answered(q)
     \/ Found(q) /\ Goes(q, IF request[q].kind = "reaction" THEN "look" ELSE "act")
  /\ UNCHANGED <<comment, report, reaction, rate, communityHistory>>

----------------------------------------------------------------------------
(* The writes *)

Acts(q, kind) == request[q].phase = "act" /\ request[q].kind = kind

\* A body that looks like an address or a number waits for the moderator.
CreateComment(q) ==
  /\ Acts(q, "comment") /\ Free # {}
  /\ \E status \in {"published", "pending"} :
       comment' = [comment EXCEPT ![NewId] =
         [status |-> status, issue |-> request[q].issue, parent |-> request[q].target,
          reports |-> 0]]
  /\ Answered(q)
  /\ UNCHANGED <<report, reaction, rate, communityHistory>>

\* Fault: the status is judged by the count before this report.
HiddenLate(row) == IF row.reports >= HideAt THEN "hidden" ELSE row.status
HiddenBy(row) == IF row.reports + 1 >= HideAt THEN "hidden" ELSE row.status

\* Fault: a reader may report a comment again.
Repeatable(own) == FALSE
Repeats(own) == own \in report

\* One batch: the unique report, the count and the status; a second report by the
\* same reader fails the batch.
ReportComment(q) ==
  /\ Acts(q, "report")
  /\ LET t == request[q].target
         own == <<t, request[q].actor>>
     IN  IF Repeats(own) THEN UNCHANGED <<comment, report>>
         ELSE /\ comment[t].reports < MaxReports
              /\ report' = report \cup {own}
              /\ comment' = [comment EXCEPT ![t].reports = @ + 1,
                                            ![t].status = HiddenBy(comment[t])]
  /\ Answered(q)
  /\ UNCHANGED <<reaction, rate, communityHistory>>

LookReaction(q) ==
  /\ request[q].phase = "look"
  /\ request' = [request EXCEPT ![q].phase = "act",
       ![q].mine = <<request[q].target, request[q].actor>> \in reaction]
  /\ UNCHANGED <<comment, report, reaction, rate, communityHistory>>

\* An INSERT of a row that has meanwhile come fails with an error of the server.
ReactToComment(q) ==
  /\ Acts(q, "reaction")
  /\ LET own == <<request[q].target, request[q].actor>>
     IN  reaction' = IF request[q].mine THEN reaction \ {own} ELSE reaction \cup {own}
  /\ Answered(q)
  /\ UNCHANGED <<comment, report, rate, communityHistory>>

SetStatus ==
  /\ \E c \in Comments \ Free, status \in {"published", "hidden"} :
       comment' = [comment EXCEPT ![c].status = status]
  /\ UNCHANGED <<report, reaction, rate, communityHistory, request>>

Handle(q) == RateRead(q) \/ RateWrite(q) \/ Check(q) \/ CreateComment(q)
               \/ ReportComment(q) \/ LookReaction(q) \/ ReactToComment(q)
CommunityNext == NewWindow \/ SetStatus \/ \E q \in Requests : Receive(q) \/ Handle(q)
CommunitySpec == CommunityInit /\ [][CommunityNext]_communityVars

----------------------------------------------------------------------------
(* Properties *)

\* Every table keeps to its columns, every handler to its fields.
CommunityTypeOK ==
  /\ comment \in [Comments -> CommentRow]
  /\ report \subseteq ReportRow /\ reaction \subseteq ReactionRow
  /\ rate \in [Actors -> Counters] /\ spent \in [Actors -> Counters] /\ overlap \subseteq Actors
  /\ received \in 0 .. MaxReceived
  /\ request \in [Requests -> Handler]

\* Nobody is refused for requests he has not made, and who sends one at a time never
\* passes the limit: only overlapping requests may lose a count, and none adds one.
LimitKept ==
  \A a \in Actors, k \in Kinds :
    /\ rate[a][k] <= spent[a][k]
    /\ a \notin overlap => rate[a][k] = spent[a][k] /\ spent[a][k] <= LimitOf[k]

\* A comment's count is the number of readers who reported it, however their
\* requests and the moderator's interleave.
ReportsCounted ==
  \A c \in Comments :
    comment[c].reports = Cardinality({a \in Actors : <<c, a>> \in report})

\* Enough readers hide a comment, and only the moderator shows it again: a reader's
\* request never does, however late it acts on what it has checked.
ReadersHide ==
  [][(\E q \in Requests : request'[q] # request[q]) =>
       \A c \in Comments :
         /\ comment[c].status = "hidden" => comment'[c].status = "hidden"
         /\ comment'[c].reports # comment[c].reports /\ comment'[c].reports >= HideAt
              => comment'[c].status = "hidden"]_communityVars
=============================================================================
