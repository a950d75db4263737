---------------------------- MODULE WorkerProofs ----------------------------
(***************************************************************************)
(* Theorems about the worker's components beside the queue, the outbox and *)
(* the publication of analyses: the community and its page, the quality    *)
(* review and the scheduled operations, each for all values of its         *)
(* constants: any number of comments, readers, requests in flight, desks,  *)
(* issues, runs and events, any limits and budgets of attempts.            *)
(***************************************************************************)
EXTENDS Community, CommunityFeed, QualityReview, ScheduledOperations,
        FiniteSetTheorems, TLAPS

----------------------------------------------------------------------------
(* The community *)

\* What a request aims at: a comment that is there once it has been found.
Aimed ==
  \A q \in Requests :
    /\ request[q].phase # "idle" =>
         /\ request[q].actor \in Actors
         /\ request[q].kind # "comment" => request[q].target \in Comments
    /\ request[q].phase = "look" => request[q].kind = "reaction"
    /\ Acts(q, "report") => comment[request[q].target].status # "absent"

\* A comment that is not there has no reports, and the readers who reported one can be counted.
Reporters(c) == {a \in Actors : <<c, a>> \in report}
Reported ==
  \A c \in Comments :
    /\ comment[c].status = "absent" => comment[c].reports = 0
    /\ IsFiniteSet(Reporters(c)) /\ comment[c].reports = Cardinality(Reporters(c))

\* What a request has counted when its SELECT was the last before its write: no more
\* than was let through, and all of it while no other request of the reader is under way.
SeenCounts ==
  \A q \in Requests : request[q].phase = "count" /\ request[q].fresh =>
    /\ \A k \in Kinds : request[q].seen[k] <= spent[request[q].actor][k]
    /\ request[q].actor \notin overlap =>
         /\ request[q].seen = rate[request[q].actor]
         /\ ~Exhausted(request[q].kind, request[q].seen[request[q].kind])
Alone ==
  \A p, q \in Requests, a \in Actors :
    Counting(p, a) /\ Counting(q, a) /\ a \notin overlap => p = q

CommunityInv == CommunityTypeOK /\ Aimed /\ Reported /\ LimitKept /\ SeenCounts /\ Alone

----------------------------------------------------------------------------
(* Types *)

\* A comment whose count and status change keeps to its columns.
LEMMA RowKept ==
  ASSUME NEW row \in CommentRow, NEW status \in {"absent", "pending", "published", "hidden"}
  PROVE  [row EXCEPT !.reports = @ + 1, !.status = status] \in CommentRow
<1>1. row.reports + 1 \in Nat
  BY DEF CommentRow
<1>2. ASSUME NEW n \in Nat
      PROVE  [row EXCEPT !.reports = n, !.status = status] \in CommentRow
  BY DEF CommentRow
<1>3. [row EXCEPT !.reports = row.reports + 1, !.status = status] \in CommentRow
  BY <1>1, <1>2
<1>. QED
  BY <1>3

\* The request of no one is a handler at rest.
LEMMA NoRequestTyped == NoRequest \in Handler
BY DEF NoRequest, Handler, HandlerPhases, Kinds, Counters, Zero

\* A handler that goes on or answers keeps the handlers typed.
LEMMA GoesTyped ==
  ASSUME CommunityTypeOK, NEW q \in Requests, NEW phase \in HandlerPhases,
         Goes(q, phase) \/ Answered(q)
  PROVE  request' \in [Requests -> Handler]
<1>1. request \in [Requests -> Handler]
  BY DEF CommunityTypeOK
<1>2. [request[q] EXCEPT !.phase = phase] \in Handler
  BY <1>1 DEF Handler
<1>3. CASE Goes(q, phase)
  BY <1>1, <1>2, <1>3 DEF Goes
<1>4. CASE Answered(q)
  BY <1>1, <1>4, NoRequestTyped DEF Answered
<1>. QED
  BY <1>3, <1>4

\* Every step keeps the types.
LEMMA TypeStep ==
  ASSUME CommunityTypeOK, Aimed, [CommunityNext]_communityVars
  PROVE  CommunityTypeOK'
<1>. USE DEF CommunityTypeOK, communityHistory
<1>0. /\ request \in [Requests -> Handler] /\ comment \in [Comments -> CommentRow]
      /\ rate \in [Actors -> Counters] /\ spent \in [Actors -> Counters]
      /\ Zero \in Counters
  BY DEF Zero, Counters
<1>1. ASSUME NEW q \in Requests, Receive(q)
      PROVE  CommunityTypeOK'
  <2>1. received' \in 0 .. MaxReceived
    BY <1>1, CommunityAssumption DEF Receive
  <2>2. PICK a \in Actors, k \in Kinds, i \in Issues \cup {Nobody}, t \in Comments \cup {Nobody} :
          request' = [request EXCEPT ![q].phase = "limit", ![q].kind = k, ![q].actor = a,
                                     ![q].target = t, ![q].issue = i]
    BY <1>1 DEF Receive
  <2>3. request' = [request EXCEPT ![q] = [request[q] EXCEPT !.phase = "limit", !.kind = k,
                      !.actor = a, !.target = t, !.issue = i]]
    BY <2>2, <1>0
  <2>4. [request[q] EXCEPT !.phase = "limit", !.kind = k, !.actor = a, !.target = t,
                           !.issue = i] \in Handler
    BY <1>0 DEF Handler, HandlerPhases
  <2>5. request' \in [Requests -> Handler]
    BY <2>3, <2>4, <1>0
  <2>. QED
    BY <1>1, <2>1, <2>5 DEF Receive
<1>2. ASSUME NEW q \in Requests, RateRead(q)
      PROVE  CommunityTypeOK'
  <2>1. request[q].phase # "idle" /\ request[q].actor \in Actors
    BY <1>2 DEF RateRead, Aimed
  <2>2. CASE Answered(q) /\ UNCHANGED overlap
    BY <1>2, <2>2, GoesTyped DEF RateRead, HandlerPhases
  <2>3. CASE request' = [request EXCEPT ![q].phase = "count", ![q].seen = rate[request[q].actor]]
    <3>1. [request[q] EXCEPT !.phase = "count", !.seen = rate[request[q].actor]] \in Handler
      BY <1>0, <2>1 DEF Handler, HandlerPhases
    <3>2. request' = [request EXCEPT ![q] =
                        [request[q] EXCEPT !.phase = "count", !.seen = rate[request[q].actor]]]
      BY <2>3, <1>0
    <3>3. request' \in [Requests -> Handler]
      BY <3>1, <3>2, <1>0
    <3>4. overlap' \subseteq Actors
      BY <1>2, <2>1 DEF RateRead
    <3>. QED
      BY <1>2, <3>3, <3>4 DEF RateRead
  <2>. QED
    BY <1>2, <2>2, <2>3 DEF RateRead
<1>3. ASSUME NEW q \in Requests, RateWrite(q)
      PROVE  CommunityTypeOK'
  <2>1. request[q].actor \in Actors /\ request[q].seen \in Counters /\ request[q].kind \in Kinds
    BY <1>3, <1>0 DEF RateWrite, Aimed, Handler
  <2>2. Counted(request[q].seen, request[q].kind) \in Counters
    BY <2>1 DEF Counted, Counters
  <2>3. rate' \in [Actors -> Counters]
    BY <1>3, <1>0, <2>1, <2>2 DEF RateWrite
  <2>4. [spent[request[q].actor] EXCEPT ![request[q].kind] = @ + 1] \in Counters
    BY <1>0, <2>1 DEF Counters
  <2>5. spent' \in [Actors -> Counters]
    BY <1>3, <1>0, <2>1, <2>4 DEF RateWrite
  <2>6. request' \in [Requests -> Handler]
    BY <1>3, GoesTyped DEF RateWrite, HandlerPhases
  <2>. QED
    BY <1>3, <2>3, <2>5, <2>6 DEF RateWrite
<1>4. CASE NewWindow
  <2>1. \A q \in Requests : [request[q] EXCEPT !.fresh = FALSE] \in Handler
    BY <1>0 DEF Handler
  <2>2. request' \in [Requests -> Handler]
    BY <1>4, <1>0, <2>1 DEF NewWindow
  <2>. QED
    BY <1>4, <1>0, <2>2 DEF NewWindow
<1>5. ASSUME NEW q \in Requests, Check(q)
      PROVE  CommunityTypeOK'
  <2>1. request' \in [Requests -> Handler]
    BY <1>5, GoesTyped DEF Check, HandlerPhases
  <2>. QED
    BY <1>5, <2>1 DEF Check
<1>6. ASSUME NEW q \in Requests, CreateComment(q)
      PROVE  CommunityTypeOK'
  <2>1. NewId \in Comments
    BY <1>6 DEF CreateComment, Free, NewId
  <2>2. request[q] \in Handler
    BY <1>0
  <2>3. PICK status \in {"published", "pending"} :
          comment' = [comment EXCEPT ![NewId] =
            [status |-> status, issue |-> request[q].issue, parent |-> request[q].target,
             reports |-> 0]]
    BY <1>6 DEF CreateComment
  <2>4. [status |-> status, issue |-> request[q].issue, parent |-> request[q].target,
         reports |-> 0] \in CommentRow
    BY <2>2 DEF Handler, CommentRow
  <2>5. comment' \in [Comments -> CommentRow]
    BY <1>0, <2>1, <2>3, <2>4
  <2>6. request' \in [Requests -> Handler]
    BY <1>6, GoesTyped DEF CreateComment, HandlerPhases
  <2>. QED
    BY <1>6, <2>5, <2>6 DEF CreateComment
<1>7. ASSUME NEW q \in Requests, ReportComment(q)
      PROVE  CommunityTypeOK'
  <2>1. request[q].target \in Comments /\ request[q].actor \in Actors
    BY <1>7 DEF ReportComment, Acts, Aimed
  <2>. DEFINE t == request[q].target
  <2>2. comment[t] \in CommentRow
    BY <1>0, <2>1
  <2>3. HiddenBy(comment[t]) \in {"absent", "pending", "published", "hidden"}
    BY <2>2 DEF HiddenBy, CommentRow
  <2>4. [comment[t] EXCEPT !.reports = @ + 1, !.status = HiddenBy(comment[t])] \in CommentRow
    BY <2>2, <2>3, RowKept DEF CommentRow
  <2>5. comment' = comment
          \/ comment' = [comment EXCEPT ![t] =
               [comment[t] EXCEPT !.reports = @ + 1, !.status = HiddenBy(comment[t])]]
    BY <1>7, <1>0, <2>1 DEF ReportComment
  <2>6. comment' \in [Comments -> CommentRow]
    BY <1>0, <2>1, <2>4, <2>5
  <2>7. report' \subseteq ReportRow
    BY <1>7, <2>1 DEF ReportComment, ReportRow
  <2>8. request' \in [Requests -> Handler]
    BY <1>7, GoesTyped DEF ReportComment, HandlerPhases
  <2>. QED
    BY <1>7, <2>6, <2>7, <2>8 DEF ReportComment
<1>8. ASSUME NEW q \in Requests, LookReaction(q)
      PROVE  CommunityTypeOK'
  <2>. DEFINE mine == <<request[q].target, request[q].actor>> \in reaction
  <2>0. mine \in BOOLEAN
    OBVIOUS
  <2>. HIDE DEF mine
  <2>1. [request[q] EXCEPT !.phase = "act", !.mine = mine] \in Handler
    BY <1>0, <2>0 DEF Handler, HandlerPhases
  <2>2. request' = [request EXCEPT ![q] = [request[q] EXCEPT !.phase = "act", !.mine = mine]]
    BY <1>8, <1>0 DEF LookReaction, mine
  <2>3. request' \in [Requests -> Handler]
    BY <1>0, <2>1, <2>2
  <2>. QED
    BY <1>8, <2>3 DEF LookReaction
<1>9. ASSUME NEW q \in Requests, ReactToComment(q)
      PROVE  CommunityTypeOK'
  <2>1. request[q].target \in Comments /\ request[q].actor \in Actors
    BY <1>9 DEF ReactToComment, Acts, Aimed
  <2>2. reaction' \subseteq ReactionRow
    BY <1>9, <2>1 DEF ReactToComment, ReactionRow
  <2>3. request' \in [Requests -> Handler]
    BY <1>9, GoesTyped DEF ReactToComment, HandlerPhases
  <2>. QED
    BY <1>9, <2>2, <2>3 DEF ReactToComment
<1>10. CASE SetStatus
  <2>1. PICK c \in Comments, status \in {"published", "hidden"} :
          comment' = [comment EXCEPT ![c].status = status]
    BY <1>10 DEF SetStatus
  <2>2. [comment[c] EXCEPT !.status = status] \in CommentRow
    BY <1>0 DEF CommentRow
  <2>3. comment' = [comment EXCEPT ![c] = [comment[c] EXCEPT !.status = status]]
    BY <1>0, <2>1
  <2>4. comment' \in [Comments -> CommentRow]
    BY <1>0, <2>2, <2>3
  <2>. QED
    BY <1>10, <2>4 DEF SetStatus
<1>11. CASE UNCHANGED communityVars
  BY <1>11 DEF communityVars
<1>. QED
  BY <1>1, <1>2, <1>3, <1>4, <1>5, <1>6, <1>7, <1>8, <1>9, <1>10, <1>11
     DEF CommunityNext, Handle

----------------------------------------------------------------------------
(* Comments and their reports *)

\* Nothing makes a comment disappear.
LEMMA CommentsStay ==
  ASSUME CommunityTypeOK, [CommunityNext]_communityVars,
         NEW c \in Comments, comment[c].status # "absent"
  PROVE  comment'[c].status # "absent"
<1>0. comment \in [Comments -> CommentRow]
  BY DEF CommunityTypeOK
<1>1. ASSUME NEW q \in Requests, CreateComment(q)
      PROVE  comment'[c].status # "absent"
  <2>1. NewId # c
    BY <1>1 DEF CreateComment, NewId, Free
  <2>. QED
    BY <1>0, <1>1, <2>1 DEF CreateComment
<1>2. ASSUME NEW q \in Requests, ReportComment(q)
      PROVE  comment'[c].status # "absent"
  BY <1>0, <1>2 DEF ReportComment, HiddenBy, CommentRow
<1>3. CASE SetStatus
  <2>1. PICK d \in Comments, status \in {"published", "hidden"} :
          comment' = [comment EXCEPT ![d].status = status]
    BY <1>3 DEF SetStatus
  <2>. QED
    BY <1>0, <2>1 DEF CommentRow
<1>4. ASSUME UNCHANGED comment
      PROVE  comment'[c].status # "absent"
  BY <1>4
<1>. QED
  BY <1>1, <1>2, <1>3, <1>4 DEF CommunityNext, Handle, Receive, RateRead, RateWrite, NewWindow,
     Check, LookReaction, ReactToComment, communityVars

\* A request that acts on a comment keeps aiming at one that is there.
LEMMA AimedStep ==
  ASSUME CommunityTypeOK, Aimed, [CommunityNext]_communityVars
  PROVE  Aimed'
<1>0. request \in [Requests -> Handler]
  BY DEF CommunityTypeOK
<1>. SUFFICES ASSUME NEW p \in Requests
     PROVE  /\ request'[p].phase # "idle" =>
                 /\ request'[p].actor \in Actors
                 /\ request'[p].kind # "comment" => request'[p].target \in Comments
            /\ request'[p].phase = "look" => request'[p].kind = "reaction"
            /\ Acts(p, "report")' => comment'[request'[p].target].status # "absent"
  BY DEF Aimed
<1>1. CASE request'[p] = request[p]
  BY <1>1, CommentsStay DEF Aimed, Acts
<1>2. ASSUME NEW q \in Requests, Receive(q)
      PROVE  p = q => /\ request'[p].actor \in Actors
                      /\ request'[p].kind # "comment" => request'[p].target \in Comments
                      /\ request'[p].phase = "limit"
  <2>1. PICK a \in Actors, k \in Kinds, i \in Issues \cup {Nobody}, t \in Comments \cup {Nobody} :
          /\ k = "comment" => i # Nobody
          /\ k # "comment" => i = Nobody /\ t # Nobody
          /\ request' = [request EXCEPT ![q].phase = "limit", ![q].kind = k, ![q].actor = a,
                                        ![q].target = t, ![q].issue = i]
    BY <1>2, Zenon DEF Receive
  <2>. QED
    BY <1>0, <2>1 DEF Acts, Handler
<1>3. ASSUME NEW q \in Requests, RateRead(q) \/ RateWrite(q) \/ LookReaction(q)
      PROVE  p = q => \/ request'[p].phase = "idle"
                      \/ /\ request[p].phase # "idle"
                         /\ request'[p].actor = request[p].actor
                         /\ request'[p].kind = request[p].kind
                         /\ request'[p].target = request[p].target
                         /\ request'[p].phase = "act" => request[p].kind = "reaction"
                         /\ request'[p].phase # "look"
  <2>1. CASE LookReaction(q)
    BY <1>0, <2>1 DEF LookReaction, Handler, Aimed
  <2>2. CASE RateRead(q) \/ RateWrite(q)
    BY <1>0, <2>2 DEF RateRead, RateWrite, Goes, Answered, NoRequest, Handler
  <2>. QED
    BY <1>3, <2>1, <2>2
<1>4. ASSUME NEW q \in Requests, Check(q)
      PROVE  p = q => \/ request'[p].phase = "idle"
                      \/ /\ request[p].phase # "idle"
                         /\ request'[p].actor = request[p].actor
                         /\ request'[p].kind = request[p].kind
                         /\ request'[p].target = request[p].target
                         /\ request'[p].phase = "look" => request[p].kind = "reaction"
                         /\ request[p].kind = "report" =>
                              comment[request[p].target].status # "absent"
  <2>1. CASE Found(q) /\ Goes(q, IF request[q].kind = "reaction" THEN "look" ELSE "act")
    BY <1>0, <1>4, <2>1 DEF Check, Goes, Found, Handler
  <2>2. CASE Answered(q)
    BY <1>0, <2>2 DEF Answered, NoRequest
  <2>. QED
    BY <1>4, <2>1, <2>2 DEF Check
<1>5. ASSUME NEW q \in Requests, Handle(q) \/ Receive(q)
      PROVE  p # q => request'[p] = request[p]
  BY <1>0, <1>5 DEF Handle, Receive, RateRead, RateWrite, Check, CreateComment, ReportComment,
     LookReaction, ReactToComment, Goes, Answered
<1>6. ASSUME NEW q \in Requests, CreateComment(q) \/ ReportComment(q) \/ ReactToComment(q)
      PROVE  p = q => request'[p].phase = "idle"
  BY <1>0, <1>6 DEF CreateComment, ReportComment, ReactToComment, Answered, NoRequest
<1>7. CASE NewWindow
  <2>1. /\ request'[p].phase = request[p].phase /\ request'[p].kind = request[p].kind
        /\ request'[p].actor = request[p].actor /\ request'[p].target = request[p].target
    BY <1>0, <1>7 DEF NewWindow, Handler
  <2>. QED
    BY <1>7, <2>1 DEF NewWindow, Aimed, Acts
<1>8. ASSUME NEW q \in Requests, p = q, Handle(q) \/ Receive(q)
      PROVE  /\ request'[p].phase # "idle" =>
                 /\ request'[p].actor \in Actors
                 /\ request'[p].kind # "comment" => request'[p].target \in Comments
             /\ request'[p].phase = "look" => request'[p].kind = "reaction"
             /\ Acts(p, "report")' => comment'[request'[p].target].status # "absent"
  <2>1. CASE Receive(q)
    BY <1>8, <1>2, <2>1 DEF Acts
  <2>2. CASE RateRead(q) \/ RateWrite(q) \/ LookReaction(q)
    BY <1>8, <1>3, <2>2 DEF Aimed, Acts
  <2>3. CASE Check(q)
    <3>1. UNCHANGED comment
      BY <2>3 DEF Check
    <3>. QED
      BY <1>8, <1>4, <2>3, <3>1 DEF Aimed, Acts
  <2>4. CASE CreateComment(q) \/ ReportComment(q) \/ ReactToComment(q)
    BY <1>8, <1>6, <2>4 DEF Acts
  <2>. QED
    BY <1>8, <2>1, <2>2, <2>3, <2>4 DEF Handle
<1>. QED
  BY <1>1, <1>5, <1>7, <1>8 DEF CommunityNext, SetStatus, communityVars

\* Every report is counted once.
LEMMA ReportedStep ==
  ASSUME CommunityTypeOK, Aimed, Reported, [CommunityNext]_communityVars
  PROVE  Reported'
<1>0. comment \in [Comments -> CommentRow]
  BY DEF CommunityTypeOK
<1>1. ASSUME NEW q \in Requests, CreateComment(q)
      PROVE  Reported'
  <2>1. NewId \in Comments /\ comment[NewId].status = "absent"
    BY <1>1 DEF CreateComment, NewId, Free
  <2>2. UNCHANGED report /\ comment'[NewId].reports = 0
    BY <1>0, <1>1, <2>1 DEF CreateComment
  <2>3. \A c \in Comments : c # NewId => comment'[c] = comment[c]
    BY <1>0, <1>1 DEF CreateComment
  <2>4. \A c \in Comments : comment'[c].reports = comment[c].reports
    BY <2>1, <2>2, <2>3 DEF Reported
  <2>5. \A c \in Comments : comment'[c].status = "absent" => comment[c].status = "absent"
    BY <2>1, <2>3
  <2>. QED
    BY <2>2, <2>4, <2>5 DEF Reported, Reporters
<1>2. ASSUME NEW q \in Requests, ReportComment(q)
      PROVE  Reported'
  <2>1. PICK t \in Comments, a \in Actors :
          t = request[q].target /\ a = request[q].actor /\ comment[t].status # "absent"
    BY <1>2 DEF ReportComment, Acts, Aimed
  <2>2. CASE UNCHANGED <<comment, report>>
    BY <2>2 DEF Reported, Reporters
  <2>3. CASE ~Repeats(<<t, a>>)
    <3>1. report' = report \cup {<<t, a>>} /\ <<t, a>> \notin report
      BY <1>2, <2>1, <2>3 DEF ReportComment, Repeats
    <3>2. comment' = [comment EXCEPT ![t].reports = @ + 1, ![t].status = HiddenBy(comment[t])]
      BY <1>2, <2>1, <2>3 DEF ReportComment
    <3>3. comment'[t].reports = comment[t].reports + 1
      BY <1>0, <2>1, <3>2 DEF CommentRow
    <3>4. comment'[t].status # "absent"
      BY <1>0, <2>1, <3>2 DEF CommentRow, HiddenBy
    <3>5. \A c \in Comments : c # t => comment'[c] = comment[c] /\ Reporters(c)' = Reporters(c)
      BY <1>0, <2>1, <3>1, <3>2 DEF Reporters
    <3>6. Reporters(t)' = Reporters(t) \cup {a} /\ a \notin Reporters(t)
      BY <2>1, <3>1 DEF Reporters
    <3>7. /\ IsFiniteSet(Reporters(t) \cup {a})
          /\ Cardinality(Reporters(t) \cup {a}) = Cardinality(Reporters(t)) + 1
      BY <2>1, <3>6, FS_AddElement DEF Reported
    <3>8. IsFiniteSet(Reporters(t)') /\ comment'[t].reports = Cardinality(Reporters(t)')
      BY <2>1, <3>3, <3>6, <3>7 DEF Reported
    <3>9. ASSUME NEW c \in Comments
          PROVE  /\ comment'[c].status = "absent" => comment'[c].reports = 0
                 /\ IsFiniteSet(Reporters(c)') /\ comment'[c].reports = Cardinality(Reporters(c)')
      <4>1. CASE c = t
        BY <4>1, <3>4, <3>8
      <4>2. CASE c # t
        BY <4>2, <3>5 DEF Reported
      <4>. QED
        BY <4>1, <4>2
    <3>. QED
      BY <3>9 DEF Reported
  <2>. QED
    BY <1>2, <2>1, <2>2, <2>3 DEF ReportComment
<1>3. CASE SetStatus
  <2>1. PICK d \in Comments \ Free, status \in {"published", "hidden"} :
          comment' = [comment EXCEPT ![d].status = status]
    BY <1>3 DEF SetStatus
  <2>2. \A c \in Comments : /\ comment'[c].reports = comment[c].reports
                            /\ comment'[c].status = "absent" => comment[c].status = "absent"
    BY <1>0, <2>1 DEF CommentRow
  <2>3. UNCHANGED report
    BY <1>3 DEF SetStatus
  <2>. QED
    BY <2>2, <2>3 DEF Reported, Reporters
<1>4. CASE UNCHANGED <<comment, report>>
  BY <1>4 DEF Reported, Reporters
<1>. QED
  BY <1>1, <1>2, <1>3, <1>4 DEF CommunityNext, Handle, Receive, RateRead, RateWrite, NewWindow,
     Check, LookReaction, ReactToComment, communityVars

----------------------------------------------------------------------------
(* The rate limit *)

\* A request of the reader may be counted beside the ones under way.
LEMMA LimitStep ==
  ASSUME CommunityInv, [CommunityNext]_communityVars
  PROVE  (LimitKept /\ SeenCounts /\ Alone)'
<1>0. /\ request \in [Requests -> Handler] /\ rate \in [Actors -> Counters]
      /\ spent \in [Actors -> Counters]
  BY DEF CommunityInv, CommunityTypeOK
<1>1. ASSUME NEW q \in Requests, RateRead(q)
      PROVE  (LimitKept /\ SeenCounts /\ Alone)'
  <2>1. UNCHANGED <<rate, spent>> /\ overlap \subseteq overlap'
    BY <1>1 DEF RateRead
  <2>2. LimitKept'
    BY <2>1 DEF CommunityInv, LimitKept
  <2>3. \A p \in Requests : p # q => request'[p] = request[p]
    BY <1>0, <1>1 DEF RateRead, Answered
  <2>4. PICK a \in Actors : a = request[q].actor
    BY <1>1 DEF RateRead, CommunityInv, Aimed
  <2>5. CASE Answered(q)
    <3>1. request'[q].phase = "idle"
      BY <1>0, <2>5 DEF Answered, NoRequest
    <3>2. SeenCounts'
      BY <2>1, <2>3, <3>1 DEF CommunityInv, SeenCounts
    <3>3. Alone'
      BY <2>1, <2>3, <3>1 DEF CommunityInv, Alone, Counting
    <3>. QED
      BY <2>2, <3>2, <3>3
  <2>6. CASE /\ ~Exhausted(request[q].kind, rate[a][request[q].kind])
             /\ request' = [request EXCEPT ![q].phase = "count", ![q].seen = rate[a]]
             /\ overlap' = IF \E p \in Requests : Counting(p, a) THEN overlap \cup {a}
                           ELSE overlap
    <3>1. /\ request'[q].phase = "count" /\ request'[q].seen = rate[a]
          /\ request'[q].actor = a /\ request'[q].kind = request[q].kind
      BY <1>0, <2>4, <2>6 DEF Handler
    <3>2. \A k \in Kinds : rate[a][k] <= spent[a][k]
      BY DEF CommunityInv, LimitKept
    <3>3. SeenCounts'
      <4>. SUFFICES ASSUME NEW p \in Requests, (request[p].phase = "count" /\ request[p].fresh)'
           PROVE  /\ \A k \in Kinds : request'[p].seen[k] <= spent[request'[p].actor][k]
                  /\ request'[p].actor \notin overlap' =>
                       /\ request'[p].seen = rate[request'[p].actor]
                       /\ ~Exhausted(request'[p].kind, request'[p].seen[request'[p].kind])
        BY <2>1 DEF SeenCounts
      <4>1. CASE p = q
        BY <2>6, <3>1, <3>2, <4>1
      <4>2. CASE p # q
        BY <2>1, <2>3, <4>2 DEF CommunityInv, SeenCounts
      <4>. QED
        BY <4>1, <4>2
    <3>4. ASSUME NEW p \in Requests, NEW r \in Requests, NEW b \in Actors,
                 Counting(p, b)', Counting(r, b)', b \notin overlap'
          PROVE  p = r
      <4>1. CASE p # q /\ r # q
        BY <2>1, <2>3, <3>4, <4>1 DEF CommunityInv, Alone, Counting
      <4>2. CASE p = q /\ r # q
        <5>1. b = a /\ Counting(r, a)
          BY <2>3, <3>1, <3>4, <4>2 DEF Counting
        <5>. QED
          BY <2>6, <3>4, <5>1
      <4>3. CASE p # q /\ r = q
        <5>1. b = a /\ Counting(p, a)
          BY <2>3, <3>1, <3>4, <4>3 DEF Counting
        <5>. QED
          BY <2>6, <3>4, <5>1
      <4>. QED
        BY <4>1, <4>2, <4>3
    <3>5. Alone'
      BY <3>4 DEF Alone
    <3>. QED
      BY <2>2, <3>3, <3>5
  <2>. QED
    BY <1>1, <2>4, <2>5, <2>6 DEF RateRead
<1>2. ASSUME NEW q \in Requests, RateWrite(q)
      PROVE  (LimitKept /\ SeenCounts /\ Alone)'
  <2>1. PICK a \in Actors, k \in Kinds, seen \in Counters :
          a = request[q].actor /\ k = request[q].kind /\ seen = request[q].seen
    BY <1>0, <1>2 DEF RateWrite, CommunityInv, Aimed, Handler
  <2>2. request'[q].phase = "check"
    BY <1>0, <1>2 DEF RateWrite, Goes, Handler
  <2>3. \A p \in Requests : p # q => request'[p] = request[p]
    BY <1>0, <1>2 DEF RateWrite, Goes
  <2>4. UNCHANGED overlap
    BY <1>2 DEF RateWrite
  <2>5. Alone'
    BY <2>2, <2>3, <2>4 DEF CommunityInv, Alone, Counting
  <2>6. CASE ~request[q].fresh
    <3>1. UNCHANGED <<rate, spent>>
      BY <1>2, <2>6 DEF RateWrite
    <3>2. LimitKept' /\ SeenCounts'
      BY <2>2, <2>3, <2>4, <3>1 DEF CommunityInv, LimitKept, SeenCounts
    <3>. QED
      BY <2>5, <3>2
  <2>7. CASE request[q].fresh
    <3>1. /\ rate' = [rate EXCEPT ![a] = [seen EXCEPT ![k] = @ + 1]]
          /\ spent' = [spent EXCEPT ![a][k] = @ + 1]
      BY <1>2, <2>1, <2>7 DEF RateWrite, Counted
    <3>2. /\ \A j \in Kinds : seen[j] <= spent[a][j]
          /\ a \notin overlap => seen = rate[a] /\ seen[k] < LimitOf[k]
      <4>1. request[q].phase = "count"
        BY <1>2 DEF RateWrite
      <4>2. seen[k] \in Nat /\ LimitOf[k] \in Nat
        BY <2>1, CommunityAssumption DEF Counters
      <4>. QED
        BY <2>1, <2>7, <4>1, <4>2 DEF CommunityInv, SeenCounts, Exhausted
    <3>3. /\ rate'[a][k] = seen[k] + 1 /\ spent'[a][k] = spent[a][k] + 1
          /\ \A j \in Kinds \ {k} : rate'[a][j] = seen[j] /\ spent'[a][j] = spent[a][j]
          /\ \A b \in Actors \ {a} : rate'[b] = rate[b] /\ spent'[b] = spent[b]
      BY <1>0, <2>1, <3>1 DEF Counters
    <3>4. ASSUME NEW b \in Actors, NEW j \in Kinds
          PROVE  /\ rate'[b][j] <= spent'[b][j]
                 /\ b \notin overlap => rate'[b][j] = spent'[b][j] /\ spent'[b][j] <= LimitOf[j]
      <4>0. /\ spent[b][j] \in Nat /\ rate[b][j] \in Nat /\ seen[j] \in Nat /\ LimitOf[j] \in Nat
        BY <1>0, <2>1, CommunityAssumption DEF Counters
      <4>1. /\ rate[b][j] <= spent[b][j]
            /\ b \notin overlap => rate[b][j] = spent[b][j] /\ spent[b][j] <= LimitOf[j]
        BY DEF CommunityInv, LimitKept
      <4>2. CASE b # a
        BY <3>3, <4>1, <4>2
      <4>3. CASE b = a /\ j # k
        BY <3>2, <3>3, <4>0, <4>1, <4>3
      <4>4. CASE b = a /\ j = k
        BY <3>2, <3>3, <4>0, <4>1, <4>4
      <4>. QED
        BY <4>2, <4>3, <4>4
    <3>5. LimitKept'
      BY <2>4, <3>4 DEF LimitKept
    <3>6. \A b \in Actors, j \in Kinds : spent[b][j] <= spent'[b][j]
      BY <1>0, <3>3 DEF Counters
    <3>7. ASSUME NEW p \in Requests, (request[p].phase = "count" /\ request[p].fresh)'
          PROVE  /\ \A j \in Kinds : request'[p].seen[j] <= spent'[request'[p].actor][j]
                 /\ request'[p].actor \notin overlap' =>
                      /\ request'[p].seen = rate'[request'[p].actor]
                      /\ ~Exhausted(request'[p].kind, request'[p].seen[request'[p].kind])
      <4>1. p # q /\ request'[p] = request[p]
        BY <2>2, <2>3, <3>7
      <4>2. PICK b \in Actors : b = request[p].actor
        BY <3>7, <4>1 DEF CommunityInv, Aimed
      <4>3. /\ \A j \in Kinds : request[p].seen[j] <= spent[b][j]
            /\ b \notin overlap =>
                 /\ request[p].seen = rate[b]
                 /\ ~Exhausted(request[p].kind, request[p].seen[request[p].kind])
        BY <3>7, <4>1, <4>2 DEF CommunityInv, SeenCounts
      <4>4. request[p].seen \in Counters
        BY <1>0 DEF Handler
      <4>5. \A j \in Kinds : request[p].seen[j] <= spent'[b][j]
        <5>. SUFFICES ASSUME NEW j \in Kinds
             PROVE  request[p].seen[j] <= spent'[b][j]
          OBVIOUS
        <5>1. /\ request[p].seen[j] \in Nat /\ spent[b][j] \in Nat
              /\ spent'[b][j] = spent[b][j] \/ spent'[b][j] = spent[b][j] + 1
          BY <1>0, <3>3, <4>4 DEF Counters
        <5>. QED
          BY <4>3, <5>1
      <4>6. b \notin overlap => b # a
        BY <1>2, <2>1, <2>7, <3>7, <4>1, <4>2 DEF CommunityInv, Alone, Counting, RateWrite
      <4>7. b # a => rate'[b] = rate[b]
        BY <3>3
      <4>. QED
        BY <2>4, <4>1, <4>2, <4>3, <4>5, <4>6, <4>7
    <3>8. SeenCounts'
      BY <3>7 DEF SeenCounts
    <3>. QED
      BY <2>5, <3>5, <3>8
  <2>. QED
    BY <2>6, <2>7
<1>3. CASE NewWindow
  <2>1. \A p \in Requests : request'[p].phase = "count" => request'[p].fresh = FALSE
    BY <1>0, <1>3 DEF NewWindow, Handler
  <2>2. SeenCounts' /\ Alone'
    BY <2>1 DEF SeenCounts, Alone, Counting
  <2>3. \A a \in Actors, k \in Kinds : rate'[a][k] = 0 /\ spent'[a][k] = 0 /\ LimitOf[k] \in Nat
    BY <1>3, CommunityAssumption DEF NewWindow, Zero
  <2>4. LimitKept'
    BY <2>3 DEF LimitKept
  <2>. QED
    BY <2>2, <2>4
<1>4. ASSUME UNCHANGED <<rate, spent, overlap>>,
             \A p \in Requests : request'[p] = request[p] \/ request'[p].phase # "count"
      PROVE  (LimitKept /\ SeenCounts /\ Alone)'
  BY <1>4 DEF CommunityInv, LimitKept, SeenCounts, Alone, Counting
<1>5. ASSUME NEW q \in Requests,
             \/ Receive(q) \/ Check(q) \/ CreateComment(q) \/ ReportComment(q)
             \/ LookReaction(q) \/ ReactToComment(q)
      PROVE  /\ UNCHANGED <<rate, spent, overlap>>
             /\ \A p \in Requests : request'[p] = request[p] \/ request'[p].phase # "count"
  <2>1. UNCHANGED <<rate, spent, overlap>>
    BY <1>5 DEF Receive, Check, CreateComment, ReportComment, LookReaction, ReactToComment,
       communityHistory
  <2>2. ASSUME NEW p \in Requests, p # q
        PROVE  request'[p] = request[p]
    BY <1>0, <1>5, <2>2 DEF Receive, Check, CreateComment, ReportComment, LookReaction,
       ReactToComment, Goes, Answered
  <2>3. request'[q].phase # "count"
    <3>1. CASE Receive(q)
      <4>1. PICK a \in Actors, k \in Kinds, i \in Issues \cup {Nobody}, t \in Comments \cup {Nobody} :
              request' = [request EXCEPT ![q].phase = "limit", ![q].kind = k, ![q].actor = a,
                                         ![q].target = t, ![q].issue = i]
        BY <3>1 DEF Receive
      <4>. QED
        BY <1>0, <4>1 DEF Handler
    <3>2. CASE Check(q) \/ LookReaction(q)
      BY <1>0, <3>2 DEF Check, LookReaction, Goes, Answered, NoRequest, Handler
    <3>3. CASE CreateComment(q) \/ ReportComment(q) \/ ReactToComment(q)
      BY <1>0, <3>3 DEF CreateComment, ReportComment, ReactToComment, Answered, NoRequest
    <3>. QED
      BY <1>5, <3>1, <3>2, <3>3
  <2>. QED
    BY <2>1, <2>2, <2>3
<1>6. CASE SetStatus \/ UNCHANGED communityVars
  BY <1>4, <1>6 DEF SetStatus, communityVars, communityHistory
<1>. QED
  BY <1>1, <1>2, <1>3, <1>4, <1>5, <1>6 DEF CommunityNext, Handle

----------------------------------------------------------------------------
(* The theorems *)

\* It holds at first, with or without comments already there.
LEMMA InitHolds ==
  ASSUME CommunityInit
  PROVE  CommunityInv
<1>1. Zero \in Counters /\ \A k \in Kinds : Zero[k] = 0 /\ LimitOf[k] \in Nat
  BY CommunityAssumption DEF Zero, Counters
<1>2. \A c \in DOMAIN Posted : PostedComment(c) \in CommentRow
  BY CommunityAssumption DEF PostedComment, CommentRow
<1>3. NoComment \in CommentRow
  BY DEF NoComment, CommentRow
<1>4. comment \in [Comments -> CommentRow]
  BY <1>2, <1>3 DEF CommunityInit
<1>5. request \in [Requests -> Handler] /\ \A q \in Requests : request[q].phase = "idle"
  BY NoRequestTyped DEF CommunityInit, NoRequest
<1>6. CommunityTypeOK
  BY <1>1, <1>4, <1>5, CommunityAssumption DEF CommunityInit, CommunityTypeOK
<1>7. \A c \in Comments : comment[c].reports = 0 /\ Reporters(c) = {}
  BY DEF CommunityInit, PostedComment, NoComment, Reporters
<1>8. Reported
  BY <1>7, FS_EmptySet DEF Reported
<1>9. Aimed /\ SeenCounts /\ Alone
  BY <1>5 DEF Aimed, Acts, SeenCounts, Alone, Counting
<1>10. LimitKept
  BY <1>1 DEF CommunityInit, LimitKept
<1>. QED
  BY <1>6, <1>8, <1>9, <1>10 DEF CommunityInv

\* No step loses it.
LEMMA InvHolds == CommunitySpec => []CommunityInv
<1>1. CommunityInit => CommunityInv
  BY InitHolds
<1>2. CommunityInv /\ [CommunityNext]_communityVars => CommunityInv'
  BY TypeStep, AimedStep, ReportedStep, LimitStep DEF CommunityInv
<1>. QED
  BY <1>1, <1>2, PTL DEF CommunitySpec

\* The tables and the handlers keep their types.
THEOREM CommunityTypeCorrect == CommunitySpec => []CommunityTypeOK
BY InvHolds, PTL DEF CommunityInv

\* A comment's count is the number of its reporters, however many there are.
THEOREM ReportsCorrect == CommunitySpec => []ReportsCounted
<1>1. CommunityInv => ReportsCounted
  BY DEF CommunityInv, Reported, ReportsCounted, Reporters
<1>. QED
  BY <1>1, InvHolds, PTL

\* A reader whose requests do not overlap stays within the limit, and no other's counts.
THEOREM LimitCorrect == CommunitySpec => []LimitKept
BY InvHolds, PTL DEF CommunityInv

\* A reader's request never shows a hidden comment, and enough of them hide it.
THEOREM HiddenCorrect == CommunitySpec => ReadersHide
<1>. DEFINE Hides == (\E q \in Requests : request'[q] # request[q]) =>
       \A c \in Comments :
         /\ comment[c].status = "hidden" => comment'[c].status = "hidden"
         /\ comment'[c].reports # comment[c].reports /\ comment'[c].reports >= HideAt
              => comment'[c].status = "hidden"
<1>1. ASSUME CommunityInv, [CommunityNext]_communityVars
      PROVE  [Hides]_communityVars
  <2>0. comment \in [Comments -> CommentRow]
    BY <1>1 DEF CommunityInv, CommunityTypeOK
  <2>1. ASSUME NEW q \in Requests, CreateComment(q), NEW c \in Comments
        PROVE  /\ comment[c].status = "hidden" => comment'[c].status = "hidden"
               /\ comment'[c].reports = comment[c].reports
    <3>1. NewId \in Comments /\ comment[NewId].status = "absent"
      BY <2>1 DEF CreateComment, NewId, Free
    <3>2. comment[NewId].reports = 0
      BY <1>1, <3>1 DEF CommunityInv, Reported
    <3>3. comment'[NewId].reports = 0
      BY <2>0, <2>1, <3>1 DEF CreateComment
    <3>4. c # NewId => comment'[c] = comment[c]
      BY <2>0, <2>1 DEF CreateComment
    <3>. QED
      BY <3>1, <3>2, <3>3, <3>4
  <2>2. ASSUME NEW q \in Requests, ReportComment(q), NEW c \in Comments
        PROVE  /\ comment[c].status = "hidden" => comment'[c].status = "hidden"
               /\ comment'[c].reports # comment[c].reports /\ comment'[c].reports >= HideAt
                    => comment'[c].status = "hidden"
    <3>1. CASE comment' = comment
      BY <3>1
    <3>2. CASE comment' = [comment EXCEPT ![request[q].target].reports = @ + 1,
                                  ![request[q].target].status = HiddenBy(comment[request[q].target])]
      BY <2>0, <3>2 DEF HiddenBy, CommentRow
    <3>. QED
      BY <2>2, <3>1, <3>2 DEF ReportComment
  <2>3. CASE UNCHANGED comment \/ UNCHANGED request
    BY <2>3
  <2>. QED
    BY <1>1, <2>1, <2>2, <2>3 DEF CommunityNext, Handle, Receive, RateRead, RateWrite, NewWindow,
       Check, LookReaction, ReactToComment, SetStatus, communityVars
<1>2. CommunityInv /\ [CommunityNext]_communityVars => [Hides]_communityVars
  BY <1>1
<1>. QED
  BY <1>2, InvHolds, PTL DEF CommunitySpec, ReadersHide

----------------------------------------------------------------------------
(* The community page *)

\* A text the tables have taken is held there until the composer learns of it.
ComposerHeld ==
  /\ composer \in [state : {"idle", "posting", "committed"}, text : Texts \cup {NoParent},
                   parent : Posts \cup {NoParent}]
  /\ composer.state # "idle" => composer.text \in Texts
  /\ composer.state = "committed" => Own \in held

FeedInv ==
  /\ FeedTypeOK
  /\ stored \in [posts : SUBSET Texts, replies : SUBSET (Posts \X Texts)]
  /\ ComposerHeld /\ PostKept

\* What the page shows in either mode are posts.
LEMMA FeedPosts ==
  /\ FeedInv => ServerPosts \subseteq Posts
  /\ \A kept \in [posts : SUBSET Texts, replies : SUBSET (Posts \X Texts)] :
       /\ LocalPosts(kept) \subseteq Posts
       /\ LocalPosts(kept) \ Demos \subseteq Posts
BY DEF FeedInv, FeedTypeOK, ServerPosts, OwnPosts, LocalPosts, OnServer, InBrowser, Posts

\* What this browser means to store holds all it had, and a post it is given.
LEMMA FeedKept ==
  ASSUME NEW kept \in [posts : SUBSET Texts, replies : SUBSET (Posts \X Texts)],
         NEW parent \in Posts \cup {NoParent}, NEW words \in Texts
  PROVE  LET new == Kept(kept, parent, words)
         IN  /\ new \in [posts : SUBSET Texts, replies : SUBSET (Posts \X Texts)]
             /\ kept.posts \subseteq new.posts /\ kept.replies \subseteq new.replies
             /\ parent = NoParent => words \in new.posts
<1>1. CASE parent = NoParent
  BY <1>1 DEF Kept, AppendLocal
<1>2. CASE parent # NoParent
  <2>1. /\ Kept(kept, parent, words) = AttachReply(kept, parent, words) /\ parent \in Posts
    BY <1>2 DEF Kept
  <2>2. CASE parent \in LocalPosts(kept) \ Demos
    BY <1>2, <2>1, <2>2 DEF AttachReply
  <2>3. CASE parent \notin LocalPosts(kept) \ Demos
    BY <1>2, <2>1, <2>3 DEF AttachReply
  <2>. QED
    BY <2>2, <2>3
<1>. QED
  BY <1>1, <1>2

\* What the browser reads is of the right kind, and is shown as posts.
LEMMA FeedRead ==
  ASSUME FeedInv
  PROVE  \A read \in ReadHere : LocalPosts(read) \subseteq Posts
<1>1. stored \in [posts : SUBSET Texts, replies : SUBSET (Posts \X Texts)]
  BY DEF FeedInv
<1>2. NoPosts \in [posts : SUBSET Texts, replies : SUBSET (Posts \X Texts)]
  BY DEF NoPosts
<1>. QED
  BY <1>1, <1>2, FeedPosts DEF ReadHere

\* What should be kept after a store is kept then, or was dropped by the browser.
LEMMA FeedStore ==
  ASSUME FeedInv, NEW kept \in [posts : SUBSET Texts, replies : SUBSET (Posts \X Texts)],
         NEW due \in [posts : SUBSET Texts, replies : SUBSET (Posts \X Texts)],
         Store(kept, due), held' = held,
         stored.posts \subseteq due.posts, stored.replies \subseteq due.replies
  PROVE  /\ stored' \in [posts : SUBSET Texts, replies : SUBSET (Posts \X Texts)]
         /\ stored'.posts \subseteq Texts /\ stored'.replies \subseteq Posts \X Texts
         /\ dropped' \subseteq (Posts \cup {NoParent}) \X Texts
         /\ \A w \in (Posts \cup {NoParent}) \X Texts :
              w \in Contents(due) \/ IsKept(w) \/ w \in dropped
                => IsKept(w)' \/ w \in dropped'
<1>1. stored' = kept \/ stored' = stored
  BY DEF Store
<1>2. stored' \in [posts : SUBSET Texts, replies : SUBSET (Posts \X Texts)]
  BY <1>1 DEF FeedInv
<1>3. dropped' = dropped \cup (Contents(due) \ Contents(stored'))
  BY DEF Store
<1>4. Contents(due) \subseteq (Posts \cup {NoParent}) \X Texts
  BY DEF Contents
<1>5. dropped' \subseteq (Posts \cup {NoParent}) \X Texts
  BY <1>3, <1>4 DEF FeedInv, FeedTypeOK
<1>6. ASSUME NEW w \in (Posts \cup {NoParent}) \X Texts, w \in Contents(due)
      PROVE  IsKept(w)' \/ w \in dropped'
  <2>1. w \in Contents(stored') \/ w \in dropped'
    BY <1>3, <1>6
  <2>2. ASSUME w \in Contents(stored') PROVE IsKept(w)'
    <3>1. CASE w \in stored'.replies
      BY <3>1 DEF IsKept
    <3>2. CASE w \notin stored'.replies
      <4>1. PICK t \in stored'.posts : w = <<NoParent, t>>
        BY <2>2, <3>2 DEF Contents
      <4>. QED
        BY <4>1 DEF IsKept
    <3>. QED
      BY <3>1, <3>2
  <2>. QED
    BY <2>1, <2>2
<1>7. ASSUME NEW w \in (Posts \cup {NoParent}) \X Texts, IsKept(w) \/ w \in dropped
      PROVE  IsKept(w)' \/ w \in dropped'
  <2>1. CASE w \in held \/ w \in dropped
    BY <1>3, <2>1 DEF IsKept
  <2>2. CASE w \in stored.replies
    BY <1>6, <2>2 DEF Contents
  <2>3. CASE w[1] = NoParent /\ w[2] \in stored.posts
    <3>1. w = <<NoParent, w[2]>> /\ w[2] \in due.posts
      BY <2>3
    <3>2. w \in Contents(due)
      BY <3>1 DEF Contents
    <3>. QED
      BY <1>6, <3>2
  <2>. QED
    BY <1>7, <2>1, <2>2, <2>3 DEF IsKept
<1>. QED
  BY <1>2, <1>5, <1>6, <1>7

\* A text the page is to keep here keeps every post that was kept.
LEMMA FeedKeepHere ==
  ASSUME FeedInv, NEW parent \in Posts \cup {NoParent}, NEW words \in Texts,
         KeepHere(parent, words), held' = held
  PROVE  /\ stored' \in [posts : SUBSET Texts, replies : SUBSET (Posts \X Texts)]
         /\ stored'.posts \subseteq Texts /\ stored'.replies \subseteq Posts \X Texts
         /\ shown' \subseteq Posts /\ added' \subseteq Demos \X Texts
         /\ written' \subseteq (Posts \cup {NoParent}) \X Texts
         /\ dropped' \subseteq (Posts \cup {NoParent}) \X Texts
         /\ PostKept'
<1>1. PICK read \in ReadHere :
        /\ Store(Kept(read, parent, words), Kept(stored, parent, words))
        /\ shown' = LocalPosts(Kept(read, parent, words))
        /\ added' = IF mode = "local" /\ parent \in Demos THEN {<<parent, words>>} ELSE {}
        /\ written' = written \cup {<<parent, words>>}
  BY DEF KeepHere
<1>2. stored \in [posts : SUBSET Texts, replies : SUBSET (Posts \X Texts)]
  BY DEF FeedInv
<1>3. read \in [posts : SUBSET Texts, replies : SUBSET (Posts \X Texts)]
  BY <1>2 DEF ReadHere, NoPosts
<1> DEFINE new == Kept(read, parent, words)
           due == Kept(stored, parent, words)
<1>4. /\ new \in [posts : SUBSET Texts, replies : SUBSET (Posts \X Texts)]
      /\ due \in [posts : SUBSET Texts, replies : SUBSET (Posts \X Texts)]
      /\ stored.posts \subseteq due.posts /\ stored.replies \subseteq due.replies
      /\ parent = NoParent => words \in due.posts
  BY <1>2, <1>3, FeedKept
<1>5. Store(new, due) /\ shown' = LocalPosts(new)
  BY <1>1
<1> HIDE DEF new, due
<1>6. /\ stored' \in [posts : SUBSET Texts, replies : SUBSET (Posts \X Texts)]
      /\ stored'.posts \subseteq Texts /\ stored'.replies \subseteq Posts \X Texts
      /\ dropped' \subseteq (Posts \cup {NoParent}) \X Texts
      /\ \A w \in (Posts \cup {NoParent}) \X Texts :
           w \in Contents(due) \/ IsKept(w) \/ w \in dropped
             => IsKept(w)' \/ w \in dropped'
  BY <1>4, <1>5, FeedStore
<1>7. shown' \subseteq Posts
  BY <1>4, <1>5, FeedPosts
<1>8. added' \subseteq Demos \X Texts /\ written' \subseteq (Posts \cup {NoParent}) \X Texts
  BY <1>1 DEF FeedInv, FeedTypeOK
<1>9. parent = NoParent => <<parent, words>> \in Contents(due)
  BY <1>4 DEF Contents
<1>10. ASSUME NEW w \in written', w[1] = NoParent PROVE IsKept(w)' \/ w \in dropped'
  <2>1. w \in (Posts \cup {NoParent}) \X Texts
    BY <1>8
  <2>2. CASE w \in written
    BY <1>6, <1>10, <2>1, <2>2 DEF FeedInv, PostKept
  <2>3. CASE w = <<parent, words>>
    BY <1>6, <1>9, <1>10, <2>1, <2>3
  <2>. QED
    BY <1>1, <2>2, <2>3
<1>11. PostKept'
  BY <1>10 DEF PostKept
<1>. QED
  BY <1>6, <1>7, <1>8, <1>11

\* A store of what was read lets go of no post but what the browser drops.
LEMMA FeedReact ==
  ASSUME FeedInv, React
  PROVE  FeedInv'
<1>1. PICK read \in ReadHere : Store(read, stored)
  BY DEF React
<1>2. stored \in [posts : SUBSET Texts, replies : SUBSET (Posts \X Texts)]
  BY DEF FeedInv
<1>3. read \in [posts : SUBSET Texts, replies : SUBSET (Posts \X Texts)]
  BY <1>2 DEF ReadHere, NoPosts
<1>4. UNCHANGED <<held, mode, shown, added, loads, composer, written>>
  BY DEF React
<1>5. /\ stored' \in [posts : SUBSET Texts, replies : SUBSET (Posts \X Texts)]
      /\ stored'.posts \subseteq Texts /\ stored'.replies \subseteq Posts \X Texts
      /\ dropped' \subseteq (Posts \cup {NoParent}) \X Texts
      /\ \A w \in (Posts \cup {NoParent}) \X Texts :
           IsKept(w) \/ w \in dropped => IsKept(w)' \/ w \in dropped'
  BY <1>1, <1>2, <1>3, <1>4, FeedStore
<1>6. PostKept'
  BY <1>4, <1>5 DEF PostKept, FeedInv, FeedTypeOK
<1>. QED
  BY <1>4, <1>5, <1>6 DEF FeedInv, FeedTypeOK, ComposerHeld, Own

\* The inductive step of the page
LEMMA FeedInvStep == FeedInv /\ [FeedNext]_feedVars => FeedInv'
<1> SUFFICES ASSUME FeedInv, [FeedNext]_feedVars PROVE FeedInv'
  OBVIOUS
<1> USE FeedAssumption
<1>1. CASE LoadAnswered
  <2>1. PICK page \in SUBSET ServerPosts, append \in BOOLEAN :
          shown' = IF append THEN shown \cup page ELSE page
    BY <1>1 DEF LoadAnswered
  <2>2. shown' \subseteq Posts
    BY <2>1, FeedPosts DEF FeedInv, FeedTypeOK
  <2>3. loads' \in 0 .. MaxLoads /\ mode' \in Modes /\ added' \subseteq Demos \X Texts
    BY <1>1 DEF LoadAnswered, FeedInv, FeedTypeOK, Modes
  <2>4. UNCHANGED <<held, stored, composer, written, dropped>>
    BY <1>1 DEF LoadAnswered
  <2>. QED
    BY <2>2, <2>3, <2>4 DEF FeedInv, FeedTypeOK, ComposerHeld, PostKept, IsKept, Own
<1>2. CASE LoadFails
  <2>1. shown' \subseteq Posts
    BY <1>2, FeedPosts, FeedRead DEF LoadFails
  <2>2. loads' \in 0 .. MaxLoads /\ mode' \in Modes /\ added' \subseteq Demos \X Texts
    BY <1>2 DEF LoadFails, FeedInv, FeedTypeOK, Modes
  <2>3. UNCHANGED <<held, stored, composer, written, dropped>>
    BY <1>2 DEF LoadFails
  <2>. QED
    BY <2>1, <2>2, <2>3 DEF FeedInv, FeedTypeOK, ComposerHeld, PostKept, IsKept, Own
<1>3. CASE Refresh
  <2>1. shown' \subseteq Posts /\ added' \subseteq Demos \X Texts
    BY <1>3, FeedPosts, FeedRead DEF Refresh, FeedInv, FeedTypeOK
  <2>2. loads' \in 0 .. MaxLoads
    BY <1>3 DEF Refresh, FeedInv, FeedTypeOK
  <2>3. UNCHANGED <<held, stored, mode, composer, written, dropped>>
    BY <1>3 DEF Refresh
  <2>. QED
    BY <2>1, <2>2, <2>3 DEF FeedInv, FeedTypeOK, ComposerHeld, PostKept, IsKept, Own
<1>4. ASSUME NEW t \in Texts, NEW p \in Posts \cup {NoParent}, Submit(t, p)
      PROVE  FeedInv'
  <2>1. UNCHANGED <<held, mode, loads>> /\ composer.state = "idle"
    BY <1>4 DEF Submit
  <2>2. CASE mode = "local"
    <3>1. KeepHere(p, t) /\ UNCHANGED composer
      BY <1>4, <2>2 DEF Submit
    <3>. QED
      BY <2>1, <3>1, FeedKeepHere DEF FeedInv, FeedTypeOK, ComposerHeld, Own
  <2>3. CASE mode # "local"
    <3>1. /\ composer' = [state |-> "posting", text |-> t, parent |-> p]
          /\ UNCHANGED <<stored, shown, added, written, dropped>>
      BY <1>4, <2>3 DEF Submit
    <3>. QED
      BY <2>1, <3>1 DEF FeedInv, FeedTypeOK, ComposerHeld, PostKept, IsKept
  <2>. QED
    BY <2>2, <2>3
<1>5. CASE Commit
  <2>1. /\ composer.text \in Texts /\ composer.parent \in Posts \cup {NoParent}
        /\ held' = held \cup {<<composer.parent, composer.text>>}
        /\ composer' = [composer EXCEPT !.state = "committed"]
        /\ UNCHANGED <<stored, mode, shown, added, loads, written, dropped>>
    BY <1>5 DEF Commit, Own, FeedInv, ComposerHeld
  <2>2. ComposerHeld'
    BY <2>1 DEF FeedInv, ComposerHeld, Own
  <2>. QED
    BY <2>1, <2>2 DEF FeedInv, FeedTypeOK, PostKept, IsKept
<1>6. CASE SubmitAnswered
  <2>1. /\ composer.text \in Texts /\ composer.parent \in Posts \cup {NoParent}
        /\ written' = written \cup {<<composer.parent, composer.text>>}
        /\ <<composer.parent, composer.text>> \in held
        /\ composer' = NothingSent
        /\ UNCHANGED <<held, stored, mode, shown, added, dropped>>
    BY <1>6 DEF SubmitAnswered, Own, FeedInv, ComposerHeld
  <2>2. loads' \in 0 .. MaxLoads
    BY <1>6 DEF SubmitAnswered, FeedInv, FeedTypeOK
  <2>3. ComposerHeld'
    BY <2>1 DEF ComposerHeld, NothingSent
  <2>. QED
    BY <2>1, <2>2, <2>3 DEF FeedInv, FeedTypeOK, PostKept, IsKept, ComposerHeld
<1>7. CASE SubmitFails
  <2>1. /\ composer.text \in Texts /\ composer.parent \in Posts \cup {NoParent}
        /\ KeepHere(composer.parent, composer.text) /\ mode' = "local"
        /\ composer' = NothingSent /\ UNCHANGED <<held, loads>>
    BY <1>7 DEF SubmitFails, FeedInv, ComposerHeld
  <2>2. ComposerHeld'
    BY <2>1 DEF ComposerHeld, NothingSent
  <2>. QED
    BY <2>1, <2>2, FeedKeepHere DEF FeedInv, FeedTypeOK, ComposerHeld, Modes
<1>8. CASE React
  BY <1>8, FeedReact
<1>9. CASE UNCHANGED feedVars
  BY <1>9 DEF feedVars, FeedInv, FeedTypeOK, ComposerHeld, PostKept, IsKept, Own
<1>. QED
  BY <1>1, <1>2, <1>3, <1>4, <1>5, <1>6, <1>7, <1>8, <1>9 DEF FeedNext

\* The page begins in the invariant.
LEMMA FeedInvInit == FeedInit => FeedInv
BY FeedAssumption
   DEF FeedInit, FeedInv, FeedTypeOK, ComposerHeld, PostKept, NothingSent, Modes

\* A post is not lost between the tables and this browser, whatever fails on the way:
\* every post written on the page is in one of them, unless the browser's own storage
\* dropped it.
THEOREM PostsKept == FeedSpec => []PostKept
<1>1. FeedInv /\ [FeedNext]_feedVars => FeedInv'
  BY FeedInvStep
<1>. QED
  BY <1>1, FeedInvInit, PTL DEF FeedSpec, FeedInv

----------------------------------------------------------------------------
(* The quality review *)

\* A desk at work has an issue, and what it is about to write has been checked.
DeskChecked ==
  \A d \in Desks :
    /\ desk[d].step # "rest" => desk[d].issue \in RunIssues
    /\ desk[d].step \in {"decide", "write"} => desk[d].flags \subseteq ArticlesOf[desk[d].issue]

QualityInv == QualityTypeOK /\ DeskChecked /\ ReviewWhole

\* A closed desk, also one that opens an issue, is a desk.
LEMMA DeskOpened ==
  ASSUME NEW i \in RunIssues
  PROVE  Closed \in Desk /\ [Closed EXCEPT !.step = "open", !.issue = i] \in Desk
<1>1. Closed \in Desk
  BY QualityAssumption DEF Closed, Desk, DeskSteps
<1>2. ASSUME NEW c \in Desk
      PROVE  [c EXCEPT !.step = "open", !.issue = i] \in Desk
  BY DEF Desk, DeskSteps
<1>. QED
  BY <1>1, <1>2

\* Desks one of which changes stay desks, and the others do not change.
LEMMA OneDeskMoves ==
  ASSUME QualityInv, NEW d \in Desks, NEW new \in Desk, desk' = [desk EXCEPT ![d] = new]
  PROVE  /\ desk' \in [Desks -> Desk]
         /\ desk'[d] = new /\ \A e \in Desks : e # d => desk'[e] = desk[e]
BY DEF QualityInv, QualityTypeOK

\* A step of one desk that leaves the reviews alone keeps the invariant if the desk is
\* checked after it.
LEMMA DeskAlone ==
  ASSUME QualityInv, NEW d \in Desks, NEW new \in Desk, desk' = [desk EXCEPT ![d] = new],
         UNCHANGED <<review, raced>>, saves' \in 0 .. Saves,
         new.step # "rest" => new.issue \in RunIssues,
         new.step \in {"decide", "write"} => new.flags \subseteq ArticlesOf[new.issue]
  PROVE  QualityInv'
<1>1. /\ desk' \in [Desks -> Desk]
      /\ desk'[d] = new /\ \A e \in Desks : e # d => desk'[e] = desk[e]
  BY OneDeskMoves
<1>2. QualityTypeOK'
  BY <1>1 DEF QualityInv, QualityTypeOK
<1>3. DeskChecked'
  <2>1. ASSUME NEW e \in Desks
        PROVE  /\ desk'[e].step # "rest" => desk'[e].issue \in RunIssues
               /\ desk'[e].step \in {"decide", "write"} =>
                    desk'[e].flags \subseteq ArticlesOf[desk'[e].issue]
    <3>1. CASE e = d
      BY <1>1, <3>1
    <3>2. CASE e # d
      BY <1>1, <3>2 DEF QualityInv, DeskChecked
    <3>. QED
      BY <3>1, <3>2
  <2>. QED
    BY <2>1 DEF DeskChecked
<1>4. ReviewWhole'
  BY DEF QualityInv, ReviewWhole
<1>. QED
  BY <1>2, <1>3, <1>4 DEF QualityInv

\* A step that moves the desk on, and no more.
LEMMA MovesOn ==
  ASSUME QualityInv, NEW d \in Desks, NEW step \in DeskSteps, Moves(d, step),
         UNCHANGED <<review, raced>>, saves' \in 0 .. Saves,
         desk[d].step # "rest",
         step \in {"decide", "write"} => desk[d].flags \subseteq ArticlesOf[desk[d].issue]
  PROVE  QualityInv'
<1>1. desk[d] \in Desk
  BY DEF QualityInv, QualityTypeOK
<1>2. PICK new \in Desk : new = [desk[d] EXCEPT !.step = step]
  BY <1>1 DEF Desk
<1>3. desk' = [desk EXCEPT ![d] = new]
  BY <1>2 DEF Moves, QualityInv, QualityTypeOK
<1>4. new.step = step /\ new.issue = desk[d].issue /\ new.flags = desk[d].flags
  BY <1>1, <1>2 DEF Desk
<1>5. new.issue \in RunIssues
  BY <1>4 DEF QualityInv, DeskChecked
<1>. QED
  BY <1>3, <1>4, <1>5, DeskAlone

\* No step breaks the types, the check of the articles or a review.
LEMMA QualityStep ==
  ASSUME QualityInv, [QualityNext]_qualityVars
  PROVE  QualityInv'
<1>0. desk \in [Desks -> Desk] /\ review \in [RunIssues -> ReviewRow] /\ saves \in 0 .. Saves
  BY DEF QualityInv, QualityTypeOK
<1>1. ASSUME NEW d \in Desks, OpenIssue(d)
      PROVE  QualityInv'
  <2>1. PICK i \in RunIssues :
          desk' = [desk EXCEPT ![d] = [Closed EXCEPT !.step = "open", !.issue = i]]
    BY <1>1 DEF OpenIssue
  <2>2. PICK new \in Desk : new = [Closed EXCEPT !.step = "open", !.issue = i]
    BY DeskOpened
  <2>3. new.step = "open" /\ new.issue = i
    BY <2>2 DEF Closed
  <2>4. UNCHANGED <<review, raced, saves>>
    BY <1>1 DEF OpenIssue
  <2>. QED
    BY <1>0, <2>1, <2>2, <2>3, <2>4, DeskAlone
<1>2. ASSUME NEW d \in Desks, OpenAnswered(d)
      PROVE  QualityInv'
  <2>1. desk[d].issue \in RunIssues /\ desk[d] \in Desk
    BY <1>0, <1>2 DEF OpenAnswered, QualityInv, DeskChecked
  <2>2. review[desk[d].issue].flags \in SUBSET AllArticles
    BY <1>0, <2>1 DEF ReviewRow
  <2>3. PICK new \in Desk :
          new = [desk[d] EXCEPT !.step = "edit", !.flags = review[desk[d].issue].flags]
    BY <2>1, <2>2 DEF Desk, DeskSteps
  <2>4. desk' = [desk EXCEPT ![d] = new]
    BY <1>0, <1>2, <2>3 DEF OpenAnswered
  <2>5. new.step = "edit" /\ new.issue = desk[d].issue
    BY <2>1, <2>3 DEF Desk
  <2>6. UNCHANGED <<review, raced, saves>>
    BY <1>2 DEF OpenAnswered
  <2>. QED
    BY <1>0, <2>1, <2>4, <2>5, <2>6, DeskAlone
<1>3. ASSUME NEW d \in Desks, OpenFails(d)
      PROVE  QualityInv'
  <2>1. Closed \in Desk /\ Closed.step = "rest"
    BY QualityAssumption DEF Closed, Desk, DeskSteps
  <2>2. desk' = [desk EXCEPT ![d] = Closed] /\ UNCHANGED <<review, raced, saves>>
    BY <1>3 DEF OpenFails
  <2>. QED
    BY <1>0, <2>1, <2>2, DeskAlone
<1>4. ASSUME NEW d \in Desks, Toggle(d)
      PROVE  QualityInv'
  <2>1. desk[d].step = "edit" /\ desk[d].issue \in RunIssues /\ desk[d] \in Desk
    BY <1>0, <1>4 DEF Toggle, QualityInv, DeskChecked
  <2>2. PICK a \in ArticlesOf[desk[d].issue] :
          desk' = [desk EXCEPT ![d].flags = IF a \in @ THEN @ \ {a} ELSE @ \cup {a}]
    BY <1>4 DEF Toggle
  <2>3. a \in AllArticles
    BY <2>1 DEF AllArticles
  <2>4. PICK flags \in SUBSET AllArticles :
          flags = IF a \in desk[d].flags THEN desk[d].flags \ {a} ELSE desk[d].flags \cup {a}
    BY <2>1, <2>3 DEF Desk
  <2>5. PICK new \in Desk : new = [desk[d] EXCEPT !.flags = flags]
    BY <2>1, <2>4 DEF Desk
  <2>6. desk' = [desk EXCEPT ![d] = new]
    BY <1>0, <2>2, <2>4, <2>5
  <2>7. new.step = "edit" /\ new.issue = desk[d].issue
    BY <2>1, <2>5 DEF Desk
  <2>8. UNCHANGED <<review, raced, saves>>
    BY <1>4 DEF Toggle
  <2>. QED
    BY <1>0, <2>1, <2>6, <2>7, <2>8, DeskAlone
<1>5. ASSUME NEW d \in Desks, Save(d)
      PROVE  QualityInv'
  <2>1. desk[d].step = "edit" /\ desk[d].issue \in RunIssues /\ desk[d] \in Desk
    BY <1>0, <1>5 DEF Save, QualityInv, DeskChecked
  <2>2. saves' = saves + 1 /\ saves' \in 0 .. Saves /\ UNCHANGED <<review, raced>>
    BY <1>0, <1>5, QualityAssumption DEF Save
  <2>3. PICK new \in Desk : new = [desk[d] EXCEPT !.step = "check", !.save = saves']
    BY <2>1, <2>2 DEF Desk, DeskSteps
  <2>4. desk' = [desk EXCEPT ![d] = new]
    BY <1>0, <1>5, <2>2, <2>3 DEF Save
  <2>5. new.step = "check" /\ new.issue = desk[d].issue
    BY <2>1, <2>3 DEF Desk
  <2>. QED
    BY <2>1, <2>2, <2>4, <2>5, DeskAlone
<1>6. ASSUME NEW d \in Desks, CheckArticles(d)
      PROVE  QualityInv'
  BY <1>0, <1>6, MovesOn DEF CheckArticles, DeskSteps
<1>7. ASSUME NEW d \in Desks, ReadReviewId(d)
      PROVE  QualityInv'
  <2>1. desk[d].issue \in RunIssues /\ desk[d] \in Desk
        /\ desk[d].flags \subseteq ArticlesOf[desk[d].issue]
    BY <1>0, <1>7 DEF ReadReviewId, QualityInv, DeskChecked
  <2>2. PICK known \in BOOLEAN : known = Reviewed(desk[d].issue)
    BY DEF Reviewed
  <2>3. PICK new \in Desk : new = [desk[d] EXCEPT !.step = "write", !.known = known]
    BY <2>1 DEF Desk, DeskSteps
  <2>4. desk' = [desk EXCEPT ![d] = new]
    BY <1>0, <1>7, <2>2, <2>3 DEF ReadReviewId
  <2>5. new.step = "write" /\ new.issue = desk[d].issue /\ new.flags = desk[d].flags
    BY <2>1, <2>3 DEF Desk
  <2>6. UNCHANGED <<review, raced, saves>>
    BY <1>7 DEF ReadReviewId
  <2>. QED
    BY <1>0, <2>1, <2>4, <2>5, <2>6, DeskAlone
<1>8. ASSUME NEW d \in Desks, WriteReview(d)
      PROVE  QualityInv'
  <2>. DEFINE i == desk[d].issue
  <2>1. desk[d].step = "write" /\ i \in RunIssues /\ desk[d] \in Desk
        /\ desk[d].flags \subseteq ArticlesOf[i]
    BY <1>0, <1>8 DEF WriteReview, QualityInv, DeskChecked
  <2>2. UNCHANGED saves
    BY <1>8 DEF WriteReview
  <2>3. CASE Moves(d, "edit") /\ UNCHANGED <<review, raced>>
    BY <1>0, <2>1, <2>2, <2>3, MovesOn DEF DeskSteps
  <2>4. CASE /\ ~(Late(d) /\ desk[d].flags # {})
             /\ raced' = (IF Late(d) THEN raced \cup {i} ELSE raced)
             /\ review' = [review EXCEPT ![i] = Written(@, d)]
             /\ \/ desk' = [desk EXCEPT ![d] = [Closed EXCEPT !.step = "open", !.issue = i]]
                \/ Moves(d, "edit")
    <3>1. PICK row \in ReviewRow : row = Written(review[i], d)
      <4>1. desk[d].flags \in SUBSET AllArticles /\ desk[d].save \in 0 .. Saves
            /\ review[i].flags \in SUBSET AllArticles
        BY <1>0, <2>1 DEF Desk, ReviewRow
      <4>2. PICK flags \in SUBSET AllArticles, sent \in SUBSET AllArticles, save \in 0 .. Saves :
              /\ flags = IF Late(d) THEN review[i].flags ELSE desk[d].flags
              /\ sent = desk[d].flags /\ save = desk[d].save
        BY <4>1
      <4>3. Written(review[i], d) = [save |-> save, flags |-> flags, sent |-> sent]
        BY <4>2 DEF Written, NewFlags
      <4>. QED
        BY <4>3 DEF ReviewRow
    <3>2. /\ review'[i] = row /\ \A j \in RunIssues : j # i => review'[j] = review[j]
          /\ review' \in [RunIssues -> ReviewRow]
      BY <1>0, <2>1, <2>4, <3>1
    <3>3. raced' \subseteq RunIssues
      BY <2>1, <2>4 DEF QualityInv, QualityTypeOK
    <3>4. PICK new \in Desk :
            /\ desk' = [desk EXCEPT ![d] = new]
            /\ new.step \in {"open", "edit"} /\ new.issue = i
      <4>1. CASE Moves(d, "edit")
        <5>1. PICK new \in Desk : new = [desk[d] EXCEPT !.step = "edit"]
          BY <2>1 DEF Desk, DeskSteps
        <5>2. desk' = [desk EXCEPT ![d] = new] /\ new.step = "edit" /\ new.issue = i
          BY <1>0, <2>1, <4>1, <5>1 DEF Moves, Desk
        <5>. QED
          BY <5>2
      <4>2. CASE desk' = [desk EXCEPT ![d] = [Closed EXCEPT !.step = "open", !.issue = i]]
        <5>1. PICK new \in Desk : new = [Closed EXCEPT !.step = "open", !.issue = i]
          BY <2>1, DeskOpened
        <5>2. new.step = "open" /\ new.issue = i
          BY <5>1 DEF Closed
        <5>. QED
          BY <4>2, <5>1, <5>2
      <4>. QED
        BY <2>4, <4>1, <4>2
    <3>5. /\ desk' \in [Desks -> Desk]
          /\ desk'[d] = new /\ \A e \in Desks : e # d => desk'[e] = desk[e]
      BY <3>4, OneDeskMoves
    <3>6. QualityTypeOK'
      BY <2>2, <3>2, <3>3, <3>5 DEF QualityInv, QualityTypeOK
    <3>7. DeskChecked'
      BY <2>1, <3>4, <3>5 DEF QualityInv, DeskChecked
    <3>8. /\ row.flags \subseteq ArticlesOf[i]
          /\ i \notin raced' => row.flags = row.sent
      <4>1. CASE Late(d)
        BY <2>1, <2>4, <3>1, <4>1 DEF Written, QualityInv, ReviewWhole
      <4>2. CASE ~Late(d)
        BY <2>1, <3>1, <4>2 DEF Written, NewFlags
      <4>. QED
        BY <4>1, <4>2
    <3>9. \A j \in RunIssues : j # i => (j \in raced' <=> j \in raced)
      BY <2>4
    <3>10. ReviewWhole'
      BY <3>2, <3>8, <3>9 DEF QualityInv, ReviewWhole
    <3>. QED
      BY <3>6, <3>7, <3>10 DEF QualityInv
  <2>. QED
    BY <1>8, <2>3, <2>4 DEF WriteReview
<1>9. ASSUME NEW d \in Desks, SaveFails(d)
      PROVE  QualityInv'
  BY <1>0, <1>9, MovesOn DEF SaveFails, DeskSteps
<1>10. CASE UNCHANGED qualityVars
  BY <1>10 DEF qualityVars, QualityInv, QualityTypeOK, DeskChecked, ReviewWhole
<1>. QED
  BY <1>1, <1>2, <1>3, <1>4, <1>5, <1>6, <1>7, <1>8, <1>9, <1>10 DEF QualityNext

\* The invariant of the desks and the reviews.
LEMMA QualityHolds == QualitySpec => []QualityInv
<1>1. QualityInit => QualityInv
  <2>. SUFFICES ASSUME QualityInit
       PROVE  QualityInv
    OBVIOUS
  <2>1. Closed \in Desk /\ NoReview \in ReviewRow
    BY QualityAssumption DEF Closed, Desk, DeskSteps, NoReview, ReviewRow
  <2>2. QualityTypeOK
    BY <2>1, QualityAssumption DEF QualityInit, QualityTypeOK
  <2>3. DeskChecked /\ ReviewWhole
    BY DEF QualityInit, DeskChecked, ReviewWhole, Closed, NoReview
  <2>. QED
    BY <2>2, <2>3 DEF QualityInv
<1>2. QualityInv /\ [QualityNext]_qualityVars => QualityInv'
  BY QualityStep
<1>. QED
  BY <1>1, <1>2, PTL DEF QualitySpec

\* Reviews and desks keep their types.
THEOREM QualityTypeCorrect == QualitySpec => []QualityTypeOK
BY QualityHolds, PTL DEF QualityInv

\* A review's verdicts and flags come from one save, unless two first saves met on it,
\* however many administrators work on however many issues.
THEOREM ReviewsWhole == QualitySpec => []ReviewWhole
BY QualityHolds, PTL DEF QualityInv

----------------------------------------------------------------------------
(* Scheduled operations *)

\* A run at work has a job; one that is about to save has carried its phase out; what it
\* knows of the job is true as long as it holds it.
RunsAgree ==
  \A r \in OpsRuns :
    /\ opsRun[r].step \in {"work", "deliver", "save", "renew", "fail"} => opsRun[r].job \in Minutes
    /\ opsRun[r].step = "deliver" => opsRun[r].phase = 2
    /\ opsRun[r].step = "save" =>
         opsRun[r].phase < 3 /\ opsRun[r].phase + 1 \in performed[opsRun[r].job]
    /\ opsRun[r].job \in Minutes /\ Holds(r) => opsRun[r].phase = job[opsRun[r].job].phase

\* A checkpoint stands for phases carried out, and a job that succeeded has the last one.
JobsPerformed ==
  \A m \in Minutes : /\ 1 .. job[m].phase \subseteq performed[m]
                     /\ job[m].status = "succeeded" => job[m].phase = 3

OperationsInv == OperationsTypeOK /\ RunsAgree /\ JobsPerformed

----------------------------------------------------------------------------
(* Rows *)

\* A job that is taken or let go stays a job at the same checkpoint.
LEMMA JobRows ==
  ASSUME NEW row \in Job, NEW r \in OpsRuns,
         NEW status \in {"absent", "due", "leased", "succeeded", "dead"}
  PROVE  /\ LetGo(row, status) \in Job /\ LetGo(row, status).phase = row.phase
         /\ LetGo(row, status).live = FALSE /\ LetGo(row, status).status = status
         /\ ~SpentUp(row) => /\ TakenBy(row, r, status) \in Job
                             /\ TakenBy(row, r, status).phase = row.phase
                             /\ TakenBy(row, r, status).status = status
                             /\ TakenBy(row, r, status).holder = r
<1>1. /\ LetGo(row, status) \in Job /\ LetGo(row, status).phase = row.phase
      /\ LetGo(row, status).live = FALSE /\ LetGo(row, status).status = status
  BY DEF LetGo, Job
<1>2. ASSUME NEW n \in 0 .. JobAttempts
      PROVE  /\ [row EXCEPT !.status = status, !.holder = r, !.live = TRUE, !.attempts = n] \in Job
             /\ [row EXCEPT !.status = status, !.holder = r, !.live = TRUE, !.attempts = n].phase = row.phase
             /\ [row EXCEPT !.status = status, !.holder = r, !.live = TRUE, !.attempts = n].status = status
             /\ [row EXCEPT !.status = status, !.holder = r, !.live = TRUE, !.attempts = n].holder = r
  BY DEF Job
<1>3. ~SpentUp(row) => row.attempts + 1 \in 0 .. JobAttempts
  BY OperationsAssumption DEF SpentUp, Job
<1>4. TakenBy(row, r, status) =
        [row EXCEPT !.status = status, !.holder = r, !.live = TRUE, !.attempts = row.attempts + 1]
  BY DEF TakenBy
<1>. QED
  BY <1>1, <1>2, <1>3, <1>4

\* Single fields of a job or of a run changed.
LEMMA RowEdits ==
  ASSUME NEW row \in Job, NEW phase \in Checkpoints
  PROVE  /\ [row EXCEPT !.phase = phase] \in Job
         /\ [row EXCEPT !.phase = phase].phase = phase
         /\ [row EXCEPT !.phase = phase].status = row.status
         /\ [row EXCEPT !.phase = phase].holder = row.holder
         /\ [row EXCEPT !.live = FALSE] \in Job
         /\ [row EXCEPT !.live = FALSE].phase = row.phase
         /\ [row EXCEPT !.live = FALSE].status = row.status
         /\ [row EXCEPT !.live = FALSE].live = FALSE
         /\ [row EXCEPT !.status = "due", !.attempts = 0] \in Job
         /\ [row EXCEPT !.status = "due", !.attempts = 0].phase = row.phase
         /\ [row EXCEPT !.status = "due", !.attempts = 0].status = "due"
<1>1. /\ [row EXCEPT !.phase = phase] \in Job
      /\ [row EXCEPT !.phase = phase].phase = phase
      /\ [row EXCEPT !.phase = phase].status = row.status
      /\ [row EXCEPT !.phase = phase].holder = row.holder
  BY DEF Job
<1>2. /\ [row EXCEPT !.live = FALSE] \in Job
      /\ [row EXCEPT !.live = FALSE].phase = row.phase
      /\ [row EXCEPT !.live = FALSE].status = row.status
      /\ [row EXCEPT !.live = FALSE].live = FALSE
  BY DEF Job
<1>3. /\ [row EXCEPT !.status = "due", !.attempts = 0] \in Job
      /\ [row EXCEPT !.status = "due", !.attempts = 0].phase = row.phase
      /\ [row EXCEPT !.status = "due", !.attempts = 0].status = "due"
  <2>1. PICK none \in 0 .. JobAttempts : none = 0
    BY OperationsAssumption
  <2>2. /\ [row EXCEPT !.status = "due", !.attempts = none] \in Job
        /\ [row EXCEPT !.status = "due", !.attempts = none].phase = row.phase
        /\ [row EXCEPT !.status = "due", !.attempts = none].status = "due"
    BY <2>1 DEF Job
  <2>. QED
    BY <2>1, <2>2
<1>. QED
  BY <1>1, <1>2, <1>3

\* A job released after its attempt is due or dead.
LEMMA ReleasedRows ==
  ASSUME NEW row \in Job
  PROVE  /\ ReleasedJob(row) \in Job /\ ReleasedJob(row).phase = row.phase
         /\ ReleasedJob(row).live = FALSE /\ ReleasedJob(row).status \in {"due", "dead"}
<1>1. CASE SpentUp(row)
  BY <1>1, JobRows DEF ReleasedJob, LetGo, Job
<1>2. CASE ~SpentUp(row)
  BY <1>2, JobRows DEF ReleasedJob, LetGo, Job
<1>. QED
  BY <1>1, <1>2

\* An event that is claimed or let go stays an event.
LEMMA EventRows ==
  ASSUME NEW row \in Event, NEW r \in OpsRuns,
         NEW status \in {"pending", "claimed", "delivered", "terminal"}
  PROVE  /\ LetGo(row, status) \in Event
         /\ Unclaimed(row) \in Event
         /\ ~SpentUp(row) => TakenBy(row, r, status) \in Event
<1>1. ASSUME NEW s \in {"pending", "claimed", "delivered", "terminal"}
      PROVE  LetGo(row, s) \in Event
  BY DEF LetGo, Event
<1>2. ASSUME NEW n \in 0 .. JobAttempts
      PROVE  [row EXCEPT !.status = status, !.holder = r, !.live = TRUE, !.attempts = n] \in Event
  BY DEF Event
<1>3. ~SpentUp(row) => row.attempts + 1 \in 0 .. JobAttempts
  BY OperationsAssumption DEF SpentUp, Event
<1>4. TakenBy(row, r, status) =
        [row EXCEPT !.status = status, !.holder = r, !.live = TRUE, !.attempts = row.attempts + 1]
  BY DEF TakenBy
<1>5. Unclaimed(row) \in Event
  BY <1>1 DEF Unclaimed
<1>. QED
  BY <1>1, <1>2, <1>3, <1>4, <1>5

----------------------------------------------------------------------------
(* What a step does to the jobs *)

\* A job keeps its checkpoint and what was carried out for it, and is not taken from a run.
KeepsJob(m) ==
  /\ job'[m].phase = job[m].phase
  /\ performed[m] \subseteq performed'[m]
  /\ job'[m].status = "succeeded" <=> job[m].status = "succeeded"

\* Or it is advanced to a phase that has been carried out, or completed with all of them.
Advanced(m) ==
  /\ performed' = performed
  /\ job[m].status = "leased" /\ job'[m].status = "leased"
  /\ job[m].phase < 3 /\ job'[m].phase = job[m].phase + 1
  /\ job'[m].phase \in performed[m]
Completed(m) ==
  /\ performed' = performed
  /\ job[m].status # "succeeded" /\ job'[m].status = "succeeded"
  /\ job[m].phase = 3 /\ job'[m].phase = 3

\* The step of a run that changes no job.
LEMMA JobsAlone ==
  ASSUME OperationsInv, UNCHANGED job, \A m \in Minutes : performed[m] \subseteq performed'[m]
  PROVE  \A m \in Minutes : KeepsJob(m)
BY DEF KeepsJob

\* The phase a run has carried out is added to those of its job.
LEMMA CarriedGrows ==
  ASSUME OperationsInv, NEW r \in OpsRuns, NEW phase \in 1 .. 3, Carried(r, phase),
         opsRun[r].job \in Minutes
  PROVE  /\ performed' \in [Minutes -> SUBSET (1 .. 3)]
         /\ phase \in performed'[opsRun[r].job]
         /\ \A m \in Minutes : performed[m] \subseteq performed'[m]
BY DEF OperationsInv, OperationsTypeOK, Carried

\* A run moves to another step with what it knows.
LEMMA RunMoves ==
  ASSUME OperationsInv, NEW r \in OpsRuns,
         NEW step \in {"start", "acquire", "work", "deliver", "save", "renew", "fail", "end"},
         Steps(r, step)
  PROVE  /\ opsRun' \in [OpsRuns -> Run]
         /\ opsRun'[r].step = step /\ opsRun'[r].job = opsRun[r].job
         /\ opsRun'[r].phase = opsRun[r].phase
         /\ \A s \in OpsRuns : s # r => opsRun'[s] = opsRun[s]
<1>1. opsRun \in [OpsRuns -> Run]
  BY DEF OperationsInv, OperationsTypeOK
<1>2. [opsRun[r] EXCEPT !.step = step] \in Run
  BY <1>1 DEF Run
<1>3. opsRun' = [opsRun EXCEPT ![r] = [opsRun[r] EXCEPT !.step = step]]
  BY <1>1 DEF Steps
<1>. QED
  BY <1>1, <1>2, <1>3 DEF Run

\* Where each job is kept, a run that moves on rightly keeps the invariant.
LEMMA MoveKeeps ==
  ASSUME OperationsInv, NEW r \in OpsRuns,
         NEW step \in {"start", "acquire", "work", "deliver", "save", "renew", "fail", "end"},
         Steps(r, step), OperationsTypeOK',
         \A m \in Minutes : KeepsJob(m),
         \A m \in Minutes : job'[m].status = "leased" /\ job'[m].live => job'[m] = job[m],
         step \in {"work", "deliver", "save", "renew", "fail"} => opsRun[r].job \in Minutes,
         step = "deliver" => opsRun[r].phase = 2,
         step = "save" => opsRun[r].phase < 3 /\ opsRun[r].phase + 1 \in performed'[opsRun[r].job]
  PROVE  OperationsInv'
<1>1. /\ opsRun'[r].step = step /\ opsRun'[r].job = opsRun[r].job
      /\ opsRun'[r].phase = opsRun[r].phase
      /\ \A s \in OpsRuns : s # r => opsRun'[s] = opsRun[s]
  BY RunMoves
<1>2. RunsAgree'
  <2>. SUFFICES ASSUME NEW s \in OpsRuns
       PROVE  /\ opsRun'[s].step \in {"work", "deliver", "save", "renew", "fail"} =>
                   opsRun'[s].job \in Minutes
              /\ opsRun'[s].step = "deliver" => opsRun'[s].phase = 2
              /\ opsRun'[s].step = "save" =>
                   opsRun'[s].phase < 3 /\ opsRun'[s].phase + 1 \in performed'[opsRun'[s].job]
              /\ opsRun'[s].job \in Minutes /\ Holds(s)' =>
                   opsRun'[s].phase = job'[opsRun'[s].job].phase
    BY DEF RunsAgree
  <2>1. opsRun'[s].job = opsRun[s].job /\ opsRun'[s].phase = opsRun[s].phase
    BY <1>1
  <2>2. opsRun'[s].job \in Minutes /\ Holds(s)' => opsRun'[s].phase = job'[opsRun'[s].job].phase
    BY <2>1 DEF Holds, OperationsInv, RunsAgree
  <2>3. s # r /\ opsRun[s].step = "save" => opsRun[s].phase + 1 \in performed'[opsRun[s].job]
    BY DEF OperationsInv, RunsAgree, KeepsJob
  <2>4. CASE s = r
    BY <1>1, <2>2, <2>4
  <2>5. CASE s # r
    BY <1>1, <2>2, <2>3, <2>5 DEF OperationsInv, RunsAgree
  <2>. QED
    BY <2>4, <2>5
<1>3. JobsPerformed'
  BY DEF OperationsInv, JobsPerformed, KeepsJob
<1>. QED
  BY <1>2, <1>3 DEF OperationsInv

----------------------------------------------------------------------------
(* Every action *)

Progresses == \A m \in Minutes : KeepsJob(m) \/ Advanced(m) \/ Completed(m)

\* A run that only moves: it ends, fails, dies, renews its lease or finds nothing to do.
LEMMA OnlyMoves ==
  ASSUME OperationsInv, NEW r \in OpsRuns, NEW step \in {"work", "fail", "end"},
         Steps(r, step), UNCHANGED <<job, delivery, performed, redrives>>,
         step # "end" => opsRun[r].job \in Minutes
  PROVE  OperationsInv' /\ Progresses
<1>1. OperationsTypeOK'
  BY RunMoves DEF OperationsInv, OperationsTypeOK
<1>2. \A m \in Minutes : KeepsJob(m)
  BY DEF KeepsJob
<1>3. OperationsInv'
  BY <1>1, <1>2, MoveKeeps
<1>. QED
  BY <1>2, <1>3 DEF Progresses

\* The steps with which a run starts.
LEMMA StartStep ==
  ASSUME OperationsInv, NEW r \in OpsRuns, Begin(r) \/ Acquire(r) \/ Again(r)
  PROVE  OperationsInv' /\ Progresses
<1>0. job \in [Minutes -> Job] /\ opsRun \in [OpsRuns -> Run]
  BY DEF OperationsInv, OperationsTypeOK
<1>1. CASE Begin(r)
  <2>1. ASSUME NEW m \in Minutes
        PROVE  /\ job'[m] \in Job /\ KeepsJob(m)
               /\ job'[m].status = "leased" /\ job'[m].live => job'[m] = job[m]
    <3>0. job[m] \in Job /\ performed' = performed
      BY <1>0, <1>1 DEF Begin
    <3>1. CASE job[m].status = "leased" /\ ~job[m].live
      <4>1. job'[m] = ReleasedJob(job[m])
        BY <1>1, <3>1 DEF Begin
      <4>2. /\ job'[m] \in Job /\ job'[m].phase = job[m].phase
            /\ job'[m].live = FALSE /\ job'[m].status \in {"due", "dead"}
        BY <3>0, <4>1, ReleasedRows
      <4>. QED
        BY <3>0, <3>1, <4>2 DEF KeepsJob
    <3>2. CASE ~(job[m].status = "leased" /\ ~job[m].live)
      <4>1. \/ job'[m] = [job[m] EXCEPT !.status = "due"] /\ job[m].status = "absent"
            \/ job'[m] = job[m]
        BY <1>1, <3>2 DEF Begin
      <4>2. job'[m] \in Job /\ job'[m].phase = job[m].phase
        BY <3>0, <4>1 DEF Job
      <4>3. job'[m] = job[m] \/ (job[m].status = "absent" /\ job'[m].status = "due")
        BY <3>0, <4>1 DEF Job
      <4>. QED
        BY <3>0, <4>2, <4>3 DEF KeepsJob
    <3>. QED
      BY <3>1, <3>2
  <2>2. job' \in [Minutes -> Job]
    BY <1>1, <2>1 DEF Begin
  <2>3. Steps(r, "acquire") /\ UNCHANGED <<delivery, performed, redrives>>
    BY <1>1 DEF Begin
  <2>4. OperationsTypeOK'
    BY <2>2, <2>3, RunMoves DEF OperationsInv, OperationsTypeOK
  <2>5. OperationsInv'
    BY <2>1, <2>3, <2>4, MoveKeeps
  <2>. QED
    BY <2>1, <2>5 DEF Progresses
<1>2. CASE Acquire(r) /\ Steps(r, "end") /\ UNCHANGED job
  <2>1. UNCHANGED <<job, delivery, performed, redrives>>
    BY <1>2 DEF Acquire
  <2>. QED
    BY <1>2, <2>1, OnlyMoves
<1>3. ASSUME Acquire(r), NEW m \in Minutes,
             job[m].status = "due", ~SpentUp(job[m]),
             job' = [job EXCEPT ![m] = TakenBy(job[m], r, "leased")],
             opsRun' = [opsRun EXCEPT ![r] = [job |-> m, phase |-> job[m].phase,
                          step |-> IF job[m].phase < 1 THEN "work" ELSE "renew"]]
      PROVE  OperationsInv' /\ Progresses
  <2>0. UNCHANGED <<delivery, performed, redrives>>
    BY <1>3 DEF Acquire
  <2>1. PICK row \in Job : row = TakenBy(job[m], r, "leased")
                           /\ row.phase = job[m].phase /\ row.status = "leased" /\ row.holder = r
    <3>1. job[m] \in Job /\ "leased" \in {"absent", "due", "leased", "succeeded", "dead"}
      BY <1>0
    <3>2. /\ TakenBy(job[m], r, "leased") \in Job
          /\ TakenBy(job[m], r, "leased").phase = job[m].phase
          /\ TakenBy(job[m], r, "leased").status = "leased"
          /\ TakenBy(job[m], r, "leased").holder = r
      BY <1>3, <3>1, JobRows
    <3>. QED
      BY <3>2
  <2>2. /\ job' \in [Minutes -> Job] /\ job'[m] = row
        /\ \A n \in Minutes : n # m => job'[n] = job[n]
    BY <1>0, <1>3, <2>1
  <2>3. \A n \in Minutes : KeepsJob(n)
    BY <1>3, <2>0, <2>1, <2>2 DEF KeepsJob
  <2>4. PICK step \in {"work", "renew"} : step = IF job[m].phase < 1 THEN "work" ELSE "renew"
    OBVIOUS
  <2>5. [job |-> m, phase |-> job[m].phase, step |-> step] \in Run
    BY <1>0 DEF Run, Job
  <2>6. /\ opsRun' \in [OpsRuns -> Run]
        /\ opsRun'[r] = [job |-> m, phase |-> job[m].phase, step |-> step]
        /\ \A s \in OpsRuns : s # r => opsRun'[s] = opsRun[s]
    BY <1>0, <1>3, <2>4, <2>5
  <2>7. OperationsTypeOK'
    BY <2>0, <2>2, <2>6 DEF OperationsInv, OperationsTypeOK
  <2>8. RunsAgree'
    <3>1. ASSUME NEW s \in OpsRuns, s # r
          PROVE  /\ opsRun'[s].step \in {"work", "deliver", "save", "renew", "fail"} =>
                      opsRun'[s].job \in Minutes
                 /\ opsRun'[s].step = "deliver" => opsRun'[s].phase = 2
                 /\ opsRun'[s].step = "save" =>
                      opsRun'[s].phase < 3 /\ opsRun'[s].phase + 1 \in performed'[opsRun'[s].job]
                 /\ opsRun'[s].job \in Minutes /\ Holds(s)' =>
                      opsRun'[s].phase = job'[opsRun'[s].job].phase
      <4>1. opsRun'[s] = opsRun[s]
        BY <2>6, <3>1
      <4>2. opsRun[s].job = m => ~Holds(s)'
        BY <2>1, <2>2, <3>1, <4>1 DEF Holds
      <4>3. opsRun[s].job # m /\ opsRun[s].job \in Minutes => (Holds(s)' <=> Holds(s))
        BY <2>2, <4>1 DEF Holds
      <4>. QED
        BY <2>0, <2>2, <4>1, <4>2, <4>3 DEF OperationsInv, RunsAgree
    <3>2. /\ opsRun'[r].job = m /\ opsRun'[r].phase = job'[m].phase
          /\ opsRun'[r].step \in {"work", "renew"}
      BY <2>1, <2>2, <2>6
    <3>. QED
      BY <3>1, <3>2 DEF RunsAgree
  <2>9. JobsPerformed'
    BY <2>0, <2>1, <2>2 DEF OperationsInv, JobsPerformed
  <2>. QED
    BY <2>3, <2>7, <2>8, <2>9 DEF OperationsInv, Progresses
<1>4. CASE Again(r)
  <2>1. NotStarted \in Run /\ NotStarted.job \notin Minutes /\ NotStarted.step = "start"
    BY OperationsAssumption DEF NotStarted, Run, Checkpoints
  <2>2. opsRun' \in [OpsRuns -> Run] /\ opsRun'[r] = NotStarted
        /\ \A s \in OpsRuns : s # r => opsRun'[s] = opsRun[s]
    BY <1>0, <1>4, <2>1 DEF Again
  <2>3. UNCHANGED <<job, delivery, performed, redrives>>
    BY <1>4 DEF Again
  <2>4. OperationsTypeOK' /\ JobsPerformed'
    BY <2>2, <2>3 DEF OperationsInv, OperationsTypeOK, JobsPerformed
  <2>5. RunsAgree'
    BY <2>1, <2>2, <2>3 DEF OperationsInv, RunsAgree, Holds
  <2>6. \A m \in Minutes : KeepsJob(m)
    BY <2>3 DEF KeepsJob
  <2>. QED
    BY <2>4, <2>5, <2>6 DEF OperationsInv, Progresses
<1>5. CASE Acquire(r)
  <2>1. CASE Steps(r, "end") /\ UNCHANGED job
    BY <1>2, <1>5, <2>1
  <2>2. CASE \E m \in Minutes :
               /\ job[m].status = "due" /\ ~SpentUp(job[m])
               /\ job' = [job EXCEPT ![m] = TakenBy(job[m], r, "leased")]
               /\ opsRun' = [opsRun EXCEPT ![r] = [job |-> m, phase |-> job[m].phase,
                               step |-> IF job[m].phase < 1 THEN "work" ELSE "renew"]]
    BY <1>3, <1>5, <2>2
  <2>. QED
    BY <1>5, <2>1, <2>2 DEF Acquire
<1>. QED
  BY <1>1, <1>4, <1>5

\* The steps that carry a phase out.
LEMMA PhaseStep ==
  ASSUME OperationsInv, NEW r \in OpsRuns,
         RecoverClaims(r) \/ Reconcile(r) \/ ClaimBatch(r) \/ BatchDelivered(r)
  PROVE  OperationsInv' /\ Progresses
<1>0. /\ delivery \in [Events -> Event] /\ opsRun[r] \in Run
      /\ opsRun[r].job \in Minutes /\ Phase(r) \in 0 .. 3
  BY DEF OperationsInv, OperationsTypeOK, RunsAgree, RecoverClaims, Reconcile, ClaimBatch,
     BatchDelivered, At, Phase, Run, Checkpoints
<1>1. UNCHANGED <<job, redrives>>
  BY DEF RecoverClaims, Reconcile, ClaimBatch, BatchDelivered
<1>2. delivery' \in [Events -> Event]
  <2>1. CASE RecoverClaims(r)
    BY <1>0, <2>1, EventRows DEF RecoverClaims
  <2>2. CASE ClaimBatch(r)
    BY <1>0, <2>2, EventRows DEF ClaimBatch
  <2>3. CASE Reconcile(r) \/ BatchDelivered(r)
    BY <1>0, <2>3 DEF Reconcile, BatchDelivered
  <2>. QED
    BY <2>1, <2>2, <2>3
<1>3. CASE ClaimBatch(r)
  <2>1. Steps(r, "deliver") /\ UNCHANGED performed /\ opsRun[r].phase = 2
    BY <1>3 DEF ClaimBatch, Phase
  <2>2. OperationsTypeOK'
    BY <1>1, <1>2, <2>1, RunMoves DEF OperationsInv, OperationsTypeOK
  <2>3. \A m \in Minutes : KeepsJob(m)
    BY <1>1, <2>1 DEF KeepsJob
  <2>4. OperationsInv'
    BY <1>0, <1>1, <2>1, <2>2, <2>3, MoveKeeps
  <2>. QED
    BY <2>3, <2>4 DEF Progresses
<1>4. ASSUME NEW phase \in 1 .. 3, Carried(r, phase), Steps(r, "save"),
             phase = opsRun[r].phase + 1
      PROVE  OperationsInv' /\ Progresses
  <2>1. /\ performed' \in [Minutes -> SUBSET (1 .. 3)]
        /\ phase \in performed'[opsRun[r].job]
        /\ \A m \in Minutes : performed[m] \subseteq performed'[m]
    BY <1>0, <1>4, CarriedGrows
  <2>2. OperationsTypeOK'
    BY <1>1, <1>2, <1>4, <2>1, RunMoves DEF OperationsInv, OperationsTypeOK
  <2>3. \A m \in Minutes : KeepsJob(m)
    BY <1>1, <2>1 DEF KeepsJob
  <2>4. opsRun[r].phase < 3 /\ opsRun[r].phase + 1 \in performed'[opsRun[r].job]
    BY <1>0, <1>4, <2>1 DEF Phase
  <2>5. \A m \in Minutes : job'[m] = job[m]
    BY <1>1
  <2>6. OperationsInv'
    BY <1>0, <1>4, <2>2, <2>3, <2>4, <2>5, MoveKeeps
  <2>. QED
    BY <2>3, <2>6 DEF Progresses
<1>5. CASE RecoverClaims(r)
  BY <1>0, <1>4, <1>5 DEF RecoverClaims, Phase
<1>6. CASE Reconcile(r)
  BY <1>0, <1>4, <1>6 DEF Reconcile, Phase
<1>7. CASE BatchDelivered(r)
  <2>1. opsRun[r].phase = 2
    BY <1>7 DEF BatchDelivered, At, OperationsInv, RunsAgree
  <2>. QED
    BY <1>4, <1>7, <2>1 DEF BatchDelivered
<1>. QED
  BY <1>3, <1>5, <1>6, <1>7

\* The delivery of an event.
LEMMA DeliverStep ==
  ASSUME OperationsInv, NEW r \in OpsRuns, DeliverEvent(r)
  PROVE  OperationsInv' /\ Progresses
<1>0. delivery \in [Events -> Event] /\ opsRun[r].job \in Minutes
  BY DEF OperationsInv, OperationsTypeOK, RunsAgree, DeliverEvent, At
<1>1. UNCHANGED <<job, performed, redrives>>
  BY DEF DeliverEvent
<1>2. CASE Steps(r, "fail") /\ UNCHANGED delivery
  BY <1>0, <1>1, <1>2, OnlyMoves
<1>3. ASSUME NEW e \in Events, UNCHANGED opsRun,
             \/ delivery' = [delivery EXCEPT ![e] = LetGo(delivery[e], "delivered")]
             \/ delivery' = [delivery EXCEPT ![e] = Unclaimed(delivery[e])]
             \/ delivery' = [delivery EXCEPT ![e] = LetGo(delivery[e], "terminal")]
      PROVE  OperationsInv' /\ Progresses
  <2>1. /\ LetGo(delivery[e], "delivered") \in Event /\ Unclaimed(delivery[e]) \in Event
        /\ LetGo(delivery[e], "terminal") \in Event
    BY <1>0, EventRows
  <2>2. delivery' \in [Events -> Event]
    BY <1>0, <1>3, <2>1
  <2>3. OperationsTypeOK'
    BY <1>1, <1>3, <2>2 DEF OperationsInv, OperationsTypeOK
  <2>4. RunsAgree' /\ JobsPerformed'
    BY <1>1, <1>3 DEF OperationsInv, RunsAgree, JobsPerformed, Holds
  <2>5. Progresses
    BY <1>1 DEF Progresses, KeepsJob
  <2>. QED
    BY <2>3, <2>4, <2>5 DEF OperationsInv
<1>. QED
  BY <1>2, <1>3 DEF DeliverEvent, Mine

\* The steps in which a run writes its job under the lease.
LEMMA LeaseStep ==
  ASSUME OperationsInv, NEW r \in OpsRuns, Checkpoint(r) \/ Complete(r) \/ FailJob(r) \/ Renew(r)
  PROVE  OperationsInv' /\ Progresses
<1>0. /\ job \in [Minutes -> Job] /\ opsRun \in [OpsRuns -> Run] /\ opsRun[r].job \in Minutes
      /\ Phase(r) \in 0 .. 3
  BY DEF OperationsInv, OperationsTypeOK, RunsAgree, Checkpoint, Complete, FailJob, Renew, At,
     Phase, Run, Checkpoints
<1>. PICK m \in Minutes : m = opsRun[r].job
  BY <1>0
<1>1. CASE Renew(r)
  BY <1>0, <1>1, OnlyMoves DEF Renew
<1>2. CASE (Checkpoint(r) \/ Complete(r)) /\ Steps(r, "fail") /\ UNCHANGED job
  BY <1>0, <1>2, OnlyMoves DEF Checkpoint, Complete
<1>3. CASE Checkpoint(r) /\ Holds(r)
  <2>1. /\ job' = [job EXCEPT ![m].phase = opsRun[r].phase + 1]
        /\ opsRun' = [opsRun EXCEPT ![r].phase = @ + 1,
                        ![r].step = IF opsRun[r].phase < 2 THEN "renew" ELSE "work"]
        /\ UNCHANGED <<delivery, performed, redrives>>
    BY <1>3 DEF Checkpoint, MayCheckpoint, Phase
  <2>2. /\ opsRun[r].phase = job[m].phase /\ opsRun[r].phase < 3
        /\ opsRun[r].phase + 1 \in performed[m]
        /\ job[m].status = "leased" /\ job[m].holder = r /\ job[m].live
    BY <1>3 DEF OperationsInv, RunsAgree, Checkpoint, At, Holds
  <2>3. PICK phase \in 1 .. 3 : phase = opsRun[r].phase + 1
    BY <1>0, <2>2 DEF Phase
  <2>4. PICK row \in Job : row = [job[m] EXCEPT !.phase = phase]
                           /\ row.phase = phase /\ row.status = "leased" /\ row.holder = r
    <3>1. job[m] \in Job /\ phase \in Checkpoints
      BY <1>0 DEF Checkpoints
    <3>2. /\ [job[m] EXCEPT !.phase = phase] \in Job
          /\ [job[m] EXCEPT !.phase = phase].phase = phase
          /\ [job[m] EXCEPT !.phase = phase].status = job[m].status
          /\ [job[m] EXCEPT !.phase = phase].holder = job[m].holder
      BY <3>1, RowEdits
    <3>. QED
      BY <2>2, <3>2
  <2>5. /\ job' \in [Minutes -> Job] /\ job'[m] = row
        /\ \A n \in Minutes : n # m => job'[n] = job[n]
    BY <1>0, <2>1, <2>3, <2>4
  <2>6. PICK step \in {"renew", "work"} : step = IF opsRun[r].phase < 2 THEN "renew" ELSE "work"
    OBVIOUS
  <2>7. PICK new \in Run : new = [opsRun[r] EXCEPT !.phase = phase, !.step = step]
                           /\ new.phase = phase /\ new.step = step /\ new.job = m
    <3>1. opsRun[r] \in Run /\ phase \in Checkpoints /\ step \in {"renew", "work"}
      BY <1>0, <2>3, <2>6 DEF Checkpoints
    <3>2. /\ [opsRun[r] EXCEPT !.phase = phase, !.step = step] \in Run
          /\ [opsRun[r] EXCEPT !.phase = phase, !.step = step].phase = phase
          /\ [opsRun[r] EXCEPT !.phase = phase, !.step = step].step = step
          /\ [opsRun[r] EXCEPT !.phase = phase, !.step = step].job = opsRun[r].job
      <4>1. ASSUME NEW old \in Run
            PROVE  /\ [old EXCEPT !.phase = phase, !.step = step] \in Run
                   /\ [old EXCEPT !.phase = phase, !.step = step].phase = phase
                   /\ [old EXCEPT !.phase = phase, !.step = step].step = step
                   /\ [old EXCEPT !.phase = phase, !.step = step].job = old.job
        BY <3>1 DEF Run
      <4>. QED
        BY <3>1, <4>1
    <3>. QED
      BY <3>2
  <2>8. /\ opsRun' \in [OpsRuns -> Run] /\ opsRun'[r] = new
        /\ \A s \in OpsRuns : s # r => opsRun'[s] = opsRun[s]
    BY <1>0, <2>1, <2>3, <2>6, <2>7
  <2>9. OperationsTypeOK'
    BY <2>1, <2>5, <2>8 DEF OperationsInv, OperationsTypeOK
  <2>10. RunsAgree'
    <3>1. ASSUME NEW s \in OpsRuns, s # r
          PROVE  /\ opsRun'[s].step \in {"work", "deliver", "save", "renew", "fail"} =>
                      opsRun'[s].job \in Minutes
                 /\ opsRun'[s].step = "deliver" => opsRun'[s].phase = 2
                 /\ opsRun'[s].step = "save" =>
                      opsRun'[s].phase < 3 /\ opsRun'[s].phase + 1 \in performed'[opsRun'[s].job]
                 /\ opsRun'[s].job \in Minutes /\ Holds(s)' =>
                      opsRun'[s].phase = job'[opsRun'[s].job].phase
      <4>1. opsRun'[s] = opsRun[s]
        BY <2>8, <3>1
      <4>2. opsRun[s].job = m => ~Holds(s)'
        <5>1. job'[m].holder # s
          BY <2>4, <2>5, <3>1
        <5>. QED
          BY <4>1, <5>1 DEF Holds
      <4>3. opsRun[s].job # m /\ opsRun[s].job \in Minutes => (Holds(s)' <=> Holds(s))
        BY <2>5, <4>1 DEF Holds
      <4>. QED
        BY <2>1, <2>5, <4>1, <4>2, <4>3 DEF OperationsInv, RunsAgree
    <3>2. /\ opsRun'[r].job = m /\ opsRun'[r].phase = job'[m].phase
          /\ opsRun'[r].step \in {"work", "renew"}
      BY <2>4, <2>5, <2>7, <2>8
    <3>. QED
      BY <3>1, <3>2 DEF RunsAgree
  <2>11. 1 .. phase \subseteq performed[m]
    <3>1. 1 .. job[m].phase \subseteq performed[m]
      BY DEF OperationsInv, JobsPerformed
    <3>2. job[m].phase \in 0 .. 3 /\ phase = job[m].phase + 1
      BY <1>0, <2>2, <2>3 DEF Job, Checkpoints
    <3>3. \A n \in 1 .. phase : n = phase \/ n \in 1 .. job[m].phase
      BY <3>2
    <3>. QED
      BY <2>2, <2>3, <3>1, <3>3
  <2>12. JobsPerformed'
    BY <2>1, <2>4, <2>5, <2>11 DEF OperationsInv, JobsPerformed
  <2>13. Advanced(m)
    BY <2>1, <2>2, <2>3, <2>4, <2>5 DEF Advanced
  <2>14. \A n \in Minutes : n # m => KeepsJob(n)
    BY <2>1, <2>5 DEF KeepsJob
  <2>. QED
    BY <2>9, <2>10, <2>12, <2>13, <2>14 DEF OperationsInv, Progresses
<1>4. CASE Complete(r) /\ Holds(r)
  <2>1. /\ job' = [job EXCEPT ![m] = LetGo(job[m], "succeeded")]
        /\ Steps(r, "end") /\ opsRun[r].phase = 3
        /\ UNCHANGED <<delivery, performed, redrives>>
    BY <1>4 DEF Complete, Phase
  <2>2. opsRun[r].phase = job[m].phase /\ job[m].status = "leased"
    BY <1>4 DEF OperationsInv, RunsAgree, Holds
  <2>3. PICK row \in Job : row = LetGo(job[m], "succeeded")
                           /\ row.phase = job[m].phase /\ row.status = "succeeded" /\ row.live = FALSE
    <3>1. job[m] \in Job /\ "succeeded" \in {"absent", "due", "leased", "succeeded", "dead"}
      BY <1>0
    <3>2. /\ LetGo(job[m], "succeeded") \in Job
          /\ LetGo(job[m], "succeeded").phase = job[m].phase
          /\ LetGo(job[m], "succeeded").status = "succeeded"
          /\ LetGo(job[m], "succeeded").live = FALSE
      BY <3>1, JobRows
    <3>. QED
      BY <3>2
  <2>4. /\ job' \in [Minutes -> Job] /\ job'[m] = row
        /\ \A n \in Minutes : n # m => job'[n] = job[n]
    BY <1>0, <2>1, <2>3
  <2>5. /\ opsRun' \in [OpsRuns -> Run]
        /\ opsRun'[r].step = "end" /\ opsRun'[r].job = opsRun[r].job
        /\ opsRun'[r].phase = opsRun[r].phase
        /\ \A s \in OpsRuns : s # r => opsRun'[s] = opsRun[s]
    BY <2>1, RunMoves
  <2>6. OperationsTypeOK'
    BY <2>1, <2>4, <2>5 DEF OperationsInv, OperationsTypeOK
  <2>7. RunsAgree'
    <3>1. ASSUME NEW s \in OpsRuns
          PROVE  opsRun'[s].job \in Minutes /\ Holds(s)' =>
                      opsRun'[s].phase = job'[opsRun'[s].job].phase
      <4>1. opsRun'[s].job = opsRun[s].job /\ opsRun'[s].phase = opsRun[s].phase
        BY <2>5
      <4>2. opsRun[s].job = m => ~Holds(s)'
        BY <2>3, <2>4, <4>1 DEF Holds
      <4>3. opsRun[s].job # m /\ opsRun[s].job \in Minutes => (Holds(s)' <=> Holds(s))
        BY <2>4, <4>1 DEF Holds
      <4>. QED
        BY <2>4, <4>1, <4>2, <4>3 DEF OperationsInv, RunsAgree
    <3>. QED
      BY <2>1, <2>5, <3>1 DEF OperationsInv, RunsAgree
  <2>8. JobsPerformed'
    BY <2>1, <2>2, <2>3, <2>4 DEF OperationsInv, JobsPerformed
  <2>9. Completed(m) /\ \A n \in Minutes : n # m => KeepsJob(n)
    BY <2>1, <2>2, <2>3, <2>4 DEF Completed, KeepsJob
  <2>. QED
    BY <2>6, <2>7, <2>8, <2>9 DEF OperationsInv, Progresses
<1>5. CASE FailJob(r)
  <2>1. Steps(r, "end") /\ UNCHANGED <<delivery, performed, redrives>>
    BY <1>5 DEF FailJob
  <2>2. CASE UNCHANGED job
    BY <2>1, <2>2, OnlyMoves
  <2>3. CASE Holds(r) /\ job' = [job EXCEPT ![m] = ReleasedJob(job[m])]
    <3>1. PICK row \in Job : row = ReleasedJob(job[m])
                             /\ row.phase = job[m].phase /\ row.live = FALSE
                             /\ row.status \in {"due", "dead"}
      BY <1>0, ReleasedRows
    <3>2. /\ job' \in [Minutes -> Job] /\ job'[m] = row
          /\ \A n \in Minutes : n # m => job'[n] = job[n]
      BY <1>0, <2>3, <3>1
    <3>3. job[m].status = "leased"
      BY <2>3 DEF Holds
    <3>4. \A n \in Minutes : /\ KeepsJob(n)
                             /\ job'[n].status = "leased" /\ job'[n].live => job'[n] = job[n]
      BY <2>1, <3>1, <3>2, <3>3 DEF KeepsJob
    <3>5. OperationsTypeOK'
      BY <2>1, <3>2, RunMoves DEF OperationsInv, OperationsTypeOK
    <3>6. OperationsInv'
      BY <2>1, <3>4, <3>5, MoveKeeps
    <3>. QED
      BY <3>4, <3>6 DEF Progresses
  <2>. QED
    BY <1>5, <2>2, <2>3 DEF FailJob
<1>. QED
  BY <1>1, <1>2, <1>3, <1>4, <1>5 DEF Checkpoint, Complete, MayCheckpoint

\* What a lease that ends, or a dead job redriven, does to the rows.
Outside ==
  /\ job' \in [Minutes -> Job] /\ delivery' \in [Events -> Event] /\ redrives' \in 0 .. MaxRedrives
  /\ \A m \in Minutes : /\ job'[m].phase = job[m].phase
                        /\ job'[m].status = "succeeded" <=> job[m].status = "succeeded"
                        /\ job'[m].status = "leased" /\ job'[m].live => job'[m] = job[m]

\* A lease that ends, or a dead job redriven.
LEMMA OutsideStep ==
  ASSUME OperationsInv, LeaseEnds \/ RedriveJob
  PROVE  OperationsInv' /\ Progresses
<1>0. job \in [Minutes -> Job] /\ delivery \in [Events -> Event] /\ redrives \in 0 .. MaxRedrives
  BY DEF OperationsInv, Outside, OperationsTypeOK
<1>1. UNCHANGED <<opsRun, performed>>
  BY DEF LeaseEnds, RedriveJob
<1>2. Outside
  <2>1. ASSUME NEW n \in Minutes, job' = [job EXCEPT ![n].live = FALSE],
               UNCHANGED <<delivery, redrives>>
        PROVE  Outside
    <3>1. PICK row \in Job : row = [job[n] EXCEPT !.live = FALSE]
                             /\ row.phase = job[n].phase /\ row.status = job[n].status
                             /\ row.live = FALSE
      <4>1. job[n] \in Job /\ 0 \in Checkpoints
        BY <1>0 DEF Checkpoints
      <4>2. /\ [job[n] EXCEPT !.live = FALSE] \in Job
            /\ [job[n] EXCEPT !.live = FALSE].phase = job[n].phase
            /\ [job[n] EXCEPT !.live = FALSE].status = job[n].status
            /\ [job[n] EXCEPT !.live = FALSE].live = FALSE
        BY <4>1, RowEdits
      <4>. QED
        BY <4>2
    <3>2. /\ job' \in [Minutes -> Job] /\ job'[n] = row
          /\ \A m \in Minutes : m # n => job'[m] = job[m]
      BY <1>0, <2>1, <3>1
    <3>. QED
      BY <1>0, <2>1, <3>1, <3>2 DEF Outside
  <2>2. ASSUME NEW e \in Events, delivery' = [delivery EXCEPT ![e].live = FALSE],
               UNCHANGED <<job, redrives>>
        PROVE  Outside
    <3>1. [delivery[e] EXCEPT !.live = FALSE] \in Event
      BY <1>0 DEF Event
    <3>2. delivery' = [delivery EXCEPT ![e] = [delivery[e] EXCEPT !.live = FALSE]]
      BY <1>0, <2>2
    <3>3. delivery' \in [Events -> Event]
      BY <1>0, <3>1, <3>2
    <3>. QED
      BY <1>0, <2>2, <3>3 DEF Outside, Job
  <2>3. ASSUME NEW n \in Minutes, job[n].status = "dead",
               job' = [job EXCEPT ![n].status = "due", ![n].attempts = 0],
               redrives < MaxRedrives, redrives' = redrives + 1, UNCHANGED delivery
        PROVE  Outside
    <3>1. PICK row \in Job : row = [job[n] EXCEPT !.status = "due", !.attempts = 0]
                             /\ row.phase = job[n].phase /\ row.status = "due"
      <4>1. job[n] \in Job /\ 0 \in Checkpoints
        BY <1>0 DEF Checkpoints
      <4>2. /\ [job[n] EXCEPT !.status = "due", !.attempts = 0] \in Job
            /\ [job[n] EXCEPT !.status = "due", !.attempts = 0].phase = job[n].phase
            /\ [job[n] EXCEPT !.status = "due", !.attempts = 0].status = "due"
        BY <4>1, RowEdits
      <4>. QED
        BY <4>2
    <3>2. /\ job' \in [Minutes -> Job] /\ job'[n] = row
          /\ \A m \in Minutes : m # n => job'[m] = job[m]
      BY <1>0, <2>3, <3>1
    <3>3. redrives' \in 0 .. MaxRedrives
      BY <1>0, <2>3, OperationsAssumption
    <3>. QED
      BY <1>0, <2>3, <3>1, <3>2, <3>3 DEF Outside
  <2>. QED
    BY <2>1, <2>2, <2>3 DEF LeaseEnds, RedriveJob
<1>3. OperationsTypeOK'
  BY <1>1, <1>2 DEF OperationsInv, Outside, OperationsTypeOK
<1>4. RunsAgree'
  BY <1>1, <1>2 DEF OperationsInv, Outside, RunsAgree, Holds
<1>5. JobsPerformed'
  BY <1>1, <1>2 DEF OperationsInv, Outside, JobsPerformed
<1>6. Progresses
  BY <1>1, <1>2 DEF Progresses, KeepsJob, Outside
<1>. QED
  BY <1>3, <1>4, <1>5, <1>6 DEF OperationsInv

----------------------------------------------------------------------------
(* The theorems *)

\* Every step keeps the invariant and moves the jobs on, never back.
LEMMA OperationsStep ==
  ASSUME OperationsInv, [OperationsNext]_operationsVars
  PROVE  OperationsInv' /\ (OperationsNext => Progresses)
<1>1. ASSUME NEW r \in OpsRuns, Errs(r)
      PROVE  OperationsInv' /\ Progresses
  BY <1>1, OnlyMoves DEF Errs, OperationsInv, RunsAgree
<1>2. ASSUME NEW r \in OpsRuns, Dies(r)
      PROVE  OperationsInv' /\ Progresses
  BY <1>2, OnlyMoves DEF Dies
<1>3. CASE UNCHANGED operationsVars
  <2>1. OperationsInv'
    BY <1>3 DEF operationsVars, OperationsInv, OperationsTypeOK, RunsAgree, JobsPerformed, Holds
  <2>2. Progresses
    BY <1>3 DEF operationsVars, Progresses, KeepsJob
  <2>. QED
    BY <2>1, <2>2
<1>4. CASE OperationsNext
  BY <1>1, <1>2, <1>4, StartStep, PhaseStep, DeliverStep, LeaseStep, OutsideStep DEF OperationsNext
<1>. QED
  BY <1>3, <1>4

\* The invariant.
LEMMA OperationsHold == OperationsSpec => []OperationsInv
<1>1. OperationsInit => OperationsInv
  <2>. SUFFICES ASSUME OperationsInit
       PROVE  OperationsInv
    OBVIOUS
  <2>1. /\ [status |-> "absent", holder |-> NoRun, live |-> FALSE, attempts |-> 0, phase |-> 0] \in Job
        /\ [status |-> "pending", holder |-> NoRun, live |-> FALSE, attempts |-> 0] \in Event
        /\ NotStarted \in Run
    BY OperationsAssumption DEF Job, Event, Run, NotStarted, Checkpoints
  <2>2. OperationsTypeOK
    BY <2>1, OperationsAssumption DEF OperationsInit, OperationsTypeOK
  <2>3. RunsAgree
    BY OperationsAssumption DEF OperationsInit, RunsAgree, NotStarted
  <2>4. JobsPerformed
    BY DEF OperationsInit, JobsPerformed
  <2>. QED
    BY <2>2, <2>3, <2>4 DEF OperationsInv
<1>2. OperationsInv /\ [OperationsNext]_operationsVars => OperationsInv'
  BY OperationsStep
<1>. QED
  BY <1>1, <1>2, PTL DEF OperationsSpec

\* Jobs, events and runs keep their types.
THEOREM OperationsTypeCorrect == OperationsSpec => []OperationsTypeOK
BY OperationsHold, PTL DEF OperationsInv

\* A checkpoint is never taken back or written for a phase that was not carried out, and a
\* job is completed with all three, however many runs carry it and die.
THEOREM CheckpointsKept == OperationsSpec => CheckpointKept
<1>. DEFINE Keeps == \A m \in Minutes :
       /\ job'[m].phase >= job[m].phase
       /\ 1 .. job'[m].phase \subseteq performed'[m]
       /\ job[m].status = "succeeded" => job'[m].status = "succeeded" /\ performed[m] = 1 .. 3
<1>1. ASSUME OperationsInv, OperationsNext
      PROVE  Keeps
  <2>1. OperationsInv' /\ Progresses
    BY <1>1, OperationsStep
  <2>2. ASSUME NEW m \in Minutes
        PROVE  /\ job'[m].phase >= job[m].phase
               /\ 1 .. job'[m].phase \subseteq performed'[m]
               /\ job[m].status = "succeeded" =>
                    job'[m].status = "succeeded" /\ performed[m] = 1 .. 3
    <3>1. job[m].phase \in 0 .. 3 /\ performed[m] \subseteq 1 .. 3
      BY <1>1 DEF OperationsInv, OperationsTypeOK, Job, Checkpoints
    <3>2. 1 .. job'[m].phase \subseteq performed'[m]
      BY <2>1 DEF OperationsInv, JobsPerformed
    <3>3. job[m].status = "succeeded" => performed[m] = 1 .. 3
      BY <1>1, <3>1 DEF OperationsInv, JobsPerformed
    <3>4. KeepsJob(m) \/ Advanced(m) \/ Completed(m)
      BY <2>1 DEF Progresses
    <3>. QED
      BY <3>1, <3>2, <3>3, <3>4 DEF KeepsJob, Advanced, Completed
  <2>. QED
    BY <2>2
<1>2. OperationsInv /\ [OperationsNext]_operationsVars => [Keeps]_operationsVars
  BY <1>1
<1>. QED
  BY <1>2, OperationsHold, PTL DEF OperationsSpec, CheckpointKept
=============================================================================
