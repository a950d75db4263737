----------------------------- MODULE Collection -----------------------------
(***************************************************************************)
(* One collection run of site/worker/content-retention.mjs under its lease *)
(* (collection-run-lease.mjs): purge of expired bodies, discovery and its  *)
(* persistence (article-discovery.mjs, discovery-store.mjs), collection of *)
(* bodies into R2 and D1 (authorized-body-collector.mjs) and their framing *)
(* profiles (stored-body-analysis.mjs).                                    *)
(*                                                                         *)
(* A D1 statement, an R2 call and a publisher request are steps of their   *)
(* own.  Time passes only while a publisher is awaited, at most one tick a *)
(* request; every other step is short against a tick.  Stamps are relative *)
(* to the present, as in DurableJobs.                                      *)
(***************************************************************************)
EXTENDS Integers, FiniteSets

CONSTANTS
  Runs,          \* invocations that may collect: the cron and the operator
  Sources,       \* publishers with an endpoint in the slice of the run
  Articles, SourceOf,
  FoundTopic,    \* section a discovery gives: "decided", or "pending" when deferred
  PageTopics,    \* what the page may say: "decided", "excluded" or "none"
  Unanalyzable,  \* articles whose profile never validates
  Null,
  LeaseMs, RunLimit, BaseWait, MaxWait, MaxAttempts,
  PurgeLimit, MaxBatches, BodyLimit, ProfileLimit,
  Windows,       \* initial distances of usage_expires_at ...
  Forever,       \* ... of which this one is beyond the behaviour
  MaxFaults      \* bound: kills and failed D1 or R2 calls of a behaviour

ASSUME CollectionAssumption ==
  /\ Null \notin Runs \cup Articles /\ IsFiniteSet(Articles)
  /\ SourceOf \in [Articles -> Sources]
  /\ FoundTopic \in [Articles -> {"decided", "pending"}]
  /\ PageTopics \in [Articles -> SUBSET {"decided", "excluded", "none"}]
  /\ LeaseMs \in Nat /\ RunLimit \in Nat \ {0} /\ RunLimit + 1 < LeaseMs
  /\ BaseWait \in Nat /\ MaxWait \in Nat /\ BaseWait <= MaxWait
  /\ MaxAttempts \in Nat \ {0} /\ PurgeLimit \in Nat \ {0} /\ MaxBatches \in Nat \ {0}
  /\ BodyLimit \in Nat \ {0} /\ ProfileLimit \in Nat \ {0} /\ MaxFaults \in Nat
  /\ Forever \in Nat /\ Windows \subseteq 0..Forever

VARIABLES
  lock,       \* the row "collection" of collection_execution_locks
  article,    \* articles: section, and the order of their first discovery
  attempt,    \* article_collection_attempts
  content,    \* article_contents, one body per article
  object,     \* the bodies R2 holds
  severed,    \* history: bodies taken back although their row had been written
  profile,    \* the articles with a current article_frame_profiles row
  remaining,  \* distance of usage_expires_at
  run,        \* the local state of each invocation
  faults

vars == <<lock, article, attempt, content, object, severed, profile,
          remaining, run, faults>>
tables == <<article, attempt, content, object, severed, profile>>

----------------------------------------------------------------------------
(* State *)

MaxAge == RunLimit + 1
Floor  == -MaxAge
Aged(t) == IF t > Floor THEN t - 1 ELSE Floor

LockRow == [holder : Runs \cup {Null}, expires : 0..LeaseMs]

Sections == {"absent", "pending", "decided", "excluded"}
ArticleRow == [section : Sections, rank : Nat]

AttemptRow == [status : {"none", "retry_wait", "terminal"}, count : Nat,
               next : Floor..MaxWait]
NoAttempt  == [status |-> "none", count |-> 0, next |-> Floor]

ContentRow == [status : {"absent", "active", "expired"}, rank : Nat]

\* The stages of runLeasedAgendaFrame; those after "requested" belong to one article.
Stages == {"idle", "drain", "purging", "purged", "discover", "discovering",
           "persist", "bodies", "fetching", "requested", "extracted", "put",
           "undo", "stored", "refused", "profiles", "profiling", "ending"}
RunState ==
  [stage : Stages, age : 0..MaxAge, waited : BOOLEAN, sources : SUBSET Sources,
   found : SUBSET Articles, todo : SUBSET Articles, current : Articles \cup {Null},
   halted : SUBSET Sources, batches : 0..MaxBatches, full : BOOLEAN,
   deleted : BOOLEAN, failed : BOOLEAN, drained : BOOLEAN]
Idle ==
  [stage |-> "idle", age |-> 0, waited |-> FALSE, sources |-> {}, found |-> {},
   todo |-> {}, current |-> Null, halted |-> {}, batches |-> 0, full |-> FALSE,
   deleted |-> FALSE, failed |-> FALSE, drained |-> FALSE]

Live(r)      == run[r].stage # "idle"
At(r, stage) == run[r].stage = stage
\* Fault: the deadline is not looked at.
AlwaysInTime(r) == TRUE
InTime(r) == run[r].age < RunLimit
\* the scheduled time of the run is past usage_expires_at
Closed(r)    == remaining + run[r].age <= 0

Init ==
  /\ lock = [holder |-> Null, expires |-> 0]
  /\ article = [a \in Articles |-> [section |-> "absent", rank |-> 0]]
  /\ attempt = [a \in Articles |-> NoAttempt]
  /\ content = [a \in Articles |-> [status |-> "absent", rank |-> 0]]
  /\ object = {} /\ severed = {} /\ profile = {}
  /\ remaining \in Windows
  /\ run = [r \in Runs |-> Idle]
  /\ faults = 0

Fault == faults < MaxFaults /\ faults' = faults + 1

\* Fault: the rows of the SELECT come the other way round.
Newest(batch, due, rank, limit) ==
  /\ batch \subseteq due
  /\ batch = due \/ Cardinality(batch) = limit
  /\ Cardinality(batch) <= limit
  /\ \A a \in batch, b \in due \ batch : rank[a].rank >= rank[b].rank
\* The rows of an oldest-first SELECT with a LIMIT; ties are broken by ids left out.
Oldest(batch, due, rank, limit) ==
  /\ batch \subseteq due
  /\ batch = due \/ Cardinality(batch) = limit
  /\ Cardinality(batch) <= limit
  /\ \A a \in batch, b \in due \ batch : rank[a].rank <= rank[b].rank
Head(r) == {a \in run[r].todo :
              \A b \in run[r].todo : article[a].rank <= article[b].rank}

----------------------------------------------------------------------------
(* The lease *)

Free == lock.holder = Null \/ lock.expires = 0

Acquire(r) ==
  /\ ~Live(r) /\ Free
  /\ lock' = [holder |-> r, expires |-> LeaseMs]
  /\ run' = [run EXCEPT ![r] = [Idle EXCEPT !.stage = "drain"]]
  /\ UNCHANGED <<tables, remaining, faults>>

Released(r) ==
  IF lock.holder = r THEN [holder |-> Null, expires |-> 0] ELSE lock

Release(r) ==
  /\ At(r, "ending")
  /\ lock' = Released(r)
  /\ run' = [run EXCEPT ![r] = Idle]
  /\ UNCHANGED <<tables, remaining, faults>>

\* The platform ends the invocation, or the statement that releases the lease fails.
Killed(r) ==
  /\ Live(r) /\ Fault
  /\ run' = [run EXCEPT ![r] = Idle]
  /\ UNCHANGED <<lock, tables, remaining>>

\* A D1 error outside every try block ends the run; `finally` releases the lease.
Throws(r) ==
  /\ run[r].stage \in {"drain", "persist", "bodies", "requested", "refused", "profiles"}
  /\ Fault
  /\ run' = [run EXCEPT ![r].stage = "ending"]
  /\ UNCHANGED <<lock, tables, remaining>>

----------------------------------------------------------------------------
(* Retention *)

\* Fault: every active body is purged.
AllActive(r) == {a \in Articles : content[a].status = "active"}
\* Fault: the comparison with the end of use is the wrong way round.
NotDue(r) == {a \in Articles : content[a].status = "active" /\ ~Closed(r)}
Due(r) == {a \in Articles : content[a].status = "active" /\ Closed(r)}

PurgeSelect(r) ==
  /\ At(r, "drain")
  /\ \E batch \in SUBSET Due(r) :
       /\ Oldest(batch, Due(r), content, PurgeLimit)
       /\ run' = [run EXCEPT ![r].stage = "purging", ![r].todo = batch,
                    ![r].batches = @ + 1, ![r].full = Cardinality(batch) = PurgeLimit]
  /\ UNCHANGED <<lock, tables, remaining, faults>>

\* Each selected row: its object goes first, its row is marked afterwards.
PurgeDelete(r) ==
  /\ At(r, "purging")
  /\ \E a \in run[r].todo :
       /\ object' = object \ {a}
       /\ run' = [run EXCEPT ![r].stage = "purged", ![r].current = a,
                             ![r].todo = @ \ {a}]
  /\ UNCHANGED <<lock, article, attempt, content, severed, profile, remaining, faults>>

Expired(r) ==
  [content EXCEPT ![run[r].current].status = IF @ = "active" THEN "expired" ELSE @]

PurgeUpdate(r) ==
  /\ At(r, "purged")
  /\ content' = Expired(r)
  /\ run' = [run EXCEPT ![r].stage = "purging", ![r].current = Null,
                        ![r].deleted = TRUE]
  /\ UNCHANGED <<lock, article, attempt, object, severed, profile, remaining, faults>>

\* R2 or D1 refuses and the row stays active for a later batch, or it has done as told and
\* the answer is lost.
PurgeFails(r) ==
  /\ Fault
  /\ \/ /\ At(r, "purging")
        /\ \E a \in run[r].todo :
             run' = [run EXCEPT ![r].todo = @ \ {a}, ![r].failed = TRUE]
        /\ UNCHANGED content
     \/ /\ At(r, "purged")
        /\ content' \in {content, Expired(r)}
        /\ run' = [run EXCEPT ![r].stage = "purging", ![r].current = Null,
                              ![r].failed = TRUE]
  /\ UNCHANGED <<lock, article, attempt, object, severed, profile, remaining>>

\* Fault: a batch that is not full ends the drain well, whatever failed in it.
DrainedAnyway(state) == ~state.full
DrainedWell(state) == ~state.full /\ ~state.failed
\* Fault: one batch too many.
ContinuesOnce(state) == state.full /\ state.deleted /\ state.batches <= MaxBatches
Continues(state) == state.full /\ state.deleted /\ state.batches < MaxBatches

PurgeEnd(r) ==
  /\ At(r, "purging") /\ run[r].todo = {}
  /\ run' = [run EXCEPT
       ![r].stage = IF Continues(run[r]) THEN "drain" ELSE "discover",
       ![r].drained = DrainedWell(run[r]),
       ![r].batches = IF Continues(run[r]) THEN @ ELSE 0,
       ![r].sources = IF Continues(run[r]) THEN {} ELSE Sources,
       ![r].full = FALSE, ![r].deleted = FALSE, ![r].failed = FALSE]
  /\ UNCHANGED <<lock, tables, remaining, faults>>

----------------------------------------------------------------------------
(* Discovery *)

\* Outside the window nothing is discovered, collected or analysed.
OutsideWindow(r) ==
  /\ At(r, "discover") /\ Closed(r)
  /\ run' = [run EXCEPT ![r].stage = "ending"]
  /\ UNCHANGED <<lock, tables, remaining, faults>>

DiscoverRequest(r) ==
  /\ At(r, "discover") /\ ~Closed(r)
  /\ InTime(r) /\ run[r].sources # {}
  /\ run' = [run EXCEPT ![r].stage = "discovering"]
  /\ UNCHANGED <<lock, tables, remaining, faults>>

\* Any of the publisher's articles, none when it refuses or fails.
DiscoverAnswer(r) ==
  /\ At(r, "discovering")
  /\ \E s \in run[r].sources : \E new \in SUBSET {a \in Articles : SourceOf[a] = s} :
       run' = [run EXCEPT ![r].stage = "discover", ![r].waited = FALSE,
                          ![r].sources = @ \ {s},
                          ![r].found = @ \cup new]
  /\ UNCHANGED <<lock, tables, remaining, faults>>

DiscoverEnd(r) ==
  /\ At(r, "discover") /\ ~Closed(r)
  /\ run[r].sources = {} \/ ~InTime(r)
  /\ run' = [run EXCEPT ![r].stage = "persist", ![r].sources = {}]
  /\ UNCHANGED <<lock, tables, remaining, faults>>

Known == {a \in Articles : article[a].section # "absent"}
\* The upsert: the section of the discovery wins, the earliest collected_at stays.
Upserted(a) ==
  [section |-> FoundTopic[a],
   rank |-> IF a \in Known THEN article[a].rank ELSE Cardinality(Known)]

\* The articles are written in batches: an error leaves those before it, and maybe the
\* batch whose answer was lost, and ends the run.
Persist(r) ==
  /\ At(r, "persist")
  /\ \E saved \in SUBSET run[r].found :
       /\ article' = [a \in Articles |-> IF a \in saved THEN Upserted(a) ELSE article[a]]
       /\ \/ /\ saved = run[r].found
             /\ run' = [run EXCEPT ![r].stage = "bodies", ![r].found = {}]
             /\ UNCHANGED faults
          \/ /\ Fault
             /\ run' = [run EXCEPT ![r].stage = "ending", ![r].found = {}]
  /\ UNCHANGED <<lock, attempt, content, object, severed, profile, remaining>>

----------------------------------------------------------------------------
(* Bodies *)

\* Fault: the back-off and the end of the attempts are not looked at.
AnyAttempt(r, a) == TRUE
MayAttempt(r, a) ==
  \/ attempt[a].status = "none"
  \/ attempt[a].status = "retry_wait" /\ attempt[a].next <= -run[r].age

Candidates(r) ==
  {a \in Articles : /\ article[a].section \in {"pending", "decided"}
                    /\ content[a].status # "active" \/ Closed(r)
                    /\ MayAttempt(r, a)}

\* Both stages that follow are left out once the deadline has passed.
BodiesSelect(r) ==
  /\ At(r, "bodies")
  /\ \/ /\ InTime(r)
        /\ \E batch \in SUBSET Candidates(r) :
             /\ Oldest(batch, Candidates(r), article, BodyLimit)
             /\ run' = [run EXCEPT ![r].stage = "fetching", ![r].todo = batch]
     \/ /\ ~InTime(r)
        /\ run' = [run EXCEPT ![r].stage = "ending"]
  /\ UNCHANGED <<lock, tables, remaining, faults>>

FetchSkip(r) ==
  /\ At(r, "fetching")
  /\ \E a \in Head(r) : /\ SourceOf[a] \in run[r].halted
                        /\ run' = [run EXCEPT ![r].todo = @ \ {a}]
  /\ UNCHANGED <<lock, tables, remaining, faults>>

FetchRequest(r) ==
  /\ At(r, "fetching") /\ InTime(r)
  /\ \E a \in Head(r) :
       /\ SourceOf[a] \notin run[r].halted
       /\ run' = [run EXCEPT ![r].stage = "requested", ![r].current = a,
                             ![r].todo = @ \ {a}]
  /\ UNCHANGED <<lock, tables, remaining, faults>>

FetchEnd(r) ==
  /\ At(r, "fetching")
  /\ run[r].todo = {} \/ ~InTime(r)
  /\ run' = [run EXCEPT ![r].stage = "profiles", ![r].todo = {}, ![r].halted = {}]
  /\ UNCHANGED <<lock, tables, remaining, faults>>

\* recordCollectionFailure: the wait follows the failures before this one; a terminal
\* row keeps no wait, since none is read any more.
Wait(count) ==
  LET delay == BaseWait * 2^(IF count < 6 THEN count ELSE 6)
  IN  IF delay \in 0..MaxWait THEN delay ELSE MaxWait
Spent(count) == count >= MaxAttempts
Failed(r, a) ==
  IF attempt[a].status = "none"
  THEN [status |-> "retry_wait", count |-> 1, next |-> BaseWait - run[r].age]
  ELSE IF Spent(attempt[a].count + 1)
  THEN [status |-> "terminal", count |-> attempt[a].count + 1, next |-> Floor]
  ELSE [status |-> "retry_wait", count |-> attempt[a].count + 1,
        next |-> Wait(attempt[a].count) - run[r].age]

\* Fault: a failure leaves no row.
RecordNothing(r) == attempt' = attempt
RecordFailure(r) == attempt' = [attempt EXCEPT ![run[r].current] = Failed(r, run[r].current)]
NextArticle(r, halted) ==
  run' = [run EXCEPT ![r].stage = "fetching", ![r].waited = FALSE,
                     ![r].current = Null, ![r].halted = halted]

\* Refused, timed out, too large or not an article; 403 and 429 stop the publisher.
FetchFails(r) ==
  /\ At(r, "requested")
  /\ RecordFailure(r)
  /\ \/ NextArticle(r, run[r].halted)
     \/ NextArticle(r, run[r].halted \cup {SourceOf[run[r].current]})
  /\ UNCHANGED <<lock, article, content, object, severed, profile, remaining, faults>>

\* A redirect is not followed after the deadline; no failure is recorded.
FetchCut(r) ==
  /\ At(r, "requested") /\ ~InTime(r)
  /\ run' = [run EXCEPT ![r].stage = "profiles", ![r].waited = FALSE, ![r].todo = {},
                        ![r].current = Null, ![r].halted = {}]
  /\ UNCHANGED <<lock, tables, remaining, faults>>

Pending(r) == article[run[r].current].section = "pending"

\* A deferred topic is read off the page: out of scope, absent, or one of the four.
PageExcluded(r) ==
  /\ At(r, "requested") /\ Pending(r) /\ "excluded" \in PageTopics[run[r].current]
  /\ article' = [article EXCEPT ![run[r].current].section = "excluded"]
  /\ NextArticle(r, run[r].halted)
  /\ UNCHANGED <<lock, attempt, content, object, severed, profile, remaining, faults>>

PageTopicless(r) ==
  /\ At(r, "requested") /\ Pending(r) /\ "none" \in PageTopics[run[r].current]
  /\ RecordFailure(r)
  /\ NextArticle(r, run[r].halted)
  /\ UNCHANGED <<lock, article, content, object, severed, profile, remaining, faults>>

PageArrives(r) ==
  /\ At(r, "requested")
  /\ Pending(r) => "decided" \in PageTopics[run[r].current]
  /\ article' = [article EXCEPT ![run[r].current].section = "decided"]
  /\ run' = [run EXCEPT ![r].stage = "extracted", ![r].waited = FALSE]
  /\ UNCHANGED <<lock, attempt, content, object, severed, profile, remaining, faults>>

\* A failure is recorded, or the run ends, for an article whose body came to nothing.
Refused(r) == run' = [run EXCEPT ![r].stage = "refused"]

\* The body is not found in the page.
ExtractFails(r) ==
  /\ At(r, "extracted")
  /\ Refused(r)
  /\ UNCHANGED <<lock, tables, remaining, faults>>

RecordRefusal(r) ==
  /\ At(r, "refused")
  /\ RecordFailure(r)
  /\ NextArticle(r, run[r].halted)
  /\ UNCHANGED <<lock, article, content, object, severed, profile, remaining, faults>>

\* A failure, or the section of a page, is written, but the answer is lost: the run ends.
RecordLost(r) ==
  /\ Fault
  /\ \/ run[r].stage \in {"requested", "refused"} /\ RecordFailure(r) /\ UNCHANGED article
     \/ /\ At(r, "requested") /\ Pending(r)
        /\ \E topic \in PageTopics[run[r].current] \ {"none"} :
             article' = [article EXCEPT ![run[r].current].section = topic]
        /\ UNCHANGED attempt
  /\ run' = [run EXCEPT ![r].stage = "ending"]
  /\ UNCHANGED <<lock, content, object, severed, profile, remaining>>

WindowShut(r) ==
  /\ At(r, "extracted") /\ remaining <= 0
  /\ NextArticle(r, run[r].halted)
  /\ UNCHANGED <<lock, tables, remaining, faults>>

PutObject(r) ==
  /\ At(r, "extracted") /\ remaining > 0
  /\ object' = object \cup {run[r].current}
  /\ run' = [run EXCEPT ![r].stage = "put"]
  /\ UNCHANGED <<lock, article, attempt, content, severed, profile, remaining, faults>>

\* R2 refuses the object, or has put it and the answer is lost.
PutFails(r) ==
  /\ At(r, "extracted") /\ remaining > 0 /\ Fault
  /\ object' \in {object, object \cup {run[r].current}}
  /\ Refused(r)
  /\ UNCHANGED <<lock, article, attempt, content, severed, profile, remaining>>

Stored == {a \in Articles : content[a].status # "absent"}
Inserted(r) ==
  [content EXCEPT ![run[r].current] = [status |-> "active", rank |-> Cardinality(Stored)]]

InsertRow(r) ==
  /\ At(r, "put")
  /\ content' = Inserted(r)
  /\ run' = [run EXCEPT ![r].stage = "stored"]
  /\ UNCHANGED <<lock, article, attempt, object, severed, profile, remaining, faults>>

\* D1 refuses the row, or has written it and the answer is lost.
InsertFails(r) ==
  /\ At(r, "put") /\ Fault
  /\ content' \in {content, Inserted(r)}
  /\ run' = [run EXCEPT ![r].stage = "undo"]
  /\ UNCHANGED <<lock, article, attempt, object, severed, profile, remaining>>

\* The object of a failed insert is taken back, whether its row was written or not; when
\* that fails too it stays.
Undo(r) ==
  /\ At(r, "undo")
  /\ \/ /\ object' = object \ {run[r].current}
        /\ severed' = IF content[run[r].current].status = "active"
                      THEN severed \cup {run[r].current} ELSE severed
        /\ UNCHANGED faults
     \/ Fault /\ UNCHANGED <<object, severed>>
  /\ Refused(r)
  /\ UNCHANGED <<lock, article, attempt, content, profile, remaining>>

ClearAttempt(r) ==
  /\ At(r, "stored")
  /\ attempt' = [attempt EXCEPT ![run[r].current] = NoAttempt]
  /\ NextArticle(r, run[r].halted)
  /\ UNCHANGED <<lock, article, content, object, severed, profile, remaining, faults>>

\* The attempts of a stored body cannot be cleared, or are and the answer is lost.
ClearFails(r) ==
  /\ At(r, "stored") /\ Fault
  /\ attempt' \in {attempt, [attempt EXCEPT ![run[r].current] = NoAttempt]}
  /\ Refused(r)
  /\ UNCHANGED <<lock, article, content, object, severed, profile, remaining>>

----------------------------------------------------------------------------
(* Profiles *)

Unprofiled(r) ==
  {a \in Articles : content[a].status = "active" /\ ~Closed(r) /\ a \notin profile}

ProfilesSelect(r) ==
  /\ At(r, "profiles")
  /\ \/ /\ InTime(r)
        /\ \E batch \in SUBSET Unprofiled(r) :
             /\ Oldest(batch, Unprofiled(r), content, ProfileLimit)
             /\ run' = [run EXCEPT ![r].stage = "profiling", ![r].todo = batch]
     \/ /\ ~InTime(r)
        /\ run' = [run EXCEPT ![r].stage = "ending"]
  /\ UNCHANGED <<lock, tables, remaining, faults>>

Profile(r) ==
  /\ At(r, "profiling")
  /\ \E a \in run[r].todo :
       /\ a \in object /\ a \notin Unanalyzable
       /\ profile' = profile \cup {a}
       /\ run' = [run EXCEPT ![r].todo = @ \ {a}]
  /\ UNCHANGED <<lock, article, attempt, content, object, severed, remaining, faults>>

\* The object is missing, the profile invalid, or R2 or D1 fails: nothing is recorded.
ProfileFails(r) ==
  /\ At(r, "profiling")
  /\ \E a \in run[r].todo :
       /\ \/ (a \notin object \/ a \in Unanalyzable) /\ UNCHANGED faults
          \/ Fault
       /\ run' = [run EXCEPT ![r].todo = @ \ {a}]
  /\ UNCHANGED <<lock, tables, remaining>>

ProfilesEnd(r) ==
  /\ At(r, "profiling") /\ run[r].todo = {}
  /\ run' = [run EXCEPT ![r].stage = "ending"]
  /\ UNCHANGED <<lock, tables, remaining, faults>>

----------------------------------------------------------------------------
(* Time and the specification *)

Waiting(r) == run[r].stage \in {"discovering", "requested"} /\ ~run[r].waited

Tick ==
  /\ \A r \in Runs : Live(r) => Waiting(r)
  /\ lock' = [lock EXCEPT !.expires = IF @ > 0 THEN @ - 1 ELSE 0]
  /\ attempt' = [a \in Articles |-> [attempt[a] EXCEPT !.next = Aged(@)]]
  /\ remaining' = IF remaining = Forever THEN Forever ELSE Aged(remaining)
  /\ run' = [r \in Runs |-> IF Live(r)
               THEN [run[r] EXCEPT !.age = @ + 1, !.waited = TRUE] ELSE run[r]]
  /\ UNCHANGED <<article, content, object, severed, profile, faults>>

Retention(r) == PurgeSelect(r) \/ PurgeDelete(r) \/ PurgeUpdate(r) \/ PurgeEnd(r)
Discovery(r) == OutsideWindow(r) \/ DiscoverRequest(r) \/ DiscoverAnswer(r)
                  \/ DiscoverEnd(r) \/ Persist(r)
Fetching(r)  == BodiesSelect(r) \/ FetchSkip(r) \/ FetchRequest(r) \/ FetchEnd(r)
                  \/ FetchFails(r) \/ FetchCut(r) \/ PageExcluded(r)
                  \/ PageTopicless(r) \/ PageArrives(r)
Storing(r)   == ExtractFails(r) \/ WindowShut(r) \/ PutObject(r) \/ PutFails(r)
                  \/ InsertRow(r) \/ InsertFails(r) \/ Undo(r) \/ ClearAttempt(r)
                  \/ ClearFails(r) \/ RecordRefusal(r)
Profiling(r) == ProfilesSelect(r) \/ Profile(r) \/ ProfileFails(r) \/ ProfilesEnd(r)
Step(r) == Acquire(r) \/ Release(r) \/ Retention(r) \/ Discovery(r) \/ Fetching(r)
             \/ Storing(r) \/ Profiling(r)

Next == Tick \/ \E r \in Runs : Step(r) \/ PurgeFails(r) \/ Throws(r) \/ RecordLost(r) \/ Killed(r)

Spec == Init /\ [][Next]_vars
\* The platform keeps running what it has started, the cron starts again and again,
\* and time passes.
Fairness == SF_vars(Tick) /\ \A r \in Runs : WF_vars(Step(r))
FairSpec == Spec /\ Fairness

----------------------------------------------------------------------------
(* Properties *)

\* Every variable keeps to its columns and local fields.
TypeOK ==
  /\ lock \in LockRow /\ article \in [Articles -> ArticleRow]
  /\ attempt \in [Articles -> AttemptRow] /\ content \in [Articles -> ContentRow]
  /\ object \subseteq Articles /\ severed \subseteq Articles /\ profile \subseteq Articles
  /\ remaining \in Floor..Forever /\ run \in [Runs -> RunState]
  /\ faults \in 0..MaxFaults

\* The cron and the operator never collect at the same time: a run never outlives
\* its lease, because it asks no publisher anything after its deadline.
OneCollector == \A r, s \in Runs : Live(r) /\ Live(s) => r = s

\* A drain reported as complete after the end of the window has left no active row,
\* and no object of a row, whatever failed in this run or in earlier ones.
DrainedIsGone ==
  \A r \in Runs : run[r].drained /\ Closed(r) =>
    \A a \in Stored : content[a].status = "expired" /\ a \notin object

\* Until the window ends the body of every active row can be read, whoever purges, fails or
\* is killed: only the clean-up of an insert whose answer was lost takes an object from a row
\* that was written (authorized-body-collector.mjs:175), and nothing ever brings it back.
ReadableBody ==
  remaining > 0 => \A a \in Articles : content[a].status = "active" => a \in object \cup severed

\* An article that has used up its attempts is not asked for again.
GivenUpStays ==
  [][\A a \in Articles : attempt[a].status = "terminal" =>
       attempt'[a].status = "terminal" /\ attempt'[a].count = attempt[a].count]_vars

\* Once a page has put an article out of scope, it stays there.
DecidedTopicStays ==
  [][\A a \in Articles : article[a].section = "excluded" =>
       article'[a].section = "excluded"]_vars

\* Every article found in the window is stored, excluded or given up in the end.
Settled(a) == \/ content[a].status # "absent" \/ article[a].section = "excluded"
              \/ attempt[a].status = "terminal"
EveryArticleSettles ==
  \A a \in Articles : a \in Known ~> Settled(a) \/ remaining <= 0

\* Failures are not recorded and the oldest bodies are selected first, so that as many older
\* bodies that never get a profile as a run selects keep a younger one waiting for ever.
NeverProfiled(a) == content[a].status = "active" /\ (a \in Unanalyzable \/ a \notin object)
Starved(a) == Cardinality({b \in Articles : NeverProfiled(b) /\ content[b].rank < content[a].rank})
                >= ProfileLimit

\* Every body that can be analysed gets its profile while the window is open, unless it was
\* severed from its row, or older bodies starve it: a failure of the moment is made good.
EveryBodyProfiled ==
  \A a \in Articles \ Unanalyzable :
    content[a].status = "active" ~>
      a \in profile \/ remaining <= 0 \/ a \in severed \/ Starved(a)

\* After the end of the window every row expires and its object goes.
RetentionEnds ==
  \A a \in Articles : remaining <= 0 /\ content[a].status # "absent"
                        ~> content[a].status = "expired" /\ a \notin object
=============================================================================
