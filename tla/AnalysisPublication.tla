------------------------ MODULE AnalysisPublication ------------------------
(***************************************************************************)
(* The analysis runs of site/worker/runtime.mjs, the publication events    *)
(* they write, their delivery by site/worker/operations.mjs, and the       *)
(* rollback of a run.                                                      *)
(*                                                                         *)
(* handleAnalyze inserts a run, commits each issue with its outbox event   *)
(* in one batch, and marks the run a success; a catch block marks it       *)
(* failed.  The delivery of an event reads the run of its issue first.     *)
(* The outbox is the one of PublicationOutbox: each of its operations      *)
(* appears here inside the code that calls it.                             *)
(***************************************************************************)
EXTENDS PublicationOutbox

CONSTANTS
  Runs,        \* analysis_runs.id
  DateOf,      \* target_date of each run
  RunOf,       \* the run whose issue a publication announces
  Admins,      \* callers of handleAnalysisRollback
  AnswersLost  \* whether a statement may commit and its caller see an error

ASSUME AnalysisAssumption ==
  /\ RunOf \in [Publications -> Runs]
  /\ AnswersLost \in BOOLEAN
  /\ Null \notin Runs
  /\ HandReceipts = {} /\ HandDelivered = {}

VARIABLES
  run,      \* analysis_runs.status
  handler,  \* how far the handleAnalyze of each run has come
  rollback, \* what each rollback has read
  seen,     \* the event each delivery loop is at, and whether its run was ready
  everPublic \* history: the runs that were a success at some time

analysisVars == <<event, receipt, worker, sweep, run, handler, rollback, seen,
                  everPublic>>

RunStatuses   == {"absent", "running", "success", "failed", "rolled_back"}
HandlerStates == {"idle", "writing", "failing", "ended"}
RollbackState == [step : {"idle", "fallback", "update"}, run : Runs \cup {Null}]
NoRollback    == [step |-> "idle", run |-> Null]
SeenState     == [event : Publications \cup {Null}, ready : BOOLEAN]
NothingSeen   == [event |-> Null, ready |-> FALSE]

AnalysisInit ==
  /\ Init
  /\ run = [r \in Runs |-> "absent"]
  /\ handler = [r \in Runs |-> "idle"]
  /\ rollback = [a \in Admins |-> NoRollback]
  /\ seen = [w \in Workers |-> NothingSeen]
  /\ everPublic = {}

----------------------------------------------------------------------------
(* handleAnalyze: the statements of one handler, and where it can throw *)

\* Every issue of the run has been committed with its event
AllWritten(r) == \A p \in Publications : RunOf[p] = r => event[p].status # "absent"
\* Fault: the batches are not awaited.
NotAwaited(r) == TRUE
LoopEnded(r)  == AllWritten(r)

StartRun(r) ==
  /\ handler[r] = "idle"
  /\ handler' = [handler EXCEPT ![r] = "writing"]
  /\ run' = [run EXCEPT ![r] = "running"]
  /\ UNCHANGED <<event, receipt, worker, sweep, rollback, seen, everPublic>>

\* One issue, its children and its event; the batch may commit and its answer be lost
WriteIssue(r) ==
  /\ handler[r] = "writing"
  /\ \E p \in Publications : RunOf[p] = r /\ Enqueue(p)
  /\ \/ UNCHANGED handler
     \/ AnswersLost /\ handler' = [handler EXCEPT ![r] = "failing"]
  /\ UNCHANGED <<run, rollback, seen, everPublic>>

FinishRun(r) ==
  /\ handler[r] = "writing"
  /\ LoopEnded(r)
  /\ run' = [run EXCEPT ![r] = "success"]
  /\ everPublic' = everPublic \cup {r}
  /\ \/ handler' = [handler EXCEPT ![r] = "ended"]
     \/ AnswersLost /\ handler' = [handler EXCEPT ![r] = "failing"]
  /\ UNCHANGED <<event, receipt, worker, sweep, rollback, seen>>

\* The analysis throws before its first batch, or a statement fails.
Throw(r) ==
  /\ handler[r] = "writing"
  /\ handler' = [handler EXCEPT ![r] = "failing"]
  /\ UNCHANGED <<event, receipt, worker, sweep, run, rollback, seen, everPublic>>

\* The catch block marks the run failed whatever its status has become.
FailRun(r) ==
  /\ handler[r] = "failing"
  /\ run' = [run EXCEPT ![r] = "failed"]
  /\ handler' = [handler EXCEPT ![r] = "ended"]
  /\ UNCHANGED <<event, receipt, worker, sweep, rollback, seen, everPublic>>

\* The invocation is killed; nothing takes the run up again.
Crash(r) ==
  /\ handler[r] \in {"writing", "failing"}
  /\ handler' = [handler EXCEPT ![r] = "ended"]
  /\ UNCHANGED <<event, receipt, worker, sweep, run, rollback, seen, everPublic>>

----------------------------------------------------------------------------
(* handleAnalysisRollback: SELECT the run, SELECT a fallback, guarded UPDATE *)

SameDate(r, q) == DateOf[r] = DateOf[q]

RollbackRead(a, r) ==
  /\ rollback[a].step = "idle"
  /\ run[r] = "success"
  /\ rollback' = [rollback EXCEPT ![a] = [step |-> "fallback", run |-> r]]
  /\ UNCHANGED <<event, receipt, worker, sweep, run, handler, seen, everPublic>>

\* Without a fallback the call ends with 409.
RollbackFallback(a) ==
  /\ rollback[a].step = "fallback"
  /\ rollback' = [rollback EXCEPT ![a] =
       IF \E q \in Runs \ {rollback[a].run} : SameDate(rollback[a].run, q) /\ run[q] = "success"
       THEN [step |-> "update", run |-> rollback[a].run] ELSE NoRollback]
  /\ UNCHANGED <<event, receipt, worker, sweep, run, handler, seen, everPublic>>

\* Fault: the UPDATE trusts the status read at the start.
TrustsStatus(r) == TRUE
StillSuccess(r) == run[r] = "success"

RollbackUpdate(a) ==
  /\ rollback[a].step = "update"
  /\ run' = IF StillSuccess(rollback[a].run)
            THEN [run EXCEPT ![rollback[a].run] = "rolled_back"] ELSE run
  /\ rollback' = [rollback EXCEPT ![a] = NoRollback]
  /\ UNCHANGED <<event, receipt, worker, sweep, handler, seen, everPublic>>

----------------------------------------------------------------------------
(* deliverLocalPublicationBatch, and the maintenance that runs beside it *)

Claim(w) == ClaimDue(w) /\ UNCHANGED <<run, handler, rollback, seen, everPublic>>

\* Fault: a run that ended is good enough.
RunEnded(p) == run[RunOf[p]] \in {"success", "failed"}
AggregateReady(p) == run[RunOf[p]] = "success"

SelectAggregate(w, p) ==
  /\ worker[w].mode = "working" /\ p \in worker[w].batch
  /\ seen[w].event = Null
  /\ seen' = [seen EXCEPT ![w] = [event |-> p, ready |-> AggregateReady(p)]]
  /\ UNCHANGED <<event, receipt, worker, sweep, run, handler, rollback, everPublic>>

\* A lost answer throws: the loop is left, and only the end of the batch remains.
Deliver(w) ==
  /\ seen[w].event # Null /\ seen[w].ready
  /\ RecordDelivery(w, seen[w].event)
  /\ seen' = IF worker' = worker THEN seen ELSE [seen EXCEPT ![w] = NothingSeen]
  /\ UNCHANGED <<run, handler, rollback, everPublic>>

\* AGGREGATE_NOT_READY is retryable.
NotReady(w) ==
  /\ seen[w].event # Null /\ ~seen[w].ready
  /\ FailRead(w, seen[w].event) /\ worker'[w].retryable
  /\ UNCHANGED <<run, handler, rollback, seen, everPublic>>

Settle(w) ==
  /\ FailWrite(w)
  /\ seen' = [seen EXCEPT ![w] = NothingSeen]
  /\ UNCHANGED <<run, handler, rollback, everPublic>>

Leave(w) ==
  /\ EndBatch(w)
  /\ seen' = [seen EXCEPT ![w] = NothingSeen]
  /\ UNCHANGED <<run, handler, rollback, everPublic>>

Maintain ==
  /\ RecoverExpiredClaims \/ Tick \/ \E s \in Sweeps : SweepNext(s)
  /\ UNCHANGED <<run, handler, rollback, seen, everPublic>>

----------------------------------------------------------------------------
RunNext(r) ==
  StartRun(r) \/ WriteIssue(r) \/ FinishRun(r) \/ Throw(r) \/ FailRun(r) \/ Crash(r)
RollbackNext(a) ==
  RollbackFallback(a) \/ RollbackUpdate(a) \/ \E r \in Runs : RollbackRead(a, r)
DeliveryNext(w) ==
  \/ Claim(w) \/ Deliver(w) \/ NotReady(w) \/ Settle(w) \/ Leave(w)
  \/ \E p \in Publications : SelectAggregate(w, p)

AnalysisNext ==
  \/ \E r \in Runs : RunNext(r)
  \/ \E a \in Admins : RollbackNext(a)
  \/ \E w \in Workers : DeliveryNext(w)
  \/ Maintain

AnalysisSpec == AnalysisInit /\ [][AnalysisNext]_analysisVars

----------------------------------------------------------------------------
(* Properties *)

\* Every row and every caller's record has its type.
AnalysisTypeOK ==
  /\ TypeOK
  /\ run \in [Runs -> RunStatuses]
  /\ handler \in [Runs -> HandlerStates]
  /\ rollback \in [Admins -> RollbackState]
  /\ seen \in [Workers -> SeenState]
  /\ everPublic \subseteq Runs

\* A snapshot that is or was public is whole: every issue of a run that ever
\* became a success was committed before, and with it the event announcing it.
SnapshotWhole == \A r \in everPublic : AllWritten(r)

\* An issue is announced only if its run was a success: no delivery overtakes
\* the analysis, although events are claimed while their run is still running
\* and the status is read in a statement before the one that records, and none
\* announces a run that failed without ever being public, all its issues written.
DeliveredWasPublic ==
  \A p \in Publications : event[p].status = "delivered" => RunOf[p] \in everPublic

\* A run that ended stays ended: a failed run is never rolled back and neither
\* kind is public again, although a catch block and a rollback may both hold
\* an old status when they write.
EndedStays ==
  [][\A r \in Runs :
       /\ run[r] = "failed" => run'[r] = "failed"
       /\ run[r] = "rolled_back" => run'[r] \in {"rolled_back", "failed"}]_analysisVars

\* A rollback leaves its date another successful snapshot
\* (site/docs/public-api-contract.md:99).
RollbackKeepsSnapshot ==
  [][\A r \in Runs :
       run[r] = "success" /\ run'[r] = "rolled_back" =>
         \E q \in Runs \ {r} : SameDate(r, q) /\ run'[q] = "success"]_analysisVars
============================================================================
