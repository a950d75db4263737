------------------------ MODULE ScheduledOperations -------------------------
(***************************************************************************)
(* runScheduledOperations of site/worker/operations.mjs: a maintenance job *)
(* for every minute, carried by whichever run acquires it through three    *)
(* checkpointed phases over the publication outbox.  The job queue and the *)
(* outbox are those of DurableJobs and PublicationOutbox, each call of     *)
(* theirs taken here as one step; a run may die between any two.           *)
(***************************************************************************)
EXTENDS Naturals, FiniteSets

CONSTANTS
  OpsRuns,         \* runs of the cron, and of an operator
  MinuteOf,     \* the minute each run is for
  Events,       \* publication events
  NoRun,
  JobAttempts,  \* attempts of a job and of an event
  MaxRedrives   \* bound: redrives

Minutes == {MinuteOf[r] : r \in OpsRuns}
ASSUME OperationsAssumption ==
  NoRun \notin OpsRuns \cup Minutes /\ JobAttempts \in Nat \ {0} /\ MaxRedrives \in Nat

VARIABLES
  job,        \* the durable job of each minute
  delivery,      \* the outbox events
  opsRun,        \* the runs
  performed,  \* history: the phases carried out for each job
  redrives    \* redrives so far

operationsVars == <<job, delivery, opsRun, performed, redrives>>

Checkpoints == 0 .. 3
Job == [status : {"absent", "due", "leased", "succeeded", "dead"}, holder : OpsRuns \cup {NoRun},
        live : BOOLEAN, attempts : 0 .. JobAttempts, phase : Checkpoints]
Event == [status : {"pending", "claimed", "delivered", "terminal"}, holder : OpsRuns \cup {NoRun},
          live : BOOLEAN, attempts : 0 .. JobAttempts]
\* job, phase: the job acquired and the checkpoint the run knows of.
Run == [step : {"start", "acquire", "work", "deliver", "save", "renew", "fail", "end"},
        job : Minutes \cup {NoRun}, phase : Checkpoints]
NotStarted == [step |-> "start", job |-> NoRun, phase |-> 0]

OperationsInit ==
  /\ job = [m \in Minutes |-> [status |-> "absent", holder |-> NoRun, live |-> FALSE,
                               attempts |-> 0, phase |-> 0]]
  /\ delivery = [e \in Events |-> [status |-> "pending", holder |-> NoRun, live |-> FALSE,
                                attempts |-> 0]]
  /\ opsRun = [r \in OpsRuns |-> NotStarted]
  /\ performed = [m \in Minutes |-> {}] /\ redrives = 0

Holds(r) == LET m == opsRun[r].job IN job[m].status = "leased" /\ job[m].holder = r /\ job[m].live
Steps(r, step) == opsRun' = [opsRun EXCEPT ![r].step = step]
At(r, step) == opsRun[r].step = step
\* Fault: the attempts are never used up.
NeverSpent(row) == FALSE
SpentUp(row) == row.attempts >= JobAttempts

\* A job or an event is taken by a run, or is let go in a status.
TakenBy(row, r, status) ==
  [row EXCEPT !.status = status, !.holder = r, !.live = TRUE, !.attempts = @ + 1]
LetGo(row, status) == [row EXCEPT !.status = status, !.holder = NoRun, !.live = FALSE]
\* Fault: a job whose lease ran out starts anew.
StartedAnew(row) == LetGo([row EXCEPT !.phase = 0], IF SpentUp(row) THEN "dead" ELSE "due")
ReleasedJob(row) == LetGo(row, IF SpentUp(row) THEN "dead" ELSE "due")
Unclaimed(row)   == LetGo(row, IF SpentUp(row) THEN "terminal" ELSE "pending")

----------------------------------------------------------------------------
(* Starting: leases that have run out, the minute's job, any job that is due *)

Begin(r) ==
  /\ At(r, "start")
  /\ job' = [m \in Minutes |->
       IF job[m].status = "leased" /\ ~job[m].live THEN ReleasedJob(job[m])
       ELSE IF m = MinuteOf[r] /\ job[m].status = "absent" THEN [job[m] EXCEPT !.status = "due"]
       ELSE job[m]]
  /\ Steps(r, "acquire")
  /\ UNCHANGED <<delivery, performed, redrives>>

Acquire(r) ==
  /\ At(r, "acquire")
  /\ \/ \E m \in Minutes :
          /\ job[m].status = "due" /\ ~SpentUp(job[m])
          /\ job' = [job EXCEPT ![m] = TakenBy(job[m], r, "leased")]
          /\ opsRun' = [opsRun EXCEPT ![r] = [job |-> m, phase |-> job[m].phase,
                                        step |-> IF job[m].phase < 1 THEN "work" ELSE "renew"]]
     \/ (\A m \in Minutes : job[m].status # "due") /\ Steps(r, "end") /\ UNCHANGED job
  /\ UNCHANGED <<delivery, performed, redrives>>

----------------------------------------------------------------------------
(* The phases.  Each is carried out first and checkpointed after: a run that dies *)
(* between the two leaves the phase to be carried out again.                      *)

Phase(r) == opsRun[r].phase
Carried(r, phase) == performed' = [performed EXCEPT ![opsRun[r].job] = @ \cup {phase}]

RecoverClaims(r) ==
  /\ At(r, "work") /\ Phase(r) < 1
  /\ delivery' = [e \in Events |-> IF delivery[e].status = "claimed" /\ ~delivery[e].live
                 THEN Unclaimed(delivery[e]) ELSE delivery[e]]
  /\ Carried(r, 1) /\ Steps(r, "save")
  /\ UNCHANGED <<job, redrives>>

\* The receipts it looks for are those an operator wrote, modelled in PublicationOutbox.
Reconcile(r) ==
  /\ At(r, "work") /\ Phase(r) = 1
  /\ Carried(r, 2) /\ Steps(r, "save")
  /\ UNCHANGED <<job, delivery, redrives>>

Mine(r) == {e \in Events : delivery[e].status = "claimed" /\ delivery[e].holder = r}

ClaimBatch(r) ==
  /\ At(r, "work") /\ Phase(r) = 2
  /\ delivery' = [e \in Events |-> IF delivery[e].status = "pending" /\ ~SpentUp(delivery[e])
                 THEN TakenBy(delivery[e], r, "claimed") ELSE delivery[e]]
  /\ Steps(r, "deliver")
  /\ UNCHANGED <<job, performed, redrives>>

\* The next event of the batch: a receipt, a failure to retry or a last one; a claim
\* that has run out throws and leaves the rest of the batch claimed.
DeliverEvent(r) ==
  /\ At(r, "deliver")
  /\ \E e \in Mine(r) :
       IF delivery[e].live
       THEN /\ \/ delivery' = [delivery EXCEPT ![e] = LetGo(delivery[e], "delivered")]
               \/ delivery' = [delivery EXCEPT ![e] = Unclaimed(delivery[e])]
               \/ delivery' = [delivery EXCEPT ![e] = LetGo(delivery[e], "terminal")]
            /\ UNCHANGED opsRun
       ELSE Steps(r, "fail") /\ UNCHANGED delivery
  /\ UNCHANGED <<job, performed, redrives>>

BatchDelivered(r) ==
  /\ At(r, "deliver") /\ Mine(r) = {}
  /\ Carried(r, 3) /\ Steps(r, "save")
  /\ UNCHANGED <<job, delivery, redrives>>

MayCheckpoint(r) == Holds(r)

\* compareAndSetCheckpoint also compares the version: the holder of a live lease is the
\* only writer, so the versions agree.
Checkpoint(r) ==
  /\ At(r, "save")
  /\ IF MayCheckpoint(r)
     THEN /\ job' = [job EXCEPT ![opsRun[r].job].phase = Phase(r) + 1]
          /\ opsRun' = [opsRun EXCEPT ![r].phase = @ + 1,
                                ![r].step = IF Phase(r) < 2 THEN "renew" ELSE "work"]
     ELSE Steps(r, "fail") /\ UNCHANGED job
  /\ UNCHANGED <<delivery, performed, redrives>>

\* renewLease, once or twice between two phases
Renew(r) ==
  /\ At(r, "renew")
  /\ Steps(r, IF Holds(r) THEN "work" ELSE "fail")
  /\ UNCHANGED <<job, delivery, performed, redrives>>

Complete(r) ==
  /\ At(r, "work") /\ Phase(r) = 3
  /\ IF Holds(r)
     THEN /\ job' = [job EXCEPT ![opsRun[r].job] = LetGo(job[opsRun[r].job], "succeeded")]
          /\ Steps(r, "end")
     ELSE Steps(r, "fail") /\ UNCHANGED job
  /\ UNCHANGED <<delivery, performed, redrives>>

\* The catch block fails the job, unless the lease has passed to another run.
FailJob(r) ==
  /\ At(r, "fail")
  /\ job' = IF Holds(r) THEN [job EXCEPT ![opsRun[r].job] = ReleasedJob(job[opsRun[r].job])]
            ELSE job
  /\ Steps(r, "end")
  /\ UNCHANGED <<delivery, performed, redrives>>

----------------------------------------------------------------------------
(* What may happen to a run at any time *)

\* A database error in any phase ends in the catch block.
Errs(r) ==
  /\ opsRun[r].step \in {"work", "deliver", "save", "renew"} /\ Steps(r, "fail")
  /\ UNCHANGED <<job, delivery, performed, redrives>>
Dies(r) ==
  /\ opsRun[r].step # "end" /\ Steps(r, "end")
  /\ UNCHANGED <<job, delivery, performed, redrives>>

LeaseEnds ==
  /\ \/ \E m \in Minutes : job[m].live /\ job' = [job EXCEPT ![m].live = FALSE] /\ UNCHANGED delivery
     \/ \E e \in Events : delivery[e].live /\ delivery' = [delivery EXCEPT ![e].live = FALSE] /\ UNCHANGED job
  /\ UNCHANGED <<opsRun, performed, redrives>>

\* The operator redrives a dead job; it keeps its checkpoint.
RedriveJob ==
  /\ redrives < MaxRedrives /\ redrives' = redrives + 1
  /\ \E m \in Minutes :
       job[m].status = "dead" /\ job' = [job EXCEPT ![m].status = "due", ![m].attempts = 0]
  /\ UNCHANGED <<delivery, opsRun, performed>>

\* The next minute, or the operator, starts a run that has ended anew.
Again(r) ==
  /\ At(r, "end")
  /\ \E m \in Minutes : job[m].status \in {"due", "leased"}
  /\ opsRun' = [opsRun EXCEPT ![r] = NotStarted]
  /\ UNCHANGED <<job, delivery, performed, redrives>>

OperationsNext ==
  \/ LeaseEnds \/ RedriveJob
  \/ \E r \in OpsRuns :
       \/ Begin(r) \/ Acquire(r) \/ RecoverClaims(r) \/ Reconcile(r) \/ ClaimBatch(r)
       \/ DeliverEvent(r) \/ BatchDelivered(r) \/ Checkpoint(r) \/ Renew(r) \/ Complete(r)
       \/ FailJob(r) \/ Errs(r) \/ Dies(r) \/ Again(r)
OperationsSpec == OperationsInit /\ [][OperationsNext]_operationsVars

----------------------------------------------------------------------------
(* Properties *)

OperationsTypeOK ==
  /\ job \in [Minutes -> Job] /\ delivery \in [Events -> Event] /\ opsRun \in [OpsRuns -> Run]
  /\ performed \in [Minutes -> SUBSET (1 .. 3)] /\ redrives \in 0 .. MaxRedrives

\* A checkpoint is never taken back, stands only for phases that have been carried out
\* for the job, and a job is completed with all three, whichever runs carried them, died
\* between a phase and its checkpoint, or lost the lease to another.
CheckpointKept ==
  [][\A m \in Minutes :
       /\ job'[m].phase >= job[m].phase
       /\ 1 .. job'[m].phase \subseteq performed'[m]
       /\ job[m].status = "succeeded" => job'[m].status = "succeeded" /\ performed[m] = 1 .. 3
    ]_operationsVars
=============================================================================
