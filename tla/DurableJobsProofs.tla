------------------------- MODULE DurableJobsProofs -------------------------
(* Theorems about DurableJobs, for all values of its constants. *)
EXTENDS DurableJobs, TLAPS

----------------------------------------------------------------------------
(* Lemmas about the operators *)

\* A retry never waits longer than the cap.
LEMMA RetryDelayRange ==
  ASSUME NEW attempt \in Nat
  PROVE  RetryDelay(attempt) \in 0..RetryMaxMs
BY ConstantsAssumption DEF RetryDelay

\* Ageing keeps a stamp a stamp.
LEMMA AgedStamp ==
  ASSUME NEW t \in Stamps
  PROVE  Aged(t) \in Stamps
BY ConstantsAssumption DEF Stamps, Aged, Floor, Horizon

\* The stamps a statement writes are stamps.
LEMMA WrittenStamps ==
  /\ Floor \in Stamps
  /\ \A now \in Readings : /\ now \in Stamps
                           /\ now + LeaseMs \in Stamps
                           /\ \A d \in 0..RetryMaxMs : now + d \in Stamps
  /\ \A d \in 0..MaxDelay : d \in Stamps
BY ConstantsAssumption DEF Stamps, Readings, Floor, Horizon

\* A row whose lease columns are cleared
LEMMA ReleasedRow ==
  ASSUME NEW row \in JobRow, NEW s \in Statuses
  PROVE  /\ Released(row, s) \in JobRow
         /\ Released(row, s).status = s
         /\ Released(row, s).leaseToken = Null
         /\ Released(row, s).leaseOwner = Null
         /\ Released(row, s).attemptCount = row.attemptCount
         /\ Released(row, s).checkpointVersion = row.checkpointVersion
         /\ Released(row, s).deadLetterId = row.deadLetterId
BY WrittenStamps DEF Released, JobRow

\* The row that waits for a retry
LEMMA RetriedRow ==
  ASSUME NEW row \in JobRow, NEW now \in Readings
  PROVE  /\ Retried(row, now) \in JobRow
         /\ Retried(row, now).status = "retry_wait"
         /\ Retried(row, now).leaseToken = Null
         /\ Retried(row, now).leaseOwner = Null
         /\ Retried(row, now).attemptCount = row.attemptCount
         /\ Retried(row, now).checkpointVersion = row.checkpointVersion
<1>1. now + RetryDelay(row.attemptCount) \in Stamps
  BY RetryDelayRange, WrittenStamps DEF JobRow
<1>2. "retry_wait" \in Statuses
  BY DEF Statuses
<1>. QED
  BY <1>1, <1>2, ReleasedRow DEF Retried, JobRow

\* The row of a job that is given up, naming its letter
LEMMA BuriedRow ==
  ASSUME NEW row \in JobRow, NEW l \in Letters
  PROVE  /\ Buried(row, l) \in JobRow
         /\ Buried(row, l).status = "dead_lettered"
         /\ Buried(row, l).leaseToken = Null
         /\ Buried(row, l).leaseOwner = Null
         /\ Buried(row, l).attemptCount = row.attemptCount
         /\ Buried(row, l).checkpointVersion = row.checkpointVersion
         /\ Buried(row, l).deadLetterId = l
<1>1. "dead_lettered" \in Statuses
  BY DEF Statuses
<1>. QED
  BY <1>1, ReleasedRow DEF Buried, JobRow

----------------------------------------------------------------------------
(* Type correctness *)

\* A busy worker remembers a job and the token of its lease.
WorkerHolds ==
  \A w \in Workers : worker[w].mode # "idle" => /\ worker[w].job \in Jobs
                                                /\ worker[w].token \in Tokens

LeaseColumns(row) == /\ row.status = "running" <=> row.leaseToken # Null
                     /\ row.status = "running" <=> row.leaseOwner # Null

TInv == TypeOK /\ WorkerHolds

\* Writing one well-formed row keeps the table well-formed.
LEMMA WriteRow ==
  ASSUME NEW j \in Jobs, NEW row \in JobRow, LeaseColumns(row),
         TypeOK, job' = [job EXCEPT ![j] = row]
  PROVE  /\ job' \in [Jobs -> JobRow]
         /\ \A k \in Jobs : LeaseColumns(job'[k])
BY DEF TypeOK, LeaseColumns

\* What a worker remembers after a call that answers with `view`.
LEMMA AnsweredWorker ==
  ASSUME NEW w \in Workers, NEW view \in WorkerState, TInv, worker[w].mode = "working",
         view.mode # "idle" => view.job \in Jobs /\ view.token \in Tokens,
         Answered(w, view)
  PROVE  worker' \in [Workers -> WorkerState] /\ WorkerHolds'
<1>1. worker[w] \in WorkerState /\ worker[w].job \in Jobs /\ worker[w].token \in Tokens
  BY DEF TInv, TypeOK, WorkerHolds
<1>2. [worker[w] EXCEPT !.mode = "failing"] \in WorkerState
  BY <1>1 DEF WorkerState, Modes
<1>3. CASE worker' = [worker EXCEPT ![w] = view]
  BY <1>3 DEF TInv, TypeOK, WorkerHolds
<1>4. CASE worker' = [worker EXCEPT ![w].mode = "failing"]
  <2>1. worker' = [worker EXCEPT ![w] = [worker[w] EXCEPT !.mode = "failing"]]
    BY <1>4 DEF TInv, TypeOK
  <2>2. worker' \in [Workers -> WorkerState]
    BY <2>1, <1>2 DEF TInv, TypeOK
  <2>3. /\ worker'[w].job = worker[w].job
        /\ worker'[w].token = worker[w].token
    BY <2>1, <1>1 DEF TInv, TypeOK, WorkerState
  <2>4. \A v \in Workers \ {w} : worker'[v] = worker[v]
    BY <2>1 DEF TInv, TypeOK
  <2>. QED
    BY <2>2, <2>3, <2>4, <1>1 DEF TInv, WorkerHolds
<1>. QED
  BY <1>3, <1>4 DEF Answered

\* An idle worker is a worker state.
LEMMA IdleWorker == Idle \in WorkerState /\ Idle.mode = "idle"
BY NullAssumption, ConstantsAssumption DEF Idle, WorkerState, Modes, Readings, Floor

\* A generated token is one nobody knows.
LEMMA NewTokenFresh ==
  ASSUME FreshTokens # {}
  PROVE  NewToken \in FreshTokens
BY DEF NewToken

\* The empty tables are well-formed.
LEMMA InitTInv == Init => TInv
<1> SUFFICES ASSUME Init PROVE TInv
  OBVIOUS
<1>1. NoJob \in JobRow /\ LeaseColumns(NoJob)
  BY WrittenStamps, ConstantsAssumption DEF NoJob, JobRow, Statuses, LeaseColumns
<1>2. NoLetter \in LetterRow
  BY DEF NoLetter, LetterRow
<1>3. NoRecovery \in RecoveryState
  BY ConstantsAssumption DEF NoRecovery, RecoveryState, Readings, Floor
<1>4. NoRedrive \in RedriveState
  BY DEF NoRedrive, RedriveState
<1>. QED
  BY <1>1, <1>2, <1>3, <1>4, IdleWorker DEF Init, TInv, TypeOK, WorkerHolds, LeaseColumns

\* The row an enqueue inserts
LEMMA EnqueuedRow ==
  ASSUME NEW at \in 0..MaxDelay
  PROVE  /\ Enqueued(at) \in JobRow /\ LeaseColumns(Enqueued(at))
         /\ Enqueued(at).status = "queued" /\ Enqueued(at).attemptCount = 0
<1>1. at \in Stamps /\ "queued" \in Statuses
  BY WrittenStamps DEF Statuses
<1>2. /\ NoJob \in JobRow
      /\ NoJob.leaseToken = Null /\ NoJob.leaseOwner = Null /\ NoJob.attemptCount = 0
  BY WrittenStamps, ConstantsAssumption DEF NoJob, JobRow, Statuses
<1>. QED
  BY <1>1, <1>2 DEF Enqueued, JobRow, LeaseColumns

\* The row a worker has leased
LEMMA LeasedRow ==
  ASSUME NEW row \in JobRow, NEW w \in Workers, NEW token \in Tokens, NEW now \in Readings
  PROVE  LET new == Leased(row, OwnerOf[w], token, now)
         IN  /\ new \in JobRow /\ LeaseColumns(new)
             /\ new.status = "running" /\ new.leaseToken = token
             /\ new.attemptCount = row.attemptCount + 1
             /\ new.checkpointVersion = row.checkpointVersion
<1> DEFINE new == Leased(row, OwnerOf[w], token, now)
<1>1. OwnerOf[w] \in Owners /\ OwnerOf[w] # Null /\ token # Null
  BY ConstantsAssumption, NullAssumption
<1>2. now + LeaseMs \in Stamps
  BY WrittenStamps
<1>3. new \in JobRow
  <2>1. "running" \in Statuses /\ row.attemptCount + 1 \in Nat
    BY DEF Statuses, JobRow
  <2>2. /\ OwnerOf[w] \in Owners \cup {Null} /\ token \in Tokens \cup {Null}
        /\ Null \in Letters \cup {Null}
    BY <1>1
  <2>. QED
    BY <1>2, <2>1, <2>2 DEF Leased, JobRow
<1>4. /\ new.status = "running" /\ new.leaseToken = token
      /\ new.leaseOwner = OwnerOf[w]
      /\ new.attemptCount = row.attemptCount + 1
      /\ new.checkpointVersion = row.checkpointVersion
  BY DEF Leased, JobRow
<1>. QED
  BY <1>1, <1>3, <1>4 DEF LeaseColumns

\* The row of a job that succeeded
LEMMA CompletedRow ==
  ASSUME NEW row \in JobRow
  PROVE  /\ Completed(row) \in JobRow /\ LeaseColumns(Completed(row))
         /\ Completed(row).status = "succeeded"
<1>1. "succeeded" \in Statuses
  BY DEF Statuses
<1>. QED
  BY <1>1, ReleasedRow DEF Completed, JobRow, LeaseColumns

\* The row a redrive leaves
LEMMA RedrivenRow ==
  ASSUME NEW row \in JobRow, NEW now \in Readings
  PROVE  /\ Redriven(row, now) \in JobRow /\ LeaseColumns(Redriven(row, now))
         /\ Redriven(row, now).status = "queued" /\ Redriven(row, now).attemptCount = 0
         /\ Redriven(row, now).leaseToken = Null
<1>1. "queued" \in Statuses
  BY DEF Statuses
<1>. QED
  BY <1>1, ReleasedRow, WrittenStamps DEF Redriven, JobRow, LeaseColumns

\* The row a cancellation leaves
LEMMA CancelledRow ==
  ASSUME NEW row \in JobRow
  PROVE  LET new == Released(row, "cancelled")
         IN  new \in JobRow /\ LeaseColumns(new) /\ new.status = "cancelled"
<1>1. "cancelled" \in Statuses
  BY DEF Statuses
<1>. QED
  BY <1>1, ReleasedRow DEF LeaseColumns

\* One lemma per action: it keeps the tables and the callers' records well-formed.
LEMMA EnqueueTInv ==
  ASSUME NEW j \in Jobs, TInv, Enqueue(j)
  PROVE  TInv'
<1>1. PICK at \in 0..MaxDelay : job' = [job EXCEPT ![j] = Enqueued(at)]
  BY DEF Enqueue
<1>2. job' \in [Jobs -> JobRow] /\ \A k \in Jobs : LeaseColumns(job'[k])
  BY <1>1, EnqueuedRow, WriteRow DEF TInv
<1>. QED
  BY <1>2 DEF Enqueue, TInv, TypeOK, WorkerHolds, LeaseColumns

\* What acquireDueJob does, with its choices named
LEMMA AcquireChoice ==
  ASSUME NEW w \in Workers, TInv, Acquire(w)
  PROVE  /\ worker[w].mode = "idle"
         /\ NewToken \in FreshTokens /\ NewToken \in Tokens
         /\ \E now \in Readings, j \in Jobs :
              /\ job[j] \in JobRow /\ LeaseColumns(job[j])
              /\ j \in Due(now)
              /\ job' = [job EXCEPT ![j] = Leased(job[j], OwnerOf[w], NewToken, now)]
              /\ worker' = [worker EXCEPT ![w] =
                   [Idle EXCEPT !.mode = "working", !.job = j, !.token = NewToken,
                                !.version = job[j].checkpointVersion]]
<1>1. PICK now \in Readings : \E j \in Due(now) :
        /\ job' = [job EXCEPT ![j] = Leased(job[j], OwnerOf[w], NewToken, now)]
        /\ worker' = [worker EXCEPT ![w] =
             [Idle EXCEPT !.mode = "working", !.job = j, !.token = NewToken,
                          !.version = job[j].checkpointVersion]]
  BY DEF Acquire
<1>2. PICK j \in Due(now) :
        /\ job' = [job EXCEPT ![j] = Leased(job[j], OwnerOf[w], NewToken, now)]
        /\ worker' = [worker EXCEPT ![w] =
             [Idle EXCEPT !.mode = "working", !.job = j, !.token = NewToken,
                          !.version = job[j].checkpointVersion]]
  BY <1>1
<1>3. j \in Jobs /\ job[j] \in JobRow /\ LeaseColumns(job[j])
  BY DEF Due, TInv, TypeOK, LeaseColumns
<1>4. NewToken \in FreshTokens /\ NewToken \in Tokens
  BY NewTokenFresh DEF Acquire, FreshTokens
<1>5. worker[w].mode = "idle"
  BY DEF Acquire
<1>. QED
  BY <1>2, <1>3, <1>4, <1>5

\* Acquire keeps the tables well-formed.
LEMMA AcquireTInv ==
  ASSUME NEW w \in Workers, TInv, Acquire(w)
  PROVE  TInv'
<1>1. PICK now \in Readings, j \in Jobs :
        /\ job[j] \in JobRow /\ LeaseColumns(job[j])
        /\ j \in Due(now)
        /\ job' = [job EXCEPT ![j] = Leased(job[j], OwnerOf[w], NewToken, now)]
        /\ worker' = [worker EXCEPT ![w] =
             [Idle EXCEPT !.mode = "working", !.job = j, !.token = NewToken,
                          !.version = job[j].checkpointVersion]]
  BY AcquireChoice
<1>2. NewToken \in Tokens
  BY AcquireChoice
<1>3. job' \in [Jobs -> JobRow] /\ \A k \in Jobs : LeaseColumns(job'[k])
  BY <1>1, <1>2, LeasedRow, WriteRow DEF TInv
<1> DEFINE view == [Idle EXCEPT !.mode = "working", !.job = j, !.token = NewToken,
                                !.version = job[j].checkpointVersion]
<1>4. /\ view \in WorkerState
      /\ view.job = j
      /\ view.token = NewToken
  BY <1>1, <1>2, IdleWorker DEF Idle, WorkerState, Modes, JobRow
<1>5. worker' = [worker EXCEPT ![w] = view]
  BY <1>1
<1>6. worker' \in [Workers -> WorkerState] /\ WorkerHolds'
  <2> HIDE DEF view
  <2>. QED BY <1>2, <1>4, <1>5 DEF TInv, TypeOK, WorkerHolds
<1>. QED
  BY <1>3, <1>6 DEF Acquire, TInv, TypeOK, LeaseColumns

\* RenewLease keeps the tables well-formed.
LEMMA RenewLeaseTInv ==
  ASSUME NEW w \in Workers, TInv, RenewLease(w)
  PROVE  TInv'
<1> DEFINE j == worker[w].job
<1>1. PICK now \in Readings :
        job' = [job EXCEPT ![j].leaseExpiresAt = Later(@, now + LeaseMs)]
  BY DEF RenewLease
<1>2. j \in Jobs /\ job[j] \in JobRow /\ LeaseColumns(job[j])
  BY DEF RenewLease, TInv, TypeOK, WorkerHolds, LeaseColumns
<1> DEFINE row == [job[j] EXCEPT !.leaseExpiresAt =
                                   Later(job[j].leaseExpiresAt, now + LeaseMs)]
<1>3. row \in JobRow /\ LeaseColumns(row)
  BY <1>2, WrittenStamps DEF JobRow, LeaseColumns, Later
<1>4. job' = [job EXCEPT ![j] = row]
  BY <1>1, <1>2
<1>5. job' \in [Jobs -> JobRow] /\ \A k \in Jobs : LeaseColumns(job'[k])
  <2> HIDE DEF row, j
  <2>. QED BY <1>2, <1>3, <1>4, WriteRow DEF TInv
<1>6. worker' \in [Workers -> WorkerState] /\ WorkerHolds'
  BY AnsweredWorker DEF RenewLease, TInv, TypeOK, WorkerHolds
<1>. QED
  BY <1>5, <1>6 DEF RenewLease, TInv, TypeOK, LeaseColumns

\* Checkpoint keeps the tables well-formed.
LEMMA CheckpointTInv ==
  ASSUME NEW w \in Workers, TInv, CompareAndSetCheckpoint(w)
  PROVE  TInv'
<1> DEFINE j == worker[w].job
<1>1. job' = [job EXCEPT ![j].checkpointVersion = @ + 1]
  BY DEF CompareAndSetCheckpoint
<1>2. j \in Jobs /\ job[j] \in JobRow /\ LeaseColumns(job[j])
  BY DEF CompareAndSetCheckpoint, TInv, TypeOK, WorkerHolds, LeaseColumns
<1> DEFINE row == [job[j] EXCEPT !.checkpointVersion = job[j].checkpointVersion + 1]
           view == [worker[w] EXCEPT !.version = worker[w].version + 1]
<1>3. row \in JobRow /\ LeaseColumns(row)
  BY <1>2, ConstantsAssumption DEF CompareAndSetCheckpoint, JobRow, LeaseColumns
<1>4. job' = [job EXCEPT ![j] = row]
  BY <1>1, <1>2
<1>5. job' \in [Jobs -> JobRow] /\ \A k \in Jobs : LeaseColumns(job'[k])
  <2> HIDE DEF row, j
  <2>. QED BY <1>2, <1>3, <1>4, WriteRow DEF TInv
<1>6. worker[w] \in WorkerState /\ worker[w].version < MaxVersion
  BY DEF CompareAndSetCheckpoint, TInv, TypeOK
<1>7. view \in WorkerState /\ view.job = worker[w].job /\ view.token = worker[w].token
  BY <1>6, ConstantsAssumption DEF WorkerState
<1>8. worker[w].mode = "working" /\ Answered(w, view)
  BY DEF CompareAndSetCheckpoint
<1>9. worker' \in [Workers -> WorkerState] /\ WorkerHolds'
  <2>1. worker[w].job \in Jobs /\ worker[w].token \in Tokens
    BY <1>8 DEF TInv, WorkerHolds
  <2> HIDE DEF view
  <2>. QED BY <2>1, <1>7, <1>8, AnsweredWorker
<1>. QED
  BY <1>5, <1>9 DEF CompareAndSetCheckpoint, TInv, TypeOK, LeaseColumns

\* Complete keeps the tables well-formed.
LEMMA CompleteTInv ==
  ASSUME NEW w \in Workers, TInv, Complete(w)
  PROVE  TInv'
<1>1. worker[w].job \in Jobs /\ job[worker[w].job] \in JobRow
  BY DEF Complete, TInv, TypeOK, WorkerHolds
<1>2. job' \in [Jobs -> JobRow] /\ \A k \in Jobs : LeaseColumns(job'[k])
  BY <1>1, CompletedRow, WriteRow DEF Complete, TInv
<1>3. worker' \in [Workers -> WorkerState] /\ WorkerHolds'
  BY AnsweredWorker, IdleWorker DEF Complete
<1>. QED
  BY <1>2, <1>3 DEF Complete, TInv, TypeOK, LeaseColumns

\* WorkThrows keeps the tables well-formed.
LEMMA WorkThrowsTInv ==
  ASSUME NEW w \in Workers, TInv, WorkThrows(w)
  PROVE  TInv'
<1>1. worker' \in [Workers -> WorkerState] /\ WorkerHolds'
  BY AnsweredWorker DEF WorkThrows, Answered, TInv, TypeOK, WorkerHolds
<1>. QED
  BY <1>1 DEF WorkThrows, TInv, TypeOK

\* Abandon keeps the tables well-formed.
LEMMA AbandonTInv ==
  ASSUME NEW w \in Workers, TInv, Abandon(w)
  PROVE  TInv'
BY IdleWorker DEF Abandon, TInv, TypeOK, WorkerHolds

\* FailRead keeps the tables well-formed.
LEMMA FailReadTInv ==
  ASSUME NEW w \in Workers, TInv, FailRead(w)
  PROVE  TInv'
<1>1. PICK now \in Readings :
        worker' = [worker EXCEPT ![w].mode = "fail_sent", ![w].now = now,
                                 ![w].attempt = job[worker[w].job].attemptCount]
  BY DEF FailRead
<1>2. /\ worker[w] \in WorkerState
      /\ worker[w].job \in Jobs /\ worker[w].token \in Tokens
      /\ job[worker[w].job].attemptCount \in Nat
  BY DEF FailRead, TInv, TypeOK, WorkerHolds, JobRow
<1> DEFINE view == [worker[w] EXCEPT !.mode = "fail_sent", !.now = now,
                                     !.attempt = job[worker[w].job].attemptCount]
<1>3. /\ view \in WorkerState
      /\ view.job = worker[w].job
      /\ view.token = worker[w].token
  BY <1>2 DEF WorkerState, Modes
<1>4. worker' = [worker EXCEPT ![w] = view]
  BY <1>1 DEF TInv, TypeOK
<1>5. worker' \in [Workers -> WorkerState] /\ WorkerHolds'
  <2> HIDE DEF view
  <2>. QED BY <1>2, <1>3, <1>4 DEF TInv, TypeOK, WorkerHolds
<1>. QED
  BY <1>5 DEF FailRead, TInv, TypeOK

\* A worker whose failJob is about to write holds a running job it knows.
LEMMA FailGuardFacts ==
  ASSUME NEW w \in Workers, TInv, FailGuard(w)
  PROVE  /\ worker[w].job \in Jobs
         /\ job[worker[w].job] \in JobRow
         /\ job[worker[w].job].status = "running"
         /\ job[worker[w].job].attemptCount = worker[w].attempt
         /\ worker[w].now \in Readings
BY DEF FailGuard, LeaseIsCurrent, TInv, TypeOK, WorkerHolds, WorkerState

\* FailRetry keeps the tables well-formed.
LEMMA FailRetryTInv ==
  ASSUME NEW w \in Workers, TInv, FailRetry(w)
  PROVE  TInv'
<1> DEFINE j == worker[w].job
<1>1. j \in Jobs /\ job[j] \in JobRow /\ worker[w].now \in Readings
  BY FailGuardFacts DEF FailRetry
<1>2. /\ Retried(job[j], worker[w].now) \in JobRow
      /\ LeaseColumns(Retried(job[j], worker[w].now))
  BY <1>1, RetriedRow DEF LeaseColumns
<1>3. job' \in [Jobs -> JobRow] /\ \A k \in Jobs : LeaseColumns(job'[k])
  BY <1>1, <1>2, WriteRow DEF FailRetry, TInv
<1>. QED
  BY <1>3, IdleWorker DEF FailRetry, TInv, TypeOK, WorkerHolds, LeaseColumns

\* FailTerminal keeps the tables well-formed.
LEMMA FailTerminalTInv ==
  ASSUME NEW w \in Workers, TInv, FailTerminal(w)
  PROVE  TInv'
<1> DEFINE j == worker[w].job
<1>1. PICK l \in FreshLetters :
        /\ job' = [job EXCEPT ![j] = Buried(job[j], l)]
        /\ letter' = [letter EXCEPT ![l] = [job |-> j, redriven |-> FALSE]]
  BY DEF FailTerminal
<1>2. j \in Jobs /\ job[j] \in JobRow /\ l \in Letters
  BY FailGuardFacts DEF FailTerminal, FreshLetters
<1>3. Buried(job[j], l) \in JobRow /\ LeaseColumns(Buried(job[j], l))
  BY <1>2, BuriedRow DEF LeaseColumns
<1>4. job' \in [Jobs -> JobRow] /\ \A k \in Jobs : LeaseColumns(job'[k])
  BY <1>1, <1>2, <1>3, WriteRow DEF TInv
<1>5. letter' \in [Letters -> LetterRow]
  BY <1>1, <1>2 DEF TInv, TypeOK, LetterRow
<1>. QED
  BY <1>4, <1>5, IdleWorker DEF FailTerminal, TInv, TypeOK, WorkerHolds, LeaseColumns

\* RecoverRead keeps the tables well-formed.
LEMMA RecoverReadTInv ==
  ASSUME NEW r \in Recoverers, TInv, RecoverRead(r)
  PROVE  TInv'
<1>1. PICK now \in Readings :
        recovery' = [recovery EXCEPT ![r] =
            [now |-> now,
             seen |-> [j \in Jobs |->
               IF Expired(j, now)
               THEN [token |-> job[j].leaseToken, expires |-> job[j].leaseExpiresAt,
                     attempt |-> job[j].attemptCount]
               ELSE Unseen]]]
  BY DEF RecoverRead
<1>2. ASSUME NEW j \in Jobs, Expired(j, now)
      PROVE  [token |-> job[j].leaseToken, expires |-> job[j].leaseExpiresAt,
              attempt |-> job[j].attemptCount] \in Snapshot
  BY <1>2, NullAssumption DEF Expired, TInv, TypeOK, JobRow, Snapshot
<1>3. [now |-> now,
       seen |-> [j \in Jobs |->
         IF Expired(j, now)
         THEN [token |-> job[j].leaseToken, expires |-> job[j].leaseExpiresAt,
               attempt |-> job[j].attemptCount]
         ELSE Unseen]] \in RecoveryState
  BY <1>2 DEF RecoveryState
<1>. QED
  BY <1>1, <1>3 DEF RecoverRead, TInv, TypeOK, WorkerHolds

\* A recovery whose guard holds for a job finds it running, as it was read.
LEMMA RecoverGuardFacts ==
  ASSUME NEW r \in Recoverers, NEW j \in Jobs, TInv, RecoverGuard(r, j)
  PROVE  /\ job[j].status = "running" /\ job[j] \in JobRow
         /\ job[j].attemptCount = recovery[r].seen[j].attempt
         /\ recovery[r].now \in Readings
BY DEF RecoverGuard, TInv, TypeOK, RecoveryState

\* The batch of a recovery that dead-letters the jobs `spent` under the letters
\* `id` and sends the rest of `hit` back to wait.
Batch(r, hit, spent, id) ==
  /\ spent \subseteq hit
  /\ \A j \in hit : RecoverGuard(r, j)
  /\ \A j \in spent : Spent(j, job[j].attemptCount)
  /\ \A j \in hit \ spent : ~Spent(j, job[j].attemptCount)
  /\ \A j, k \in spent : id[j] = id[k] => j = k
  /\ job' = [j \in Jobs |->
       CASE j \in spent       -> Buried(job[j], id[j])
         [] j \in hit \ spent -> Retried(job[j], recovery[r].now)
         [] OTHER             -> job[j]]
  /\ letter' = [l \in Letters |->
       IF \E j \in spent : id[j] = l
       THEN [job |-> CHOOSE j \in spent : id[j] = l, redriven |-> FALSE]
       ELSE letter[l]]

\* The batch of a recovery, with the letter it assigns to each job named
LEMMA RecoverWriteBatch ==
  ASSUME NEW r \in Recoverers, TInv, RecoverWrite(r)
  PROVE  \E hit \in SUBSET Jobs, spent \in SUBSET Jobs : \E id \in [spent -> FreshLetters] :
           Batch(r, hit, spent, id)
<1> DEFINE hit   == {j \in Jobs : RecoverGuard(r, j)}
           spent == {j \in hit : Spent(j, recovery[r].seen[j].attempt)}
<1>1. PICK id \in [spent -> FreshLetters] :
        /\ DistinctIds(id, spent)
        /\ job' = [j \in Jobs |->
             CASE j \in spent       -> Buried(job[j], id[j])
               [] j \in hit \ spent -> Retried(job[j], recovery[r].now)
               [] OTHER             -> job[j]]
        /\ letter' = [l \in Letters |->
             IF \E j \in spent : id[j] = l
             THEN [job |-> CHOOSE j \in spent : id[j] = l, redriven |-> FALSE]
             ELSE letter[l]]
  BY DEF RecoverWrite
<1>2. /\ hit \in SUBSET Jobs /\ spent \in SUBSET Jobs /\ spent \subseteq hit
      /\ \A j \in hit : RecoverGuard(r, j)
  OBVIOUS
<1>3. \A j \in hit : job[j].attemptCount = recovery[r].seen[j].attempt
  BY RecoverGuardFacts
<1>4. /\ \A j \in spent : Spent(j, job[j].attemptCount)
      /\ \A j \in hit \ spent : ~Spent(j, job[j].attemptCount)
  BY <1>3
<1>5. \A j, k \in spent : id[j] = id[k] => j = k
  BY <1>1 DEF DistinctIds
<1>6. Batch(r, hit, spent, id)
  BY <1>1, <1>2, <1>4, <1>5 DEF Batch
<1> HIDE DEF hit, spent
<1>. QED
  BY <1>2, <1>6

\* RecoverWrite keeps the tables well-formed.
LEMMA RecoverWriteTInv ==
  ASSUME NEW r \in Recoverers, TInv, RecoverWrite(r)
  PROVE  TInv'
<1>1. PICK hit \in SUBSET Jobs, spent \in SUBSET Jobs :
        \E id \in [spent -> FreshLetters] : Batch(r, hit, spent, id)
  BY RecoverWriteBatch
<1>2. PICK id \in [spent -> FreshLetters] : Batch(r, hit, spent, id)
  BY <1>1
<1> USE <1>2 DEF Batch
<1>3. ASSUME NEW j \in Jobs
      PROVE  job'[j] \in JobRow /\ LeaseColumns(job'[j])
  <2>1. job[j] \in JobRow /\ LeaseColumns(job[j])
    BY DEF TInv, TypeOK, LeaseColumns
  <2>2. CASE j \in spent
    <3>1. job'[j] = Buried(job[j], id[j]) /\ id[j] \in Letters
      BY <1>2, <2>2 DEF FreshLetters
    <3>. QED BY <2>1, <3>1, BuriedRow DEF LeaseColumns
  <2>3. CASE j \in hit \ spent
    <3>1. job'[j] = Retried(job[j], recovery[r].now)
      BY <1>2, <2>3
    <3>2. recovery[r].now \in Readings
      BY <1>1, <2>3, RecoverGuardFacts
    <3>. QED BY <2>1, <3>1, <3>2, RetriedRow DEF LeaseColumns
  <2>4. CASE j \notin hit
    <3>1. job'[j] = job[j]
      BY <1>1, <1>2, <2>4
    <3>. QED BY <2>1, <3>1
  <2>. QED BY <2>2, <2>3, <2>4, <1>1
<1>4. job' \in [Jobs -> JobRow]
  <2>1. job' = [j \in Jobs |-> job'[j]]
    BY <1>2
  <2>. QED BY <1>3, <2>1
<1>5. letter' \in [Letters -> LetterRow]
  <2>1. ASSUME NEW l \in Letters
        PROVE  letter'[l] \in LetterRow
    <3>1. CASE \E j \in spent : id[j] = l
      <4>1. (CHOOSE j \in spent : id[j] = l) \in Jobs
        BY <3>1
      <4>. QED BY <1>2, <3>1, <4>1 DEF LetterRow
    <3>2. CASE ~\E j \in spent : id[j] = l
      BY <1>2, <3>2 DEF TInv, TypeOK
    <3>. QED BY <3>1, <3>2
  <2>2. letter' = [l \in Letters |-> letter'[l]]
    BY <1>2
  <2>. QED BY <2>1, <2>2
<1>6. recovery' \in [Recoverers -> RecoveryState]
  <2>1. NoRecovery \in RecoveryState
    BY ConstantsAssumption DEF NoRecovery, RecoveryState, Readings, Floor
  <2>. QED BY <2>1 DEF RecoverWrite, TInv, TypeOK
<1>. QED
  BY <1>3, <1>4, <1>5, <1>6 DEF RecoverWrite, TInv, TypeOK, WorkerHolds, LeaseColumns

\* RecoverCrash keeps the tables well-formed.
LEMMA RecoverCrashTInv ==
  ASSUME NEW r \in Recoverers, TInv, RecoverCrash(r)
  PROVE  TInv'
<1>1. NoRecovery \in RecoveryState
  BY ConstantsAssumption DEF NoRecovery, RecoveryState, Readings, Floor
<1>. QED
  BY <1>1 DEF RecoverCrash, TInv, TypeOK, WorkerHolds

\* RedriveRead keeps the tables well-formed.
LEMMA RedriveReadTInv ==
  ASSUME NEW a \in Admins, NEW j \in Jobs, TInv, RedriveRead(a, j)
  PROVE  TInv'
<1>1. j \in Jobs /\ job[j].deadLetterId \in Letters
  BY DEF RedriveRead, TInv, TypeOK, JobRow
<1>2. [job |-> j, letter |-> job[j].deadLetterId] \in RedriveState
  BY <1>1 DEF RedriveState
<1>. QED
  BY <1>2 DEF RedriveRead, TInv, TypeOK, WorkerHolds

\* A redrive that writes names a dead-lettered job and its open letter.
LEMMA RedriveFacts ==
  ASSUME NEW a \in Admins, TInv, RedriveWrite(a)
  PROVE  /\ redrive[a].job \in Jobs
         /\ redrive[a].letter \in Letters
         /\ job[redrive[a].job] \in JobRow
         /\ job[redrive[a].job].status = "dead_lettered"
         /\ job[redrive[a].job].deadLetterId = redrive[a].letter
BY DEF RedriveWrite, TInv, TypeOK, RedriveState

\* RedriveWrite keeps the tables well-formed.
LEMMA RedriveWriteTInv ==
  ASSUME NEW a \in Admins, TInv, RedriveWrite(a)
  PROVE  TInv'
<1> DEFINE j == redrive[a].job
           l == redrive[a].letter
<1>1. j \in Jobs /\ l \in Letters /\ job[j] \in JobRow
  BY RedriveFacts
<1>2. PICK now \in Readings : job' = [job EXCEPT ![j] = Redriven(job[j], now)]
  BY DEF RedriveWrite
<1>3. Redriven(job[j], now) \in JobRow /\ LeaseColumns(Redriven(job[j], now))
  BY <1>1, RedrivenRow
<1>4. job' \in [Jobs -> JobRow] /\ \A k \in Jobs : LeaseColumns(job'[k])
  BY <1>1, <1>2, <1>3, WriteRow DEF TInv
<1>5. letter' \in [Letters -> LetterRow]
  BY <1>1 DEF RedriveWrite, TInv, TypeOK, LetterRow
<1>6. redrive' \in [Admins -> RedriveState]
  BY DEF RedriveWrite, TInv, TypeOK, RedriveState
<1>. QED
  BY <1>4, <1>5, <1>6 DEF RedriveWrite, TInv, TypeOK, WorkerHolds, LeaseColumns

\* RedriveEnds keeps the tables well-formed.
LEMMA RedriveEndsTInv ==
  ASSUME NEW a \in Admins, TInv, RedriveEnds(a)
  PROVE  TInv'
BY DEF RedriveEnds, TInv, TypeOK, WorkerHolds, RedriveState

\* CancelAsAdmin keeps the tables well-formed.
LEMMA CancelAsAdminTInv ==
  ASSUME NEW j \in Jobs, TInv, CancelAsAdmin(j)
  PROVE  TInv'
<1>1. job[j] \in JobRow
  BY DEF TInv, TypeOK
<1>2. job' \in [Jobs -> JobRow] /\ \A k \in Jobs : LeaseColumns(job'[k])
  BY <1>1, CancelledRow, WriteRow DEF CancelAsAdmin, TInv
<1>. QED
  BY <1>2 DEF CancelAsAdmin, TInv, TypeOK, WorkerHolds, LeaseColumns

\* CancelWithLease keeps the tables well-formed.
LEMMA CancelWithLeaseTInv ==
  ASSUME NEW w \in Workers, TInv, CancelWithLease(w)
  PROVE  TInv'
<1>1. worker[w].job \in Jobs /\ job[worker[w].job] \in JobRow
  BY DEF CancelWithLease, TInv, TypeOK, WorkerHolds
<1>2. job' \in [Jobs -> JobRow] /\ \A k \in Jobs : LeaseColumns(job'[k])
  BY <1>1, CancelledRow, WriteRow DEF CancelWithLease, TInv
<1>3. worker' \in [Workers -> WorkerState] /\ WorkerHolds'
  BY AnsweredWorker, IdleWorker DEF CancelWithLease
<1>. QED
  BY <1>2, <1>3 DEF CancelWithLease, TInv, TypeOK, LeaseColumns

\* The row a tick leaves differs in its stamps only.
LEMMA TickRow ==
  ASSUME NEW j \in Jobs, TInv, Tick
  PROVE  /\ job'[j] \in JobRow
         /\ job'[j].status = job[j].status
         /\ job'[j].leaseToken = job[j].leaseToken
         /\ job'[j].leaseOwner = job[j].leaseOwner
         /\ job'[j].attemptCount = job[j].attemptCount
         /\ job'[j].checkpointVersion = job[j].checkpointVersion
         /\ job'[j].deadLetterId = job[j].deadLetterId
<1>1. job[j] \in JobRow
  BY DEF TInv, TypeOK
<1>2. Aged(job[j].availableAt) \in Stamps /\ Aged(job[j].leaseExpiresAt) \in Stamps
  BY <1>1, AgedStamp DEF JobRow
<1>3. job'[j] = [job[j] EXCEPT !.availableAt = Aged(job[j].availableAt),
                               !.leaseExpiresAt = Aged(job[j].leaseExpiresAt)]
  BY DEF Tick
<1>. QED
  BY <1>1, <1>2, <1>3 DEF JobRow

\* What a tick does to a worker: at most its pending reading ages.
LEMMA TickWorker ==
  ASSUME NEW w \in Workers, TInv, Tick
  PROVE  /\ worker'[w] \in WorkerState
         /\ worker'[w].mode = worker[w].mode
         /\ worker'[w].job = worker[w].job
         /\ worker'[w].token = worker[w].token
         /\ worker'[w].version = worker[w].version
         /\ worker'[w].attempt = worker[w].attempt
<1>1. worker[w] \in WorkerState
  BY DEF TInv, TypeOK
<1>2. CASE worker[w].mode = "fail_sent"
  <2>0. worker[w].now \in Readings /\ worker[w].now > Floor
    BY <1>1, <1>2 DEF Tick, WorkerState
  <2>1. worker[w].now - 1 \in Readings
    BY <2>0, ConstantsAssumption DEF Readings, Floor
  <2>2. worker'[w] = [worker[w] EXCEPT !.now = worker[w].now - 1]
    BY <1>2 DEF Tick
  <2>. QED BY <1>1, <2>1, <2>2 DEF WorkerState
<1>3. CASE worker[w].mode # "fail_sent"
  BY <1>1, <1>3 DEF Tick
<1>. QED BY <1>2, <1>3

\* What a tick does to a recovery: its reading and what it read age.
LEMMA TickRecovery ==
  ASSUME NEW r \in Recoverers, TInv, Tick
  PROVE  /\ recovery'[r] \in RecoveryState
         /\ \A j \in Jobs : recovery'[r].seen[j].token = recovery[r].seen[j].token
<1>1. recovery[r] \in RecoveryState
  BY DEF TInv, TypeOK
<1>2. CASE recovery[r] = NoRecovery
  BY <1>1, <1>2 DEF Tick
<1>3. CASE recovery[r] # NoRecovery
  <2>0. recovery[r].now \in Readings /\ recovery[r].now > Floor
    BY <1>1, <1>3 DEF Tick, RecoveryState
  <2>1. recovery[r].now - 1 \in Readings
    BY <2>0, ConstantsAssumption DEF Readings, Floor
  <2>2. ASSUME NEW j \in Jobs
        PROVE  /\ AgedSnapshot(recovery[r].seen[j]) \in Snapshot \cup {Unseen}
               /\ AgedSnapshot(recovery[r].seen[j]).token = recovery[r].seen[j].token
    <3>1. CASE recovery[r].seen[j] \in Snapshot
      <4>1. Aged(recovery[r].seen[j].expires) \in Stamps
        BY <3>1, AgedStamp DEF Snapshot
      <4>. QED BY <3>1, <4>1 DEF Snapshot, AgedSnapshot
    <3>2. CASE recovery[r].seen[j] = Unseen
      <4>1. Aged(Floor) = Floor
        BY ConstantsAssumption DEF Aged, Floor
      <4>. QED BY <3>2, <4>1 DEF Unseen, AgedSnapshot
    <3>. QED BY <1>1, <3>1, <3>2 DEF RecoveryState
  <2>3. recovery'[r] = [now |-> recovery[r].now - 1,
                        seen |-> [j \in Jobs |-> AgedSnapshot(recovery[r].seen[j])]]
    BY <1>3 DEF Tick
  <2>. QED BY <2>1, <2>2, <2>3 DEF RecoveryState
<1>. QED BY <1>2, <1>3

\* Tick keeps the tables well-formed.
LEMMA TickTInv ==
  ASSUME TInv, Tick
  PROVE  TInv'
<1>1. job' \in [Jobs -> JobRow] /\ \A j \in Jobs : LeaseColumns(job'[j])
  <2>1. job' = [j \in Jobs |-> job'[j]]
    BY DEF Tick
  <2>. QED BY <2>1, TickRow DEF TInv, TypeOK, LeaseColumns
<1>2. worker' \in [Workers -> WorkerState] /\ WorkerHolds'
  <2>1. worker' = [w \in Workers |-> worker'[w]]
    BY DEF Tick
  <2>. QED BY <2>1, TickWorker DEF TInv, WorkerHolds
<1>3. recovery' \in [Recoverers -> RecoveryState]
  <2>1. recovery' = [r \in Recoverers |-> recovery'[r]]
    BY DEF Tick
  <2>. QED BY <2>1, TickRecovery
<1>. QED
  BY <1>1, <1>2, <1>3 DEF Tick, TInv, TypeOK, LeaseColumns

\* Well-formedness is inductive.
LEMMA NextTInv == TInv /\ [Next]_vars => TInv'
<1>1. ASSUME TInv, Next PROVE TInv'
  BY <1>1, EnqueueTInv, AcquireTInv, RenewLeaseTInv, CheckpointTInv, CompleteTInv,
     WorkThrowsTInv, AbandonTInv, CancelWithLeaseTInv, FailReadTInv, FailRetryTInv,
     FailTerminalTInv, RecoverReadTInv, RecoverWriteTInv, RecoverCrashTInv,
     RedriveReadTInv, RedriveWriteTInv, RedriveEndsTInv, CancelAsAdminTInv, TickTInv
  DEF Next, WorkerNext, RecovererNext, AdminNext
<1>2. TInv /\ UNCHANGED vars => TInv'
  BY DEF TInv, TypeOK, WorkerHolds, vars
<1>. QED BY <1>1, <1>2

\* The rows, the audit log and the callers' records always have their types, and
\* the lease columns are set exactly while a job is running.
THEOREM TypeCorrect == Spec => []TypeOK
<1>1. TInv => TypeOK
  BY DEF TInv
<1>. QED
  BY <1>1, InitTInv, NextTInv, PTL DEF Spec

\* Well-formedness together with what a busy worker remembers
LEMMA AlwaysTInv == Spec => []TInv
BY InitTInv, NextTInv, PTL DEF Spec

----------------------------------------------------------------------------
(* No job is stranded; dead-lettered jobs and open letters correspond *)

Budget(j, row) ==
  /\ row.status \in Waiting => row.attemptCount < MaxAttempts[j]
  /\ row.status = "running" => row.attemptCount \in 1..MaxAttempts[j]
  /\ row.status = "dead_lettered" => row.attemptCount = MaxAttempts[j]

SInv == TInv /\ NoStrandedJob /\ DeadLetterLink

\* NoStrandedJob is the budget of every row.
LEMMA BudgetIsNoStrandedJob == NoStrandedJob <=> \A j \in Jobs : Budget(j, job[j])
BY DEF NoStrandedJob, Budget

\* What the inductive invariant says of one job
LEMMA SInvFacts ==
  ASSUME SInv, NEW j \in Jobs
  PROVE  /\ TInv
         /\ job[j] \in JobRow /\ job[j].attemptCount \in Nat
         /\ Budget(j, job[j])
         /\ MaxAttempts[j] \in Nat \ {0}
         /\ OpenLetters(j) = IF job[j].status = "dead_lettered"
                             THEN {job[j].deadLetterId} ELSE {}
BY ConstantsAssumption, BudgetIsNoStrandedJob DEF SInv, TInv, TypeOK, JobRow, DeadLetterLink

\* A step that rewrites no audit row and neither buries nor exhumes a job keeps
\* jobs and letters linked.
LEMMA LinkFrame ==
  ASSUME DeadLetterLink, letter' = letter,
         \A j \in Jobs :
           /\ job'[j].status = "dead_lettered" <=> job[j].status = "dead_lettered"
           /\ job[j].status = "dead_lettered" => job'[j].deadLetterId = job[j].deadLetterId
  PROVE  DeadLetterLink'
<1>1. \A j \in Jobs : OpenLetters(j)' = OpenLetters(j)
  BY DEF OpenLetters
<1>. QED BY <1>1 DEF DeadLetterLink

\* Writing one row, neither burying nor exhuming, keeps both properties when the
\* new row respects the attempt budget.
LEMMA SInvOneRow ==
  ASSUME NEW j \in Jobs, NEW row \in JobRow, SInv, TInv', letter' = letter,
         job' = [job EXCEPT ![j] = row], Budget(j, row),
         job[j].status # "dead_lettered", row.status # "dead_lettered"
  PROVE  SInv'
<1>1. \A k \in Jobs : job'[k] = IF k = j THEN row ELSE job[k]
  BY DEF SInv, TInv, TypeOK
<1>2. \A k \in Jobs : Budget(k, job'[k])
  BY <1>1, SInvFacts
<1>3. NoStrandedJob'
  BY <1>2 DEF NoStrandedJob, Budget
<1>4. DeadLetterLink'
  BY <1>1, LinkFrame DEF SInv
<1>. QED BY <1>3, <1>4 DEF SInv

\* A step that leaves jobs and letters as they are
LEMMA SInvNoRow ==
  ASSUME SInv, TInv', letter' = letter, job' = job
  PROVE  SInv'
<1>1. DeadLetterLink'
  BY LinkFrame DEF SInv
<1>. QED BY <1>1 DEF SInv, NoStrandedJob

\* Jobs are buried one letter each: a fresh letter becomes the only open letter
\* of the job whose row now names it, and no other job's open letters change.
LEMMA BuryLink ==
  ASSUME SInv, NEW spent \in SUBSET Jobs, NEW id \in [spent -> FreshLetters],
         \A j, k \in spent : id[j] = id[k] => j = k,
         \A j \in spent : /\ job[j].status # "dead_lettered"
                          /\ job'[j].status = "dead_lettered"
                          /\ job'[j].deadLetterId = id[j],
         \A j \in Jobs \ spent :
           /\ job'[j].status = "dead_lettered" <=> job[j].status = "dead_lettered"
           /\ job[j].status = "dead_lettered" => job'[j].deadLetterId = job[j].deadLetterId,
         \A l \in Letters :
           letter'[l] = IF \E j \in spent : id[j] = l
                        THEN [job |-> CHOOSE j \in spent : id[j] = l, redriven |-> FALSE]
                        ELSE letter[l]
  PROVE  DeadLetterLink'
<1>1. \A j \in spent : id[j] \in Letters /\ letter[id[j]].job = Null
  BY DEF FreshLetters
<1>2. ASSUME NEW j \in spent
      PROVE  letter'[id[j]].job = j /\ letter'[id[j]].redriven = FALSE
  <2>1. (CHOOSE k \in spent : id[k] = id[j]) = j
    OBVIOUS
  <2>2. letter'[id[j]] = [job |-> j, redriven |-> FALSE]
    BY <1>1, <2>1
  <2>. QED BY <2>2
<1>3. ASSUME NEW j \in spent
      PROVE  OpenLetters(j)' = {id[j]}
  <2>1. OpenLetters(j) = {} /\ j \in Jobs
    BY SInvFacts
  <2>2. ASSUME NEW l \in Letters, letter'[l].job = j, ~letter'[l].redriven
        PROVE  l = id[j]
    <3>1. CASE \E k \in spent : id[k] = l
      <4>1. PICK k \in spent : id[k] = l
        BY <3>1
      <4>2. letter'[id[k]].job = k
        BY <1>2
      <4>. QED BY <4>1, <4>2, <2>2
    <3>2. CASE ~\E k \in spent : id[k] = l
      BY <3>2, <2>1, <2>2 DEF OpenLetters
    <3>. QED BY <3>1, <3>2
  <2>3. id[j] \in Letters /\ letter'[id[j]].job = j /\ ~letter'[id[j]].redriven
    BY <1>1, <1>2
  <2>4. OpenLetters(j)' = {l \in Letters : letter'[l].job = j /\ ~letter'[l].redriven}
    BY DEF OpenLetters
  <2>5. \A l \in Letters : letter'[l].job = j /\ ~letter'[l].redriven => l = id[j]
    BY <2>2
  <2>. QED BY <2>3, <2>4, <2>5
<1>4. ASSUME NEW j \in Jobs \ spent
      PROVE  OpenLetters(j)' = OpenLetters(j)
  <2>1. ASSUME NEW l \in Letters
        PROVE  letter'[l].job = j /\ ~letter'[l].redriven
                 <=> letter[l].job = j /\ ~letter[l].redriven
    <3>1. CASE \E k \in spent : id[k] = l
      <4>1. PICK k \in spent : id[k] = l
        BY <3>1
      <4>2. letter'[id[k]].job = k /\ letter[id[k]].job = Null
        BY <1>1, <1>2
      <4>3. j # k /\ j # Null
        BY NullAssumption
      <4>. QED BY <4>1, <4>2, <4>3
    <3>2. CASE ~\E k \in spent : id[k] = l
      BY <3>2
    <3>. QED BY <3>1, <3>2
  <2>. QED BY <2>1 DEF OpenLetters
<1>. QED BY <1>3, <1>4, SInvFacts DEF DeadLetterLink

\* The empty tables strand no job and hold no letter.
LEMMA InitSInv == Init => SInv
<1> SUFFICES ASSUME Init PROVE SInv
  OBVIOUS
<1>1. NoStrandedJob
  BY DEF Init, NoStrandedJob, NoJob, Waiting
<1>2. DeadLetterLink
  <2>1. \A l \in Letters : letter[l].job = Null
    BY DEF Init, NoLetter
  <2>2. \A j \in Jobs : j # Null /\ job[j].status # "dead_lettered"
    BY NullAssumption DEF Init, NoJob
  <2>. QED BY <2>1, <2>2 DEF DeadLetterLink, OpenLetters
<1>. QED BY <1>1, <1>2, InitTInv DEF SInv

\* One lemma per action: it strands no job and keeps jobs and letters linked.
LEMMA EnqueueSInv ==
  ASSUME NEW j \in Jobs, SInv, Enqueue(j)
  PROVE  SInv'
<1>1. PICK at \in 0..MaxDelay : job' = [job EXCEPT ![j] = Enqueued(at)]
  BY DEF Enqueue
<1>2. MaxAttempts[j] \in Nat \ {0} /\ job[j].status = "absent" /\ letter' = letter
  BY SInvFacts DEF Enqueue
<1>3. Budget(j, Enqueued(at)) /\ Enqueued(at) \in JobRow /\ Enqueued(at).status # "dead_lettered"
  BY <1>2, EnqueuedRow DEF Budget
<1>4. TInv'
  BY EnqueueTInv DEF SInv
<1> DEFINE row == Enqueued(at)
<1> HIDE DEF row
<1>5. job' = [job EXCEPT ![j] = row] /\ Budget(j, row) /\ row \in JobRow /\ row.status # "dead_lettered"
  BY <1>1, <1>3 DEF row
<1>. QED BY <1>2, <1>4, <1>5, SInvOneRow

\* Acquire strands no job and keeps jobs and letters linked.
LEMMA AcquireSInv ==
  ASSUME NEW w \in Workers, SInv, Acquire(w)
  PROVE  SInv'
<1>0. TInv /\ TInv' /\ NewToken \in Tokens /\ letter' = letter
  BY AcquireTInv, AcquireChoice DEF SInv, Acquire
<1>1. PICK now \in Readings, j \in Jobs :
        /\ job[j] \in JobRow /\ LeaseColumns(job[j])
        /\ j \in Due(now)
        /\ job' = [job EXCEPT ![j] = Leased(job[j], OwnerOf[w], NewToken, now)]
        /\ worker' = [worker EXCEPT ![w] =
             [Idle EXCEPT !.mode = "working", !.job = j, !.token = NewToken,
                          !.version = job[j].checkpointVersion]]
  BY <1>0, AcquireChoice
<1> DEFINE row == Leased(job[j], OwnerOf[w], NewToken, now)
<1>2. row \in JobRow /\ row.status = "running" /\ row.attemptCount = job[j].attemptCount + 1
  BY <1>0, <1>1, LeasedRow
<1>3. job' = [job EXCEPT ![j] = row]
  BY <1>1
<1> HIDE DEF row
<1>4. /\ job[j].attemptCount \in Nat /\ MaxAttempts[j] \in Nat
      /\ job[j].attemptCount < MaxAttempts[j]
      /\ job[j].status # "dead_lettered"
  BY <1>1, SInvFacts DEF Due, Waiting, Expired
<1>5. Budget(j, row)
  BY <1>2, <1>4 DEF Budget, Waiting
<1>. QED BY <1>0, <1>2, <1>3, <1>4, <1>5, SInvOneRow

\* RenewLease strands no job and keeps jobs and letters linked.
LEMMA RenewLeaseSInv ==
  ASSUME NEW w \in Workers, SInv, RenewLease(w)
  PROVE  SInv'
<1>1. TInv /\ TInv' /\ letter' = letter
  BY RenewLeaseTInv DEF SInv, RenewLease
<1> DEFINE j == worker[w].job
<1>2. j \in Jobs /\ job[j] \in JobRow /\ job[j].status = "running"
  BY <1>1 DEF RenewLease, LeaseIsCurrent, TInv, TypeOK, WorkerHolds
<1>3. PICK now \in Readings :
        job' = [job EXCEPT ![j].leaseExpiresAt = Later(@, now + LeaseMs)]
  BY DEF RenewLease
<1> DEFINE row == [job[j] EXCEPT !.leaseExpiresAt =
                                   Later(job[j].leaseExpiresAt, now + LeaseMs)]
<1>4. job' = [job EXCEPT ![j] = row]
  BY <1>2, <1>3
<1>5. row \in JobRow
  BY <1>2, WrittenStamps DEF JobRow, Later
<1>6. row.status = "running" /\ row.attemptCount = job[j].attemptCount
  BY <1>2 DEF JobRow
<1>7. Budget(j, row)
  BY <1>2, <1>6, SInvFacts DEF Budget, Waiting
<1> HIDE DEF row, j
<1>. QED BY <1>1, <1>2, <1>4, <1>5, <1>6, <1>7, SInvOneRow

\* Checkpoint strands no job and keeps jobs and letters linked.
LEMMA CheckpointSInv ==
  ASSUME NEW w \in Workers, SInv, CompareAndSetCheckpoint(w)
  PROVE  SInv'
<1>1. TInv /\ TInv' /\ letter' = letter
  BY CheckpointTInv DEF SInv, CompareAndSetCheckpoint
<1> DEFINE j == worker[w].job
           row == [job[j] EXCEPT !.checkpointVersion = job[j].checkpointVersion + 1]
<1>2. j \in Jobs /\ job[j] \in JobRow /\ job[j].status = "running"
  BY <1>1 DEF CompareAndSetCheckpoint, LeaseIsCurrent, TInv, TypeOK, WorkerHolds
<1>3. job' = [job EXCEPT ![j] = row]
  BY <1>2 DEF CompareAndSetCheckpoint
<1>4. row \in JobRow
  <2>1. worker[w].version \in 0..MaxVersion /\ worker[w].version < MaxVersion
    BY <1>1 DEF CompareAndSetCheckpoint, TInv, TypeOK, WorkerState
  <2>2. job[j].checkpointVersion + 1 \in 0..MaxVersion
    BY <2>1, ConstantsAssumption DEF CompareAndSetCheckpoint
  <2>. QED BY <1>2, <2>2 DEF JobRow
<1>5. row.status = "running" /\ row.attemptCount = job[j].attemptCount
  BY <1>2 DEF JobRow
<1>6. Budget(j, row)
  BY <1>2, <1>5, SInvFacts DEF Budget, Waiting
<1> HIDE DEF row, j
<1>. QED BY <1>1, <1>2, <1>3, <1>4, <1>5, <1>6, SInvOneRow

\* Complete strands no job and keeps jobs and letters linked.
LEMMA CompleteSInv ==
  ASSUME NEW w \in Workers, SInv, Complete(w)
  PROVE  SInv'
<1>1. TInv /\ TInv' /\ letter' = letter
  BY CompleteTInv DEF SInv, Complete
<1> DEFINE j == worker[w].job
           row == Completed(job[j])
<1>2. j \in Jobs /\ job[j] \in JobRow /\ job[j].status = "running"
  BY <1>1 DEF Complete, LeaseIsCurrent, TInv, TypeOK, WorkerHolds
<1>3. job' = [job EXCEPT ![j] = row] /\ row \in JobRow /\ row.status = "succeeded"
  BY <1>2, CompletedRow DEF Complete
<1> HIDE DEF row, j
<1>4. Budget(j, row)
  BY <1>3 DEF Budget, Waiting
<1>. QED BY <1>1, <1>2, <1>3, <1>4, SInvOneRow

\* The row cancelJob leaves
LEMMA CancelSInv ==
  ASSUME NEW j \in Jobs, SInv, TInv', letter' = letter,
         job' = [job EXCEPT ![j] = Released(job[j], "cancelled")],
         job[j].status # "dead_lettered"
  PROVE  SInv'
<1> DEFINE row == Released(job[j], "cancelled")
<1>1. job' = [job EXCEPT ![j] = row] /\ row \in JobRow /\ row.status = "cancelled"
  BY SInvFacts, CancelledRow
<1> HIDE DEF row
<1>2. Budget(j, row)
  BY <1>1 DEF Budget, Waiting
<1>. QED BY <1>1, <1>2, SInvOneRow

\* CancelWithLease strands no job and keeps jobs and letters linked.
LEMMA CancelWithLeaseSInv ==
  ASSUME NEW w \in Workers, SInv, CancelWithLease(w)
  PROVE  SInv'
<1>1. TInv /\ TInv' /\ letter' = letter
  BY CancelWithLeaseTInv DEF SInv, CancelWithLease
<1>2. worker[w].job \in Jobs /\ job[worker[w].job].status # "dead_lettered"
  BY <1>1 DEF CancelWithLease, LeaseIsCurrent, Waiting, TInv, TypeOK, WorkerHolds
<1>. QED BY <1>1, <1>2, CancelSInv DEF CancelWithLease

\* CancelAsAdmin strands no job and keeps jobs and letters linked.
LEMMA CancelAsAdminSInv ==
  ASSUME NEW j \in Jobs, SInv, CancelAsAdmin(j)
  PROVE  SInv'
<1>1. TInv' /\ letter' = letter /\ job[j].status # "dead_lettered"
  BY CancelAsAdminTInv DEF SInv, CancelAsAdmin, Waiting
<1>. QED BY <1>1, CancelSInv DEF CancelAsAdmin

\* failJob waits for a retry only while an attempt is left.
LEMMA FailRetrySInv ==
  ASSUME NEW w \in Workers, SInv, FailRetry(w)
  PROVE  SInv'
<1>1. TInv /\ TInv' /\ letter' = letter
  BY FailRetryTInv DEF SInv, FailRetry
<1> DEFINE j == worker[w].job
           row == Retried(job[j], worker[w].now)
<1>2. /\ j \in Jobs /\ job[j] \in JobRow /\ job[j].status = "running"
      /\ job[j].attemptCount = worker[w].attempt /\ worker[w].now \in Readings
  BY <1>1, FailGuardFacts DEF FailRetry
<1>3. job' = [job EXCEPT ![j] = row]
  BY DEF FailRetry
<1>4. /\ row \in JobRow /\ row.status = "retry_wait"
      /\ row.attemptCount = job[j].attemptCount
  BY <1>2, RetriedRow
<1>5. ~Spent(j, job[j].attemptCount)
  BY <1>2 DEF FailRetry
<1> HIDE DEF row, j
<1>6. Budget(j, row)
  BY <1>2, <1>4, <1>5, SInvFacts DEF Budget, Waiting, Spent
<1>. QED BY <1>1, <1>2, <1>3, <1>4, <1>6, SInvOneRow

\* failJob gives a job up exactly when its attempts are spent.
LEMMA FailTerminalSInv ==
  ASSUME NEW w \in Workers, SInv, FailTerminal(w)
  PROVE  SInv'
<1>1. TInv /\ TInv'
  BY FailTerminalTInv DEF SInv
<1> DEFINE j == worker[w].job
<1>2. PICK l \in FreshLetters :
        /\ job' = [job EXCEPT ![j] = Buried(job[j], l)]
        /\ letter' = [letter EXCEPT ![l] = [job |-> j, redriven |-> FALSE]]
  BY DEF FailTerminal
<1>3. /\ j \in Jobs /\ job[j] \in JobRow /\ job[j].status = "running"
      /\ Spent(j, job[j].attemptCount) /\ l \in Letters
  BY <1>1, FailGuardFacts DEF FailTerminal, FreshLetters
<1> DEFINE row == Buried(job[j], l)
<1>4. /\ row.status = "dead_lettered" /\ row.deadLetterId = l
      /\ row.attemptCount = job[j].attemptCount
  BY <1>3, BuriedRow
<1>5. job' = [job EXCEPT ![j] = row] /\ job \in [Jobs -> JobRow]
  BY <1>1, <1>2 DEF TInv, TypeOK
<1> HIDE DEF row, j
<1>6. NoStrandedJob'
  <2>1. job[j].attemptCount = MaxAttempts[j]
    BY <1>3, SInvFacts DEF Budget, Spent
  <2>2. Budget(j, row)
    BY <1>4, <2>1 DEF Budget, Waiting
  <2>3. \A k \in Jobs : Budget(k, job'[k])
    BY <1>5, <2>2, SInvFacts
  <2>. QED BY <2>3 DEF NoStrandedJob, Budget
<1>7. DeadLetterLink'
  <2> DEFINE spent == {j}
             id == [k \in spent |-> l]
  <2>1. id \in [spent -> FreshLetters] /\ spent \in SUBSET Jobs
    BY <1>3
  <2>2. \A k \in spent : /\ job[k].status # "dead_lettered"
                         /\ job'[k].status = "dead_lettered"
                         /\ job'[k].deadLetterId = id[k]
    BY <1>3, <1>4, <1>5
  <2>3. \A k \in Jobs \ spent : job'[k] = job[k]
    BY <1>5
  <2>4. \A k, m \in spent : id[k] = id[m] => k = m
    OBVIOUS
  <2>5. ASSUME NEW n \in Letters
        PROVE  letter'[n] = IF \E k \in spent : id[k] = n
                            THEN [job |-> CHOOSE k \in spent : id[k] = n, redriven |-> FALSE]
                            ELSE letter[n]
    <3>1. CASE n = l
      <4>1. (CHOOSE k \in spent : id[k] = n) = j
        BY <3>1
      <4>2. letter'[n] = [job |-> j, redriven |-> FALSE]
        BY <1>1, <1>2, <3>1 DEF TInv, TypeOK
      <4>. QED BY <3>1, <4>1, <4>2
    <3>2. CASE n # l
      BY <1>1, <1>2, <3>2 DEF TInv, TypeOK
    <3>. QED BY <3>1, <3>2
  <2> HIDE DEF spent, id
  <2>. QED BY <2>1, <2>2, <2>3, <2>4, <2>5, BuryLink
<1>. QED BY <1>1, <1>6, <1>7 DEF SInv

\* A recovery splits the expired jobs by their budget and buries the spent ones.
LEMMA RecoverWriteSInv ==
  ASSUME NEW r \in Recoverers, SInv, RecoverWrite(r)
  PROVE  SInv'
<1>0. TInv /\ TInv'
  BY RecoverWriteTInv DEF SInv
<1>1. PICK hit \in SUBSET Jobs, spent \in SUBSET Jobs :
        \E id \in [spent -> FreshLetters] : Batch(r, hit, spent, id)
  BY <1>0, RecoverWriteBatch
<1>2. PICK id \in [spent -> FreshLetters] : Batch(r, hit, spent, id)
  BY <1>1
<1>3. ASSUME NEW j \in spent
      PROVE  /\ job'[j].status = "dead_lettered" /\ job'[j].deadLetterId = id[j]
             /\ job[j].status = "running" /\ Budget(j, job'[j])
  <2>1. job[j].status = "running" /\ job[j] \in JobRow /\ Spent(j, job[j].attemptCount)
    BY <1>0, <1>2, RecoverGuardFacts DEF Batch
  <2>2. job'[j] = Buried(job[j], id[j]) /\ id[j] \in Letters
    BY <1>2 DEF Batch, FreshLetters
  <2>3. /\ job'[j].status = "dead_lettered" /\ job'[j].deadLetterId = id[j]
        /\ job'[j].attemptCount = job[j].attemptCount
    BY <2>1, <2>2, BuriedRow
  <2>4. job[j].attemptCount = MaxAttempts[j]
    BY <2>1, SInvFacts DEF Budget, Spent
  <2>. QED BY <2>1, <2>3, <2>4 DEF Budget, Waiting
<1>4. ASSUME NEW j \in hit \ spent
      PROVE  /\ job'[j].status = "retry_wait" /\ job[j].status = "running"
             /\ Budget(j, job'[j])
  <2>1. /\ job[j].status = "running" /\ job[j] \in JobRow
        /\ ~Spent(j, job[j].attemptCount) /\ recovery[r].now \in Readings
    BY <1>0, <1>2, RecoverGuardFacts DEF Batch
  <2>2. job'[j] = Retried(job[j], recovery[r].now)
    BY <1>2 DEF Batch
  <2>3. job'[j].status = "retry_wait" /\ job'[j].attemptCount = job[j].attemptCount
    BY <2>1, <2>2, RetriedRow
  <2>. QED BY <2>1, <2>3, SInvFacts DEF Budget, Spent, Waiting
<1>5. ASSUME NEW j \in Jobs \ hit
      PROVE  job'[j] = job[j]
  BY <1>2 DEF Batch
<1>6. NoStrandedJob'
  <2>1. \A j \in Jobs : Budget(j, job'[j])
    BY <1>3, <1>4, <1>5, SInvFacts
  <2>. QED BY <2>1 DEF NoStrandedJob, Budget
<1>7. DeadLetterLink'
  <2>1. \A j, k \in spent : id[j] = id[k] => j = k
    BY <1>2 DEF Batch
  <2>2. \A l \in Letters :
           letter'[l] = IF \E j \in spent : id[j] = l
                        THEN [job |-> CHOOSE j \in spent : id[j] = l, redriven |-> FALSE]
                        ELSE letter[l]
    BY <1>2 DEF Batch
  <2>3. \A j \in Jobs \ spent :
           /\ job'[j].status = "dead_lettered" <=> job[j].status = "dead_lettered"
           /\ job[j].status = "dead_lettered" => job'[j].deadLetterId = job[j].deadLetterId
    BY <1>4, <1>5
  <2>4. \A j \in spent : /\ job[j].status # "dead_lettered"
                         /\ job'[j].status = "dead_lettered"
                         /\ job'[j].deadLetterId = id[j]
    BY <1>3
  <2>. QED BY <2>1, <2>2, <2>3, <2>4, BuryLink
<1>. QED BY <1>0, <1>6, <1>7 DEF SInv

\* A redrive closes the one open letter of the job it puts back to queued.
LEMMA RedriveWriteSInv ==
  ASSUME NEW a \in Admins, SInv, RedriveWrite(a)
  PROVE  SInv'
<1>0. TInv /\ TInv'
  BY RedriveWriteTInv DEF SInv
<1>a. PICK j \in Jobs, l \in Letters : j = redrive[a].job /\ l = redrive[a].letter
  BY <1>0, RedriveFacts
<1>1. /\ j \in Jobs /\ l \in Letters /\ job[j] \in JobRow
      /\ job[j].status = "dead_lettered" /\ job[j].deadLetterId = l
  BY <1>0, <1>a, RedriveFacts
<1>2. PICK now \in Readings : job' = [job EXCEPT ![j] = Redriven(job[j], now)]
  BY <1>a DEF RedriveWrite
<1> DEFINE row == Redriven(job[j], now)
<1>3. row.status = "queued" /\ row.attemptCount = 0
  BY <1>1, RedrivenRow
<1>4. job' = [job EXCEPT ![j] = row] /\ job \in [Jobs -> JobRow]
  BY <1>0, <1>2 DEF TInv, TypeOK
<1>5. /\ letter' = [letter EXCEPT ![l].redriven = TRUE]
      /\ letter[l].job = j /\ letter \in [Letters -> LetterRow]
  <2>1. letter[l] = [job |-> j, redriven |-> FALSE]
    BY <1>a DEF RedriveWrite
  <2>2. letter' = [letter EXCEPT ![l].redriven = TRUE]
    BY <1>a DEF RedriveWrite
  <2>. QED BY <1>0, <2>1, <2>2 DEF TInv, TypeOK
<1> HIDE DEF row
<1>6. NoStrandedJob'
  <2>1. Budget(j, row)
    BY <1>1, <1>3, SInvFacts DEF Budget
  <2>2. \A k \in Jobs : Budget(k, job'[k])
    BY <1>4, <2>1, SInvFacts
  <2>. QED BY <2>2 DEF NoStrandedJob, Budget
<1>7. /\ letter'[l].job = j /\ letter'[l].redriven = TRUE
      /\ \A n \in Letters \ {l} : letter'[n] = letter[n]
  BY <1>1, <1>5 DEF LetterRow
<1>8. OpenLetters(j)' = {}
  <2>1. OpenLetters(j) = {l}
    BY <1>1, SInvFacts
  <2>2. ASSUME NEW n \in Letters, letter'[n].job = j, ~letter'[n].redriven
        PROVE  FALSE
    <3>1. n # l
      BY <1>7, <2>2
    <3>2. n \in OpenLetters(j)
      BY <1>7, <2>2, <3>1 DEF OpenLetters
    <3>. QED BY <2>1, <3>1, <3>2
  <2>. QED BY <2>2 DEF OpenLetters
<1>9. ASSUME NEW k \in Jobs \ {j}
      PROVE  OpenLetters(k)' = OpenLetters(k)
  <2>1. \A n \in Letters : letter'[n].job = k /\ ~letter'[n].redriven
                             <=> letter[n].job = k /\ ~letter[n].redriven
    BY <1>5, <1>7
  <2>. QED BY <2>1 DEF OpenLetters
<1>10. DeadLetterLink'
  <2>1. \A k \in Jobs \ {j} : job'[k] = job[k]
    BY <1>4
  <2>2. job'[j].status # "dead_lettered"
    BY <1>1, <1>3, <1>4
  <2>. QED BY <2>1, <2>2, <1>8, <1>9, SInvFacts DEF DeadLetterLink
<1>. QED BY <1>0, <1>6, <1>10 DEF SInv

\* Tick strands no job and keeps jobs and letters linked.
LEMMA TickSInv ==
  ASSUME SInv, Tick
  PROVE  SInv'
<1>1. TInv /\ TInv' /\ letter' = letter
  BY TickTInv DEF SInv, Tick
<1>2. \A j \in Jobs : /\ job'[j].status = job[j].status
                      /\ job'[j].attemptCount = job[j].attemptCount
                      /\ job'[j].deadLetterId = job[j].deadLetterId
  BY <1>1, TickRow
<1>3. DeadLetterLink'
  BY <1>1, <1>2, LinkFrame DEF SInv
<1>4. NoStrandedJob'
  BY <1>2 DEF SInv, NoStrandedJob
<1>. QED BY <1>1, <1>3, <1>4 DEF SInv

\* The two properties are inductive together, over well-formed tables.
LEMMA NextSInv == SInv /\ [Next]_vars => SInv'
<1>1. ASSUME SInv, Next PROVE SInv'
  <2>1. TInv'
    BY <1>1, NextTInv DEF SInv
  <2>2. ASSUME NEW w \in Workers, WorkThrows(w) \/ Abandon(w) \/ FailRead(w) PROVE SInv'
    BY <1>1, <2>1, <2>2, SInvNoRow DEF WorkThrows, Abandon, FailRead
  <2>3. ASSUME NEW r \in Recoverers, RecoverRead(r) \/ RecoverCrash(r) PROVE SInv'
    BY <1>1, <2>1, <2>3, SInvNoRow DEF RecoverRead, RecoverCrash
  <2>4. ASSUME NEW a \in Admins, RedriveEnds(a) \/ \E j \in Jobs : RedriveRead(a, j) PROVE SInv'
    BY <1>1, <2>1, <2>4, SInvNoRow DEF RedriveEnds, RedriveRead
  <2>. QED
    BY <1>1, <2>2, <2>3, <2>4, EnqueueSInv, AcquireSInv, RenewLeaseSInv, CheckpointSInv,
       CompleteSInv, CancelWithLeaseSInv, FailRetrySInv, FailTerminalSInv,
       RecoverWriteSInv, RedriveWriteSInv, CancelAsAdminSInv, TickSInv
    DEF Next, WorkerNext, RecovererNext, AdminNext
<1>2. SInv /\ UNCHANGED vars => SInv'
  <2>1. SInv /\ UNCHANGED vars => TInv'
    BY NextTInv DEF SInv
  <2>. QED BY <2>1, SInvNoRow DEF vars
<1>. QED BY <1>1, <1>2

\* A job is never stranded: while it waits, an attempt is left; when it is given
\* up, none is.
THEOREM JobsNeverStranded == Spec => []NoStrandedJob
<1>1. SInv => NoStrandedJob
  BY DEF SInv
<1>. QED BY <1>1, InitSInv, NextSInv, PTL DEF Spec

\* Dead-lettered jobs and open audit rows correspond one to one, however
\* failures, recoveries and redrives interleave.
THEOREM LettersMatchJobs == Spec => []DeadLetterLink
<1>1. SInv => DeadLetterLink
  BY DEF SInv
<1>. QED BY <1>1, InitSInv, NextSInv, PTL DEF Spec

----------------------------------------------------------------------------
(* What the queue promises: leases are honoured, the dead letters are an audit *)
(* log, a holder knows its checkpoint, and the queue implements JobLifecycle.  *)
(* The first, the second and the last rest on what one step does to one row,   *)
(* the third on what it does to the tokens the workers remember.               *)

----------------------------------------------------------------------------
(* What a step does to a row *)

\* The worker that holds the lease of job j takes a step.
HolderMoves(j) == \E w \in Workers : /\ worker[w].token = job[j].leaseToken
                                     /\ worker'[w] # worker[w]

Same(j) == /\ job'[j].status = job[j].status /\ job'[j].attemptCount = job[j].attemptCount
           /\ job'[j].leaseToken = job[j].leaseToken
Arrives(j) == /\ job[j].status = "absent" /\ job'[j].status = "queued"
              /\ job'[j].attemptCount = 0
Taken(j) == /\ \/ job[j].status \in Waiting
               \/ job[j].status = "running" /\ job[j].leaseExpiresAt <= 0
            /\ job[j].attemptCount < MaxAttempts[j]
            /\ job'[j].status = "running" /\ job'[j].attemptCount = job[j].attemptCount + 1
Ended(j) == /\ job[j].status = "running"
            /\ job'[j].status \in {"retry_wait", "succeeded", "dead_lettered", "cancelled"}
            /\ job'[j].attemptCount = job[j].attemptCount
            /\ job[j].leaseExpiresAt <= 0 \/ HolderMoves(j)
Withdrawn(j) == /\ job[j].status \in Waiting /\ job'[j].status = "cancelled"
                /\ job'[j].attemptCount = job[j].attemptCount
Requeued(j) == /\ job[j].status = "dead_lettered" /\ job'[j].status = "queued"
               /\ job'[j].attemptCount = 0

RowStep(j) == Same(j) \/ Arrives(j) \/ Taken(j) \/ Ended(j) \/ Withdrawn(j) \/ Requeued(j)

\* Writing one row is a step of that row; the others stay.
LEMMA OneRowSteps ==
  ASSUME TInv, NEW j \in Jobs, NEW row, job' = [job EXCEPT ![j] = row],
         job'[j] = row => RowStep(j)
  PROVE  \A k \in Jobs : RowStep(k)
<1>1. \A k \in Jobs : job'[k] = IF k = j THEN row ELSE job[k]
  BY DEF TInv, TypeOK
<1>2. ASSUME NEW k \in Jobs, k # j PROVE Same(k)
  BY <1>1, <1>2 DEF Same
<1>. QED
  BY <1>1, <1>2 DEF RowStep

\* Steps that leave the table as it is
LEMMA NoRowSteps == job' = job => \A k \in Jobs : RowStep(k)
BY DEF RowStep, Same

\* A worker that presents its lease knows a running job and its token.
LEMMA CurrentFacts ==
  ASSUME NEW w \in Workers, TInv, worker[w].mode # "idle", NEW now, LeaseIsCurrent(w, now)
  PROVE  /\ worker[w].job \in Jobs /\ job[worker[w].job] \in JobRow
         /\ job[worker[w].job].status = "running"
         /\ job[worker[w].job].leaseToken = worker[w].token /\ worker[w].token # Null
BY NullAssumption DEF LeaseIsCurrent, TInv, TypeOK, WorkerHolds

\* A worker's answer, in time or lost, changes what the worker remembers.
LEMMA AnswerMoves ==
  ASSUME NEW w \in Workers, TInv, worker[w].mode = "working", NEW view,
         view.mode # "working", Answered(w, view)
  PROVE  worker'[w] # worker[w]
<1>1. worker[w] \in WorkerState
  BY DEF TInv, TypeOK
<1>2. CASE worker' = [worker EXCEPT ![w] = view]
  BY <1>2 DEF TInv, TypeOK
<1>3. CASE worker' = [worker EXCEPT ![w].mode = "failing"]
  <2>1. worker'[w] = [worker[w] EXCEPT !.mode = "failing"]
    BY <1>3 DEF TInv, TypeOK
  <2>2. worker'[w].mode = "failing"
    BY <1>1, <2>1 DEF WorkerState
  <2>. QED
    BY <2>2
<1>. QED
  BY <1>2, <1>3 DEF Answered

\* Enqueue
LEMMA EnqueueMoves ==
  ASSUME TInv, NEW j \in Jobs, Enqueue(j)
  PROVE  \A k \in Jobs : RowStep(k)
<1>1. PICK at \in 0 .. MaxDelay : job' = [job EXCEPT ![j] = Enqueued(at)]
  BY DEF Enqueue
<1>2. job'[j] = Enqueued(at) => RowStep(j)
  BY EnqueuedRow DEF RowStep, Arrives, Enqueue
<1>. QED
  BY <1>1, <1>2, OneRowSteps

\* acquireDueJob: a due job waits, or its lease has run out by now.
LEMMA AcquireMoves ==
  ASSUME TInv, NEW w \in Workers, Acquire(w)
  PROVE  \A k \in Jobs : RowStep(k)
<1>1. PICK now \in Readings, j \in Jobs :
        /\ job[j] \in JobRow /\ j \in Due(now)
        /\ job' = [job EXCEPT ![j] = Leased(job[j], OwnerOf[w], NewToken, now)]
  BY AcquireChoice
<1>2. NewToken \in Tokens
  BY AcquireChoice
<1>3. now <= 0 /\ now \in Int
  BY ConstantsAssumption DEF Readings, Floor
<1>4. job[j].leaseExpiresAt \in Int
  BY <1>1, ConstantsAssumption DEF JobRow, Stamps, Floor, Horizon
<1>5. /\ job[j].status \in Waiting \/ (job[j].status = "running" /\ job[j].leaseExpiresAt <= 0)
      /\ job[j].attemptCount < MaxAttempts[j]
  BY <1>1, <1>3, <1>4 DEF Due, Expired
<1>. DEFINE row == Leased(job[j], OwnerOf[w], NewToken, now)
<1>6. row.status = "running" /\ row.attemptCount = job[j].attemptCount + 1
  BY <1>1, <1>2, LeasedRow
<1>. HIDE DEF row
<1>7. job'[j] = row => RowStep(j)
  BY <1>5, <1>6 DEF RowStep, Taken
<1>8. job' = [job EXCEPT ![j] = row]
  BY <1>1 DEF row
<1>. QED
  BY <1>7, <1>8, OneRowSteps

\* RenewLease and compareAndSetCheckpoint leave the job running under its token.
LEMMA KeepMoves ==
  ASSUME TInv, NEW w \in Workers, RenewLease(w) \/ CompareAndSetCheckpoint(w)
  PROVE  \A k \in Jobs : RowStep(k)
<1>. DEFINE j == worker[w].job
<1>1. j \in Jobs /\ job[j] \in JobRow
  BY DEF RenewLease, CompareAndSetCheckpoint, TInv, TypeOK, WorkerHolds
<1>2. PICK stamp, version :
        job' = [job EXCEPT ![j] = [job[j] EXCEPT !.leaseExpiresAt = stamp]] \/
        job' = [job EXCEPT ![j] = [job[j] EXCEPT !.checkpointVersion = version]]
  <2>1. CASE RenewLease(w)
    <3>1. PICK now \in Readings :
            job' = [job EXCEPT ![worker[w].job].leaseExpiresAt = Later(@, now + LeaseMs)]
      BY <2>1 DEF RenewLease
    <3>2. job' = [job EXCEPT ![j] = [job[j] EXCEPT !.leaseExpiresAt =
                                       Later(job[j].leaseExpiresAt, now + LeaseMs)]]
      BY <1>1, <3>1
    <3>. QED
      BY <3>2
  <2>2. CASE CompareAndSetCheckpoint(w)
    <3>1. job' = [job EXCEPT ![j] = [job[j] EXCEPT !.checkpointVersion =
                                       job[j].checkpointVersion + 1]]
      BY <1>1, <2>2 DEF CompareAndSetCheckpoint
    <3>. QED
      BY <3>1
  <2>. QED
    BY <2>1, <2>2
<1>. HIDE DEF j
<1>3. CASE job' = [job EXCEPT ![j] = [job[j] EXCEPT !.leaseExpiresAt = stamp]]
  <2>1. PICK row : row = [job[j] EXCEPT !.leaseExpiresAt = stamp] /\ job' = [job EXCEPT ![j] = row]
    BY <1>3
  <2>2. job'[j] = row => RowStep(j)
    BY <1>1, <2>1 DEF RowStep, Same, JobRow
  <2>. QED
    BY <1>1, <2>1, <2>2, OneRowSteps
<1>4. CASE job' = [job EXCEPT ![j] = [job[j] EXCEPT !.checkpointVersion = version]]
  <2>1. PICK row : row = [job[j] EXCEPT !.checkpointVersion = version] /\ job' = [job EXCEPT ![j] = row]
    BY <1>4
  <2>2. job'[j] = row => RowStep(j)
    BY <1>1, <2>1 DEF RowStep, Same, JobRow
  <2>. QED
    BY <1>1, <2>1, <2>2, OneRowSteps
<1>. QED
  BY <1>2, <1>3, <1>4

\* Complete
LEMMA CompleteMoves ==
  ASSUME TInv, NEW w \in Workers, Complete(w)
  PROVE  \A k \in Jobs : RowStep(k)
<1>. DEFINE j == worker[w].job
<1>1. PICK now \in Readings : LeaseIsCurrent(w, now)
  BY DEF Complete
<1>2. /\ j \in Jobs /\ job[j] \in JobRow /\ job[j].status = "running"
      /\ job[j].leaseToken = worker[w].token
  BY <1>1, CurrentFacts DEF Complete
<1>3. worker'[w] # worker[w]
  BY AnswerMoves, IdleWorker DEF Complete
<1>4. /\ Completed(job[j]).status = "succeeded"
      /\ Completed(job[j]).attemptCount = job[j].attemptCount
  BY <1>2, CompletedRow, ReleasedRow DEF Completed, Released, JobRow
<1>5. job'[j] = Completed(job[j]) => RowStep(j)
  BY <1>2, <1>3, <1>4 DEF RowStep, Ended, HolderMoves
<1>. QED
  BY <1>2, <1>5, OneRowSteps DEF Complete

\* The cancellation of a waiting job, or by a worker that presents its lease
LEMMA CancelMoves ==
  ASSUME TInv, NEW j \in Jobs, job' = [job EXCEPT ![j] = Released(job[j], "cancelled")],
         \/ job[j].status \in Waiting
         \/ job[j].status = "running" /\ HolderMoves(j)
  PROVE  \A k \in Jobs : RowStep(k)
<1>1. job[j] \in JobRow /\ "cancelled" \in Statuses
  BY DEF TInv, TypeOK, Statuses
<1>2. /\ Released(job[j], "cancelled").status = "cancelled"
      /\ Released(job[j], "cancelled").attemptCount = job[j].attemptCount
  BY <1>1, ReleasedRow
<1>3. job'[j] = Released(job[j], "cancelled") => RowStep(j)
  BY <1>2 DEF RowStep, Ended, Withdrawn
<1>. QED
  BY <1>3, OneRowSteps

\* cancelJob with a lease
LEMMA CancelWithLeaseMoves ==
  ASSUME TInv, NEW w \in Workers, CancelWithLease(w)
  PROVE  \A k \in Jobs : RowStep(k)
<1>. DEFINE j == worker[w].job
<1>0. j \in Jobs
  BY DEF CancelWithLease, TInv, WorkerHolds
<1>1. CASE job[j].status \in Waiting
  BY <1>0, <1>1, CancelMoves DEF CancelWithLease
<1>2. ASSUME NEW now \in Readings, LeaseIsCurrent(w, now) PROVE job[j].status = "running" /\ HolderMoves(j)
  <2>1. job[j].status = "running" /\ job[j].leaseToken = worker[w].token
    BY <1>2, CurrentFacts DEF CancelWithLease
  <2>2. worker'[w] # worker[w]
    BY AnswerMoves, IdleWorker DEF CancelWithLease
  <2>. QED
    BY <2>1, <2>2 DEF HolderMoves
<1>3. job[j].status \in Waiting \/ (job[j].status = "running" /\ HolderMoves(j))
  BY <1>2 DEF CancelWithLease
<1>. QED
  BY <1>0, <1>3, CancelMoves DEF CancelWithLease

\* failJob, once it writes
LEMMA FailMoves ==
  ASSUME TInv, NEW w \in Workers, FailRetry(w) \/ FailTerminal(w)
  PROVE  \A k \in Jobs : RowStep(k)
<1>. DEFINE j == worker[w].job
<1>1. FailGuard(w)
  BY DEF FailRetry, FailTerminal
<1>2. /\ j \in Jobs /\ job[j] \in JobRow /\ job[j].status = "running"
      /\ job[j].leaseToken = worker[w].token /\ worker[w].now \in Readings
  BY <1>1, FailGuardFacts, CurrentFacts DEF FailGuard
<1>3. HolderMoves(j)
  <2>1. worker'[w] # worker[w]
    BY <1>1, IdleWorker DEF FailRetry, FailTerminal, FailGuard, TInv, TypeOK
  <2>. QED
    BY <1>2, <2>1 DEF HolderMoves
<1>4. CASE FailRetry(w)
  <2>1. job'[j] = Retried(job[j], worker[w].now) => RowStep(j)
    BY <1>2, <1>3, RetriedRow DEF RowStep, Ended
  <2>. QED
    BY <1>2, <1>4, <2>1, OneRowSteps DEF FailRetry
<1>5. CASE FailTerminal(w)
  <2>1. PICK l \in FreshLetters : job' = [job EXCEPT ![j] = Buried(job[j], l)]
    BY <1>5 DEF FailTerminal
  <2>2. l \in Letters
    BY <2>1 DEF FreshLetters
  <2>3. job'[j] = Buried(job[j], l) => RowStep(j)
    BY <1>2, <1>3, <2>2, BuriedRow DEF RowStep, Ended
  <2>. QED
    BY <1>2, <2>1, <2>3, OneRowSteps
<1>. QED
  BY <1>4, <1>5

\* The batch of a recovery: each row it hits was read after its lease had run out.
LEMMA RecoverMoves ==
  ASSUME TInv, NEW r \in Recoverers, RecoverWrite(r)
  PROVE  \A k \in Jobs : RowStep(k)
<1>1. PICK hit \in SUBSET Jobs, spent \in SUBSET Jobs :
        \E id \in [spent -> FreshLetters] : Batch(r, hit, spent, id)
  BY RecoverWriteBatch
<1>2. PICK id \in [spent -> FreshLetters] : Batch(r, hit, spent, id)
  BY <1>1
<1>3. ASSUME NEW j \in hit
      PROVE  /\ j \in Jobs /\ job[j].status = "running" /\ job[j] \in JobRow
             /\ job[j].leaseExpiresAt <= 0 /\ recovery[r].now \in Readings
  <2>1. RecoverGuard(r, j) /\ j \in Jobs
    BY <1>2 DEF Batch
  <2>2. job[j].status = "running" /\ job[j] \in JobRow /\ recovery[r].now \in Readings
    BY <2>1, RecoverGuardFacts
  <2>3. job[j].leaseExpiresAt <= recovery[r].now
    BY <2>1 DEF RecoverGuard
  <2>4. job[j].leaseExpiresAt \in Int /\ recovery[r].now \in Int /\ recovery[r].now <= 0
    BY <2>2, ConstantsAssumption DEF JobRow, Stamps, Floor, Horizon, Readings
  <2>. QED
    BY <2>1, <2>2, <2>3, <2>4
<1>4. ASSUME NEW j \in Jobs PROVE RowStep(j)
  <2>1. CASE j \in spent
    <3>1. job'[j] = Buried(job[j], id[j]) /\ id[j] \in Letters /\ j \in hit
      BY <1>2, <2>1 DEF Batch, FreshLetters
    <3>. QED
      BY <1>3, <3>1, BuriedRow DEF RowStep, Ended
  <2>2. CASE j \in hit \ spent
    <3>1. job'[j] = Retried(job[j], recovery[r].now)
      BY <1>2, <2>2 DEF Batch
    <3>. QED
      BY <1>3, <2>2, <3>1, RetriedRow DEF RowStep, Ended
  <2>3. CASE j \notin hit
    <3>1. job'[j] = job[j]
      BY <1>2, <2>3 DEF Batch
    <3>. QED
      BY <3>1 DEF RowStep, Same
  <2>. QED
    BY <2>1, <2>2, <2>3
<1>. QED
  BY <1>4

\* adminRedrive
LEMMA RedriveMoves ==
  ASSUME TInv, NEW a \in Admins, RedriveWrite(a)
  PROVE  \A k \in Jobs : RowStep(k)
<1>. DEFINE j == redrive[a].job
<1>1. j \in Jobs /\ job[j] \in JobRow /\ job[j].status = "dead_lettered"
  BY RedriveFacts
<1>2. PICK now \in Readings : job' = [job EXCEPT ![j] = Redriven(job[j], now)]
  BY DEF RedriveWrite
<1>3. job'[j] = Redriven(job[j], now) => RowStep(j)
  BY <1>1, RedrivenRow DEF RowStep, Requeued
<1>. QED
  BY <1>1, <1>2, <1>3, OneRowSteps

\* Every step moves every row as RowStep says.
LEMMA NextMoves ==
  ASSUME TInv, [Next]_vars
  PROVE  \A k \in Jobs : RowStep(k)
<1>1. CASE UNCHANGED vars
  BY <1>1, NoRowSteps DEF vars
<1>2. ASSUME NEW w \in Workers, WorkerNext(w) PROVE \A k \in Jobs : RowStep(k)
  <2>1. CASE WorkThrows(w) \/ Abandon(w) \/ FailRead(w)
    BY <2>1, NoRowSteps DEF WorkThrows, Abandon, FailRead
  <2>. QED
    BY <1>2, <2>1, AcquireMoves, KeepMoves, CompleteMoves, CancelWithLeaseMoves, FailMoves
       DEF WorkerNext
<1>3. ASSUME NEW r \in Recoverers, RecovererNext(r) PROVE \A k \in Jobs : RowStep(k)
  <2>1. CASE RecoverRead(r) \/ RecoverCrash(r)
    BY <2>1, NoRowSteps DEF RecoverRead, RecoverCrash
  <2>. QED
    BY <1>3, <2>1, RecoverMoves DEF RecovererNext
<1>4. CASE AdminNext
  <2>1. ASSUME NEW j \in Jobs, CancelAsAdmin(j) PROVE \A k \in Jobs : RowStep(k)
    BY <2>1, CancelMoves DEF CancelAsAdmin
  <2>2. ASSUME NEW a \in Admins, RedriveEnds(a) \/ \E j \in Jobs : RedriveRead(a, j)
        PROVE  \A k \in Jobs : RowStep(k)
    BY <2>2, NoRowSteps DEF RedriveEnds, RedriveRead
  <2>. QED
    BY <1>4, <2>1, <2>2, RedriveMoves DEF AdminNext
<1>5. CASE Tick
  BY <1>5, TickRow DEF RowStep, Same
<1>. QED
  BY <1>1, <1>2, <1>3, <1>4, <1>5, EnqueueMoves DEF Next

----------------------------------------------------------------------------
(* Leases, and the life cycle *)

\* A lease that has not run out is ended by a step of its holder only.
LEMMA LeaseStep ==
  ASSUME TInv, [Next]_vars, NEW j \in Jobs,
         job[j].status = "running", job[j].leaseExpiresAt > 0,
         job'[j].leaseToken # job[j].leaseToken
  PROVE  HolderMoves(j)
<1>1. RowStep(j)
  BY NextMoves
<1>2. job[j].leaseExpiresAt \in Int
  BY ConstantsAssumption DEF TInv, TypeOK, JobRow, Stamps, Floor, Horizon
<1>. QED
  BY <1>1, <1>2 DEF RowStep, Same, Arrives, Taken, Ended, Withdrawn, Requeued, Waiting

\* A worker that died keeps its lease to the end: the job leaves it only in a step of the
\* worker it was given to, or after lease_expires_at.
THEOREM LeasesHonoured == Spec => LeaseHonoured
<1>. DEFINE Honours ==
       \A j \in Jobs :
         job[j].status = "running" /\ job[j].leaseExpiresAt > 0
           /\ job'[j].leaseToken # job[j].leaseToken
         => \E w \in Workers : /\ worker[w].token = job[j].leaseToken
                               /\ worker'[w] # worker[w]
<1>1. TInv /\ [Next]_vars => [Honours]_vars
  <2>1. TInv /\ [Next]_vars => Honours
    BY LeaseStep DEF HolderMoves
  <2>. QED
    BY <2>1
<1>. HIDE DEF Honours
<1>2. Spec => [][Honours]_vars
  BY <1>1, AlwaysTInv, PTL DEF Spec
<1>. QED
  BY <1>2, PTL DEF LeaseHonoured, Honours

\* A job that was never enqueued was never tried.
Untried == \A j \in Jobs : job[j].status = "absent" => job[j].attemptCount = 0
LInv == SInv /\ Untried

\* The budgets and Untried are inductive.
LEMMA LInvHolds == Spec => []LInv
<1>1. Init => Untried
  BY DEF Init, Untried, NoJob
<1>2. SInv /\ Untried /\ [Next]_vars => Untried'
  <2>1. SUFFICES ASSUME SInv, Untried, [Next]_vars, NEW j \in Jobs, job'[j].status = "absent"
                 PROVE  job'[j].attemptCount = 0
    BY DEF Untried
  <2>2. RowStep(j)
    BY <2>1, NextMoves DEF SInv
  <2>. QED
    BY <2>1, <2>2 DEF RowStep, Same, Arrives, Taken, Ended, Withdrawn, Requeued, Untried
<1>. QED
  BY <1>1, <1>2, InitSInv, NextSInv, PTL DEF Spec, LInv

\* The phase a row is in
LEMMA PhaseIs ==
  ASSUME NEW row, row.status \in Statuses
  PROVE  /\ row.status \in Waiting => PhaseOf(row) = "waiting"
         /\ row.status = "dead_lettered" => PhaseOf(row) = "dead"
         /\ row.status \in {"absent", "running", "succeeded", "cancelled"} =>
              PhaseOf(row) = row.status
BY DEF PhaseOf, Waiting

\* Each move of a row is a step of its life cycle, given the budgets after it.
LEMMA MoveIsStep ==
  ASSUME LInv, LInv', [Next]_vars, NEW j \in Jobs
  PROVE  Promise!JobStep(j)
<1>1. /\ job[j].status \in Statuses /\ job'[j].status \in Statuses
      /\ job[j].attemptCount \in Nat /\ job'[j].attemptCount \in Nat
      /\ MaxAttempts[j] \in Nat
  BY ConstantsAssumption DEF LInv, SInv, TInv, TypeOK, JobRow
<1>2. RowStep(j)
  BY NextMoves DEF LInv, SInv
<1>3. /\ job'[j].status \in Waiting => job'[j].attemptCount < MaxAttempts[j]
      /\ job'[j].status = "dead_lettered" => job'[j].attemptCount = MaxAttempts[j]
      /\ job[j].status = "absent" => job[j].attemptCount = 0
  BY DEF LInv, SInv, NoStrandedJob, Untried
<1>. DEFINE p == PhaseOf(job[j])
            q == PhaseOf(job'[j])
<1>4. ASSUME NEW a, NEW b, p = a, q = b PROVE Promise!Goes(j, a, b)
  BY <1>4 DEF Promise!Goes
<1>5. CASE Same(j)
  <2>1. p = q
    BY <1>5 DEF Same, PhaseOf
  <2>. QED
    BY <1>5, <2>1 DEF Same, Promise!JobStep, Promise!Stays, Promise!Keeps
<1>6. CASE Arrives(j)
  <2>1. p = "absent" /\ q = "waiting"
    BY <1>1, <1>6, PhaseIs DEF Arrives, Waiting
  <2>. QED
    BY <1>3, <1>4, <1>6, <2>1 DEF Arrives, Promise!JobStep, Promise!Submit, Promise!Keeps
<1>7. CASE Taken(j)
  <2>1. p \in {"waiting", "running"} /\ q = "running"
    BY <1>1, <1>7, PhaseIs DEF Taken
  <2>. QED
    BY <1>4, <1>7, <2>1 DEF Taken, Promise!JobStep, Promise!Try
<1>8. CASE Ended(j)
  <2>1. p = "running"
    BY <1>1, <1>8, PhaseIs DEF Ended
  <2>2. CASE job'[j].status = "retry_wait"
    <3>1. q = "waiting" /\ job'[j].status \in Waiting
      BY <1>1, <2>2, PhaseIs DEF Waiting
    <3>. QED
      BY <1>3, <1>4, <1>8, <2>1, <3>1 DEF Ended, Promise!JobStep, Promise!Retry, Promise!Keeps
  <2>3. CASE job'[j].status = "succeeded"
    <3>1. q = "succeeded"
      BY <1>1, <2>3, PhaseIs
    <3>. QED
      BY <1>4, <1>8, <2>1, <3>1 DEF Ended, Promise!JobStep, Promise!Succeed, Promise!Keeps
  <2>4. CASE job'[j].status = "dead_lettered"
    <3>1. q = "dead"
      BY <1>1, <2>4, PhaseIs
    <3>. QED
      BY <1>3, <1>4, <1>8, <2>1, <2>4, <3>1
         DEF Ended, Promise!JobStep, Promise!GiveUp, Promise!Keeps
  <2>5. CASE job'[j].status = "cancelled"
    <3>1. q = "cancelled"
      BY <1>1, <2>5, PhaseIs
    <3>. QED
      BY <1>4, <1>8, <2>1, <3>1 DEF Ended, Promise!JobStep, Promise!Cancel, Promise!Keeps
  <2>. QED
    BY <1>8, <2>2, <2>3, <2>4, <2>5 DEF Ended
<1>9. CASE Withdrawn(j)
  <2>1. p = "waiting" /\ q = "cancelled"
    BY <1>1, <1>9, PhaseIs DEF Withdrawn
  <2>. QED
    BY <1>4, <1>9, <2>1 DEF Withdrawn, Promise!JobStep, Promise!Cancel, Promise!Keeps
<1>10. CASE Requeued(j)
  <2>1. p = "dead" /\ q = "waiting"
    BY <1>1, <1>10, PhaseIs DEF Requeued, Waiting
  <2>. QED
    BY <1>4, <1>10, <2>1 DEF Requeued, Promise!JobStep, Promise!Redrive
<1>. QED
  BY <1>2, <1>5, <1>6, <1>7, <1>8, <1>9, <1>10 DEF RowStep

\* The queue implements its life cycle: a job is tried within its budget, given up with
\* none left, settles once and leaves a settled phase by a redrive only.
THEOREM LifecycleImplemented == Spec => ImplementsLifecycle
<1>1. Init => Promise!Init
  BY DEF Init, NoJob, PhaseOf, Waiting, Promise!Init
<1>2. LInv /\ LInv' /\ [Next]_vars => Promise!Next
  BY MoveIsStep DEF Promise!Next
<1>. QED
  BY <1>1, <1>2, LInvHolds, PTL DEF Spec, ImplementsLifecycle, Promise!Spec

----------------------------------------------------------------------------
(* Dead letters *)

\* A letter that was never written is not marked.
Blank == \A l \in Letters : letter[l].job = Null => ~letter[l].redriven

\* What a step does to an audit row: nothing, writing one that is free, or marking the one
\* its own job names, in the step that puts the job back.
LetterStep(l) ==
  \/ letter'[l] = letter[l]
  \/ letter[l].job = Null /\ letter'[l].job \in Jobs /\ ~letter'[l].redriven
  \/ /\ letter[l].job \in Jobs /\ letter'[l].job = letter[l].job /\ ~letter[l].redriven
     /\ job[letter[l].job].deadLetterId = l
     /\ job'[letter[l].job].status = "queued"

\* The three steps that write audit rows
LEMMA LettersStep ==
  ASSUME TInv, [Next]_vars, NEW l \in Letters
  PROVE  LetterStep(l)
<1>1. CASE letter' = letter
  BY <1>1 DEF LetterStep
<1>2. ASSUME NEW w \in Workers, FailTerminal(w) PROVE LetterStep(l)
  <2>1. worker[w].job \in Jobs
    BY <1>2, FailGuardFacts DEF FailTerminal
  <2>2. PICK k \in FreshLetters : letter' = [letter EXCEPT ![k] = [job |-> worker[w].job,
                                                                   redriven |-> FALSE]]
    BY <1>2 DEF FailTerminal
  <2>. QED
    BY <2>1, <2>2 DEF FreshLetters, TInv, TypeOK, LetterStep
<1>3. ASSUME NEW r \in Recoverers, RecoverWrite(r) PROVE LetterStep(l)
  <2>1. PICK hit \in SUBSET Jobs, spent \in SUBSET Jobs :
          \E id \in [spent -> FreshLetters] : Batch(r, hit, spent, id)
    BY <1>3, RecoverWriteBatch
  <2>2. PICK id \in [spent -> FreshLetters] : Batch(r, hit, spent, id)
    BY <2>1
  <2>3. letter'[l] = IF \E j \in spent : id[j] = l
                     THEN [job |-> CHOOSE j \in spent : id[j] = l, redriven |-> FALSE]
                     ELSE letter[l]
    BY <2>2 DEF Batch
  <2>4. CASE \E j \in spent : id[j] = l
    <3>1. PICK k : k = CHOOSE j \in spent : id[j] = l
      OBVIOUS
    <3>2. k \in spent /\ id[k] = l
      BY <2>4, <3>1
    <3>3. letter'[l] = [job |-> k, redriven |-> FALSE]
      BY <2>3, <2>4, <3>1
    <3>4. letter[l].job = Null /\ k \in Jobs
      BY <3>2 DEF FreshLetters
    <3>. QED
      BY <3>3, <3>4 DEF LetterStep
  <2>5. CASE ~ \E j \in spent : id[j] = l
    BY <2>3, <2>5 DEF LetterStep
  <2>. QED
    BY <2>4, <2>5
<1>4. ASSUME NEW a \in Admins, RedriveWrite(a) PROVE LetterStep(l)
  <2>. DEFINE j == redrive[a].job
              k == redrive[a].letter
  <2>1. /\ j \in Jobs /\ k \in Letters /\ job[j] \in JobRow /\ job[j].deadLetterId = k
    BY <1>4, RedriveFacts
  <2>2. letter[k] = [job |-> j, redriven |-> FALSE] /\ letter' = [letter EXCEPT ![k].redriven = TRUE]
    BY <1>4 DEF RedriveWrite
  <2>3. PICK now \in Readings : job' = [job EXCEPT ![j] = Redriven(job[j], now)]
    BY <1>4 DEF RedriveWrite
  <2>4. job'[j].status = "queued"
    BY <2>1, <2>3, RedrivenRow DEF TInv, TypeOK
  <2>5. letter'[k].job = j /\ letter[k].job = j /\ ~letter[k].redriven
    BY <2>1, <2>2 DEF TInv, TypeOK, LetterRow
  <2>6. CASE l = k
    BY <2>1, <2>4, <2>5, <2>6 DEF LetterStep
  <2>7. CASE l # k
    BY <2>1, <2>2, <2>7 DEF TInv, TypeOK, LetterStep
  <2>. QED
    BY <2>6, <2>7
<1>5. ASSUME NEW w \in Workers, WorkerNext(w), ~FailTerminal(w) PROVE letter' = letter
  BY <1>5 DEF WorkerNext, Acquire, RenewLease, CompareAndSetCheckpoint, Complete, WorkThrows,
              Abandon, CancelWithLease, FailRead, FailRetry
<1>6. ASSUME NEW r \in Recoverers, RecovererNext(r), ~RecoverWrite(r) PROVE letter' = letter
  BY <1>6 DEF RecovererNext, RecoverRead, RecoverCrash
<1>7. ASSUME AdminNext, \A a \in Admins : ~RedriveWrite(a) PROVE letter' = letter
  BY <1>7 DEF AdminNext, CancelAsAdmin, RedriveEnds, RedriveRead
<1>8. ASSUME NEW j \in Jobs, Enqueue(j) PROVE letter' = letter
  BY <1>8 DEF Enqueue
<1>9. Tick \/ UNCHANGED vars => letter' = letter
  BY DEF Tick, vars
<1>. QED
  BY <1>1, <1>2, <1>3, <1>4, <1>5, <1>6, <1>7, <1>8, <1>9 DEF Next

\* Blank is inductive.
LEMMA BlankHolds == Spec => []Blank
<1>1. Init => Blank
  BY DEF Init, Blank, NoLetter
<1>2. TInv /\ Blank /\ [Next]_vars => Blank'
  <2>1. SUFFICES ASSUME TInv, Blank, [Next]_vars, NEW l \in Letters, letter'[l].job = Null
                 PROVE  ~letter'[l].redriven
    BY DEF Blank
  <2>2. LetterStep(l)
    BY <2>1, LettersStep
  <2>. QED
    BY <2>1, <2>2, NullAssumption DEF LetterStep, Blank
<1>. QED
  BY <1>1, <1>2, AlwaysTInv, PTL DEF Spec

\* The dead letters are an audit log: a row never changes its job, is marked redriven once,
\* and in the very step that puts its own job back to wait.
THEOREM LettersAudited == Spec => DeadLetterAudit
<1>. DEFINE Audits ==
       \A l \in Letters :
         /\ letter[l].job # Null => letter'[l].job = letter[l].job
         /\ letter[l].redriven => letter'[l].redriven
         /\ ~letter[l].redriven /\ letter'[l].redriven =>
              /\ job[letter[l].job].deadLetterId = l
              /\ job'[letter[l].job].status = "queued"
<1>1. TInv /\ Blank /\ [Next]_vars => [Audits]_vars
  <2>1. ASSUME TInv, Blank, [Next]_vars, NEW l \in Letters
        PROVE  /\ letter[l].job # Null => letter'[l].job = letter[l].job
               /\ letter[l].redriven => letter'[l].redriven
               /\ ~letter[l].redriven /\ letter'[l].redriven =>
                    /\ job[letter[l].job].deadLetterId = l
                    /\ job'[letter[l].job].status = "queued"
    <3>1. LetterStep(l)
      BY <2>1, LettersStep
    <3>2. CASE letter'[l] = letter[l]
      BY <3>2, Zenon
    <3>3. CASE letter[l].job = Null /\ letter'[l].job \in Jobs /\ ~letter'[l].redriven
      <4>1. ~letter[l].redriven
        BY <2>1, <3>3 DEF Blank
      <4>. QED
        BY <3>3, <4>1, Zenon
    <3>4. CASE /\ letter[l].job \in Jobs /\ letter'[l].job = letter[l].job /\ ~letter[l].redriven
               /\ job[letter[l].job].deadLetterId = l
               /\ job'[letter[l].job].status = "queued"
      BY <3>4, Zenon
    <3>. QED
      BY <3>1, <3>2, <3>3, <3>4, Zenon DEF LetterStep
  <2>. QED
    BY <2>1
<1>. HIDE DEF Audits
<1>2. Spec => [][Audits]_vars
  BY <1>1, AlwaysTInv, BlankHolds, PTL DEF Spec
<1>. QED
  BY <1>2, PTL DEF DeadLetterAudit, Audits

----------------------------------------------------------------------------
(* Tokens and checkpoints *)

\* At most one worker knows a token.
OwnTokens == \A w, v \in Workers :
  worker[w].mode # "idle" /\ worker[v].token = worker[w].token => v = w

\* A holder knows its checkpoint; one whose call threw may be behind.
Knows(w) ==
  LET row == job[worker[w].job]
  IN  worker[w].mode # "idle" /\ row.leaseToken = worker[w].token =>
        /\ worker[w].mode = "working" => row.checkpointVersion = worker[w].version
        /\ worker[w].version <= row.checkpointVersion

HInv == TInv /\ OwnTokens /\ \A w \in Workers : Knows(w)

\* The invariant implies the property.
LEMMA HInvIsHolder == HInv => HolderKnowsCheckpoint
BY DEF HInv, OwnTokens, Knows, HolderKnowsCheckpoint

\* Worker w remembers what it did, though it may have stopped working; or it ends.
Remembers(w) == /\ worker'[w].job = worker[w].job /\ worker'[w].token = worker[w].token
                /\ worker'[w].version = worker[w].version
                /\ worker'[w].mode = "working" => worker[w].mode = "working"
                /\ worker'[w].mode # "idle" => worker[w].mode # "idle"
Quiet(w) == Remembers(w) \/ worker'[w] = Idle
\* Job j keeps its token and its checkpoint, or loses its token.
KeepsLease(j) == \/ job'[j].leaseToken = Null
                 \/ /\ job'[j].leaseToken = job[j].leaseToken
                    /\ job'[j].checkpointVersion = job[j].checkpointVersion

\* What an idle worker remembers is nothing.
LEMMA IdleKnowsNothing == Idle.mode = "idle" /\ Idle.token = Null
BY DEF Idle

\* Such steps keep the invariant.
LEMMA QuietStep ==
  ASSUME HInv, TInv', \A w \in Workers : Quiet(w), \A j \in Jobs : KeepsLease(j)
  PROVE  HInv'
<1>1. \A w \in Workers : worker[w].mode # "idle" => /\ worker[w].job \in Jobs
                                                    /\ worker[w].token # Null
  BY NullAssumption DEF HInv, TInv, WorkerHolds
<1>2. OwnTokens'
  <2>1. SUFFICES ASSUME NEW w \in Workers, NEW v \in Workers, worker'[w].mode # "idle",
                        worker'[v].token = worker'[w].token
                 PROVE  v = w
    BY DEF OwnTokens
  <2>2. Remembers(w)
    BY <2>1, IdleKnowsNothing DEF Quiet
  <2>3. worker[w].mode # "idle" /\ worker'[w].token = worker[w].token
    BY <2>1, <2>2 DEF Remembers
  <2>4. Remembers(v)
    BY <1>1, <2>1, <2>3, IdleKnowsNothing DEF Quiet
  <2>. QED
    BY <2>1, <2>3, <2>4 DEF Remembers, HInv, OwnTokens
<1>3. ASSUME NEW w \in Workers PROVE Knows(w)'
  <2>1. SUFFICES ASSUME worker'[w].mode # "idle",
                        job'[worker'[w].job].leaseToken = worker'[w].token
                 PROVE  /\ worker'[w].mode = "working" =>
                             job'[worker'[w].job].checkpointVersion = worker'[w].version
                        /\ worker'[w].version <= job'[worker'[w].job].checkpointVersion
    BY DEF Knows
  <2>2. Remembers(w)
    BY <2>1, IdleKnowsNothing DEF Quiet
  <2>3. /\ worker[w].mode # "idle" /\ worker[w].job \in Jobs /\ worker[w].token # Null
        /\ worker'[w].job = worker[w].job /\ worker'[w].token = worker[w].token
        /\ worker'[w].version = worker[w].version
        /\ worker'[w].mode = "working" => worker[w].mode = "working"
    BY <1>1, <2>1, <2>2 DEF Remembers
  <2>4. KeepsLease(worker[w].job)
    BY <2>3
  <2>5. /\ job'[worker[w].job].leaseToken = job[worker[w].job].leaseToken
        /\ job'[worker[w].job].checkpointVersion = job[worker[w].job].checkpointVersion
    BY <2>1, <2>3, <2>4 DEF KeepsLease
  <2>6. Knows(w)
    BY DEF HInv
  <2>. QED
    BY <2>1, <2>3, <2>5, <2>6 DEF Knows
<1>. QED
  BY <1>2, <1>3 DEF HInv

\* Writing one worker's record is quiet when what is written is.
LEMMA OneWorkerQuiet ==
  ASSUME TInv, NEW w \in Workers, NEW view, worker' = [worker EXCEPT ![w] = view],
         worker'[w] = view => Quiet(w)
  PROVE  \A v \in Workers : Quiet(v)
<1>1. \A v \in Workers : worker'[v] = IF v = w THEN view ELSE worker[v]
  BY DEF TInv, TypeOK
<1>. QED
  BY <1>1 DEF Quiet, Remembers

\* A worker whose answer is lost, or a call of which throws, remembers what it did.
LEMMA FailingQuiet ==
  ASSUME TInv, NEW w \in Workers, worker[w].mode = "working",
         worker' = [worker EXCEPT ![w].mode = "failing"]
  PROVE  \A v \in Workers : Quiet(v)
<1>1. worker[w] \in WorkerState
  BY DEF TInv, TypeOK
<1>2. PICK view : view = [worker[w] EXCEPT !.mode = "failing"]
                  /\ worker' = [worker EXCEPT ![w] = view]
  OBVIOUS
<1>3. /\ view.mode = "failing" /\ view.job = worker[w].job /\ view.token = worker[w].token
      /\ view.version = worker[w].version
  BY <1>1, <1>2 DEF WorkerState
<1>. QED
  BY <1>2, <1>3, OneWorkerQuiet DEF Quiet, Remembers

\* An answer that ends the worker's run or changes nothing is quiet.
LEMMA AnsweredQuiet ==
  ASSUME TInv, NEW w \in Workers, worker[w].mode = "working",
         Answered(w, Idle) \/ Answered(w, worker[w])
  PROVE  \A v \in Workers : Quiet(v)
<1>1. CASE worker' = [worker EXCEPT ![w] = Idle]
  BY <1>1, OneWorkerQuiet DEF Quiet
<1>2. CASE worker' = [worker EXCEPT ![w] = worker[w]]
  BY <1>2, OneWorkerQuiet DEF Quiet, Remembers
<1>3. CASE worker' = [worker EXCEPT ![w].mode = "failing"]
  BY <1>3, FailingQuiet
<1>. QED
  BY <1>1, <1>2, <1>3 DEF Answered

\* Writing one row keeps the leases when that row's lease is kept or cleared.
LEMMA OneRowKeeps ==
  ASSUME TInv, NEW j \in Jobs, NEW row, job' = [job EXCEPT ![j] = row],
         \/ row.leaseToken = Null
         \/ /\ row.leaseToken = job[j].leaseToken
            /\ row.checkpointVersion = job[j].checkpointVersion
  PROVE  \A k \in Jobs : KeepsLease(k)
<1>1. \A k \in Jobs : job'[k] = IF k = j THEN row ELSE job[k]
  BY DEF TInv, TypeOK
<1>. QED
  BY <1>1 DEF KeepsLease

\* A released row has no token.
LEMMA ReleasedKeeps ==
  ASSUME TInv, NEW j \in Jobs
  PROVE  /\ Released(job[j], "cancelled").leaseToken = Null
         /\ Completed(job[j]).leaseToken = Null
<1>1. job[j] \in JobRow /\ "cancelled" \in Statuses /\ "succeeded" \in Statuses
  BY DEF TInv, TypeOK, Statuses
<1>2. Completed(job[j]) \in JobRow /\ Completed(job[j]).status = "succeeded"
      /\ LeaseColumns(Completed(job[j]))
  BY <1>1, CompletedRow
<1>. QED
  BY <1>1, <1>2, ReleasedRow DEF LeaseColumns

\* acquireDueJob hands out a token nobody knows, with the checkpoint of the row.
LEMMA AcquireHolder ==
  ASSUME HInv, NEW w \in Workers, Acquire(w)
  PROVE  HInv'
<1>0. TInv /\ TInv'
  BY AcquireTInv DEF HInv
<1>1. PICK now \in Readings, j \in Jobs :
        /\ job[j] \in JobRow /\ LeaseColumns(job[j])
        /\ j \in Due(now)
        /\ job' = [job EXCEPT ![j] = Leased(job[j], OwnerOf[w], NewToken, now)]
        /\ worker' = [worker EXCEPT ![w] =
             [Idle EXCEPT !.mode = "working", !.job = j, !.token = NewToken,
                          !.version = job[j].checkpointVersion]]
  BY <1>0, AcquireChoice
<1>2. NewToken \in Tokens /\ NewToken \in FreshTokens
  BY <1>0, AcquireChoice
<1>3. \A v \in Workers : worker[v].token # NewToken
  BY <1>2 DEF FreshTokens
<1>4. PICK view : /\ view = [Idle EXCEPT !.mode = "working", !.job = j, !.token = NewToken,
                                         !.version = job[j].checkpointVersion]
                  /\ worker' = [worker EXCEPT ![w] = view]
  BY <1>1
<1>5. /\ view.mode = "working" /\ view.job = j /\ view.token = NewToken
      /\ view.version = job[j].checkpointVersion
  BY <1>4 DEF Idle
<1>6. PICK row : /\ row = Leased(job[j], OwnerOf[w], NewToken, now)
                 /\ job' = [job EXCEPT ![j] = row]
  BY <1>1
<1>7. row.leaseToken = NewToken /\ row.checkpointVersion = job[j].checkpointVersion
  BY <1>1, <1>2, <1>6, LeasedRow
<1>8. \A v \in Workers : worker'[v] = IF v = w THEN view ELSE worker[v]
  BY <1>0, <1>4 DEF TInv, TypeOK
<1>9. \A k \in Jobs : job'[k] = IF k = j THEN row ELSE job[k]
  BY <1>0, <1>6 DEF TInv, TypeOK
<1>10. OwnTokens'
  BY <1>3, <1>5, <1>8 DEF HInv, OwnTokens
<1>11. ASSUME NEW v \in Workers PROVE Knows(v)'
  <2>1. CASE v = w
    <3>1. job[j].checkpointVersion \in Int
      BY <1>1, ConstantsAssumption DEF JobRow
    <3>. QED
      BY <1>5, <1>7, <1>8, <1>9, <2>1, <3>1 DEF Knows
  <2>2. CASE v # w
    <3>1. worker'[v] = worker[v] /\ Knows(v)
      BY <1>8, <2>2 DEF HInv
    <3>2. worker[v].mode # "idle" => worker[v].job \in Jobs
      BY <1>0 DEF TInv, WorkerHolds
    <3>. QED
      BY <1>3, <1>7, <1>9, <3>1, <3>2 DEF Knows
  <2>. QED
    BY <2>1, <2>2
<1>. QED
  BY <1>0, <1>10, <1>11 DEF HInv

\* compareAndSetCheckpoint: no other worker knows the token, and one whose answer is lost
\* is behind.
LEMMA CheckpointHolder ==
  ASSUME HInv, NEW w \in Workers, CompareAndSetCheckpoint(w)
  PROVE  HInv'
<1>. DEFINE j == worker[w].job
<1>0. TInv /\ TInv' /\ worker[w].mode = "working"
  BY CheckpointTInv DEF HInv, CompareAndSetCheckpoint
<1>1. PICK now \in Readings : LeaseIsCurrent(w, now)
  BY DEF CompareAndSetCheckpoint
<1>2. /\ j \in Jobs /\ job[j] \in JobRow /\ worker[w].token # Null
      /\ job[j].leaseToken = worker[w].token /\ worker[w] \in WorkerState
  BY <1>0, <1>1, CurrentFacts DEF TInv, TypeOK
<1>3. PICK row : /\ row = [job[j] EXCEPT !.checkpointVersion = job[j].checkpointVersion + 1]
                 /\ job' = [job EXCEPT ![j] = row]
  BY <1>2 DEF CompareAndSetCheckpoint
<1>4. row.leaseToken = job[j].leaseToken /\ row.checkpointVersion = job[j].checkpointVersion + 1
  BY <1>2, <1>3 DEF JobRow
<1>5. \A k \in Jobs : job'[k] = IF k = j THEN row ELSE job[k]
  BY <1>0, <1>3 DEF TInv, TypeOK
<1>6. job[j].checkpointVersion = worker[w].version /\ worker[w].version \in Int
  BY <1>2, ConstantsAssumption DEF CompareAndSetCheckpoint, WorkerState
<1>7. PICK view : /\ worker' = [worker EXCEPT ![w] = view]
                  /\ view.job = j /\ view.token = worker[w].token /\ view.mode # "idle"
                  /\ \/ view.version = worker[w].version + 1
                     \/ view.version = worker[w].version /\ view.mode = "failing"
  <2>1. CASE worker' = [worker EXCEPT ![w] = [worker[w] EXCEPT !.version = worker[w].version + 1]]
    <3>1. PICK view : /\ view = [worker[w] EXCEPT !.version = worker[w].version + 1]
                      /\ worker' = [worker EXCEPT ![w] = view]
      BY <2>1
    <3>2. /\ view.job = j /\ view.token = worker[w].token /\ view.mode = "working"
          /\ view.version = worker[w].version + 1
      BY <1>0, <1>2, <3>1 DEF WorkerState
    <3>. QED
      BY <3>1, <3>2
  <2>2. CASE worker' = [worker EXCEPT ![w].mode = "failing"]
    <3>1. PICK view : view = [worker[w] EXCEPT !.mode = "failing"]
                      /\ worker' = [worker EXCEPT ![w] = view]
      BY <2>2
    <3>2. /\ view.job = j /\ view.token = worker[w].token /\ view.mode = "failing"
          /\ view.version = worker[w].version
      BY <1>2, <3>1 DEF WorkerState
    <3>. QED
      BY <3>1, <3>2
  <2>. QED
    BY <2>1, <2>2 DEF CompareAndSetCheckpoint, Answered
<1>8. \A v \in Workers : worker'[v] = IF v = w THEN view ELSE worker[v]
  BY <1>0, <1>7 DEF TInv, TypeOK
<1>9. OwnTokens'
  BY <1>0, <1>7, <1>8 DEF HInv, OwnTokens
<1>10. ASSUME NEW v \in Workers PROVE Knows(v)'
  <2>1. CASE v = w
    BY <1>4, <1>5, <1>6, <1>7, <1>8, <2>1, <1>2 DEF Knows
  <2>2. CASE v # w
    <3>1. worker'[v] = worker[v] /\ Knows(v) /\ worker[v].token # worker[w].token
      BY <1>0, <1>8, <2>2 DEF HInv, OwnTokens
    <3>2. worker[v].mode # "idle" => worker[v].job \in Jobs
      BY <1>0 DEF TInv, WorkerHolds
    <3>. QED
      BY <1>2, <1>4, <1>5, <3>1, <3>2 DEF Knows
  <2>. QED
    BY <2>1, <2>2
<1>. QED
  BY <1>0, <1>9, <1>10 DEF HInv

\* The other steps of a worker
LEMMA WorkerQuiet ==
  ASSUME TInv, NEW w \in Workers, WorkerNext(w), ~Acquire(w), ~CompareAndSetCheckpoint(w)
  PROVE  (\A v \in Workers : Quiet(v)) /\ (\A k \in Jobs : KeepsLease(k))
<1>0. job' = job => \A k \in Jobs : KeepsLease(k)
  BY DEF KeepsLease
<1>1. CASE RenewLease(w)
  <2>1. \A v \in Workers : Quiet(v)
    BY <1>1, AnsweredQuiet DEF RenewLease
  <2>2. worker[w].job \in Jobs /\ job[worker[w].job] \in JobRow
    BY <1>1 DEF RenewLease, TInv, TypeOK, WorkerHolds
  <2>3. PICK now \in Readings :
          job' = [job EXCEPT ![worker[w].job].leaseExpiresAt = Later(@, now + LeaseMs)]
    BY <1>1 DEF RenewLease
  <2>4. PICK row : /\ row = [job[worker[w].job] EXCEPT !.leaseExpiresAt =
                               Later(job[worker[w].job].leaseExpiresAt, now + LeaseMs)]
                   /\ job' = [job EXCEPT ![worker[w].job] = row]
    BY <2>2, <2>3
  <2>5. /\ row.leaseToken = job[worker[w].job].leaseToken
        /\ row.checkpointVersion = job[worker[w].job].checkpointVersion
    BY <2>2, <2>4 DEF JobRow
  <2>. QED
    BY <2>1, <2>2, <2>4, <2>5, OneRowKeeps
<1>2. CASE Complete(w) \/ CancelWithLease(w)
  <2>1. worker[w].job \in Jobs /\ worker[w].mode = "working"
    BY <1>2 DEF Complete, CancelWithLease, TInv, WorkerHolds
  <2>2. \A v \in Workers : Quiet(v)
    BY <1>2, AnsweredQuiet DEF Complete, CancelWithLease
  <2>3. \A k \in Jobs : KeepsLease(k)
    BY <1>2, <2>1, OneRowKeeps, ReleasedKeeps DEF Complete, CancelWithLease
  <2>. QED
    BY <2>2, <2>3
<1>3. CASE WorkThrows(w)
  BY <1>0, <1>3, FailingQuiet DEF WorkThrows
<1>4. CASE Abandon(w)
  BY <1>0, <1>4, OneWorkerQuiet DEF Abandon, Quiet
<1>5. CASE FailRead(w)
  <2>1. PICK now \in Readings :
          worker' = [worker EXCEPT ![w].mode = "fail_sent", ![w].now = now,
                                   ![w].attempt = job[worker[w].job].attemptCount]
    BY <1>5 DEF FailRead
  <2>2. worker[w] \in WorkerState /\ worker[w].mode # "idle"
    BY <1>5 DEF FailRead, TInv, TypeOK
  <2>3. PICK view : /\ view = [worker[w] EXCEPT !.mode = "fail_sent", !.now = now,
                                   !.attempt = job[worker[w].job].attemptCount]
                    /\ worker' = [worker EXCEPT ![w] = view]
    BY <2>1 DEF TInv, TypeOK
  <2>4. /\ view.mode = "fail_sent" /\ view.job = worker[w].job
        /\ view.token = worker[w].token /\ view.version = worker[w].version
    BY <2>2, <2>3 DEF WorkerState
  <2>. QED
    BY <1>0, <1>5, <2>2, <2>3, <2>4, OneWorkerQuiet DEF FailRead, Quiet, Remembers
<1>6. CASE FailRetry(w) \/ FailTerminal(w)
  <2>1. /\ worker[w].job \in Jobs /\ job[worker[w].job] \in JobRow /\ worker[w].now \in Readings
    BY <1>6, FailGuardFacts DEF FailRetry, FailTerminal
  <2>2. \A v \in Workers : Quiet(v)
    BY <1>6, OneWorkerQuiet DEF FailRetry, FailTerminal, Quiet
  <2>3. CASE FailRetry(w)
    BY <2>1, <2>2, <2>3, OneRowKeeps, RetriedRow DEF FailRetry
  <2>4. CASE FailTerminal(w)
    <3>1. PICK l \in FreshLetters : job' = [job EXCEPT ![worker[w].job] = Buried(job[worker[w].job], l)]
      BY <2>4 DEF FailTerminal
    <3>2. l \in Letters
      BY <3>1 DEF FreshLetters
    <3>. QED
      BY <2>1, <2>2, <3>1, <3>2, OneRowKeeps, BuriedRow
  <2>. QED
    BY <1>6, <2>3, <2>4
<1>. QED
  BY <1>1, <1>2, <1>3, <1>4, <1>5, <1>6 DEF WorkerNext

\* The steps of everyone else
LEMMA OthersQuiet ==
  ASSUME TInv, Next, \A w \in Workers : ~WorkerNext(w)
  PROVE  (\A v \in Workers : Quiet(v)) /\ (\A k \in Jobs : KeepsLease(k))
<1>0. /\ job' = job => \A k \in Jobs : KeepsLease(k)
      /\ worker' = worker => \A v \in Workers : Quiet(v)
  BY DEF KeepsLease, Quiet, Remembers
<1>1. ASSUME NEW j \in Jobs, Enqueue(j) PROVE \A k \in Jobs : KeepsLease(k)
  <2>1. PICK at \in 0 .. MaxDelay : job' = [job EXCEPT ![j] = Enqueued(at)]
    BY <1>1 DEF Enqueue
  <2>2. Enqueued(at).leaseToken = Null
    BY EnqueuedRow DEF LeaseColumns
  <2>. QED
    BY <2>1, <2>2, OneRowKeeps
<1>2. ASSUME NEW r \in Recoverers, RecoverWrite(r) PROVE \A k \in Jobs : KeepsLease(k)
  <2>1. PICK hit \in SUBSET Jobs, spent \in SUBSET Jobs :
          \E id \in [spent -> FreshLetters] : Batch(r, hit, spent, id)
    BY <1>2, RecoverWriteBatch
  <2>2. PICK id \in [spent -> FreshLetters] : Batch(r, hit, spent, id)
    BY <2>1
  <2>3. ASSUME NEW k \in Jobs PROVE KeepsLease(k)
    <3>1. CASE k \in spent
      <4>1. job'[k] = Buried(job[k], id[k]) /\ id[k] \in Letters /\ job[k] \in JobRow
        BY <2>2, <3>1 DEF Batch, FreshLetters, TInv, TypeOK
      <4>. QED
        BY <4>1, BuriedRow DEF KeepsLease
    <3>2. CASE k \in hit \ spent
      <4>1. job'[k] = Retried(job[k], recovery[r].now) /\ RecoverGuard(r, k)
        BY <2>2, <3>2 DEF Batch
      <4>2. job[k] \in JobRow /\ recovery[r].now \in Readings
        BY <4>1, RecoverGuardFacts
      <4>. QED
        BY <4>1, <4>2, RetriedRow DEF KeepsLease
    <3>3. CASE k \notin hit
      BY <2>2, <3>3 DEF Batch, KeepsLease
    <3>. QED
      BY <3>1, <3>2, <3>3
  <2>. QED
    BY <2>3
<1>3. ASSUME NEW a \in Admins, RedriveWrite(a) PROVE \A k \in Jobs : KeepsLease(k)
  <2>1. redrive[a].job \in Jobs /\ job[redrive[a].job] \in JobRow
    BY <1>3, RedriveFacts
  <2>2. PICK now \in Readings : job' = [job EXCEPT ![redrive[a].job] = Redriven(job[redrive[a].job], now)]
    BY <1>3 DEF RedriveWrite
  <2>. QED
    BY <2>1, <2>2, OneRowKeeps, RedrivenRow
<1>4. ASSUME NEW j \in Jobs, CancelAsAdmin(j) PROVE \A k \in Jobs : KeepsLease(k)
  BY <1>4, OneRowKeeps, ReleasedKeeps DEF CancelAsAdmin
<1>5. CASE Tick
  BY <1>5, TickRow, TickWorker DEF KeepsLease, Quiet, Remembers
<1>6. CASE \E j \in Jobs : Enqueue(j)
  BY <1>0, <1>1, <1>6 DEF Enqueue
<1>7. CASE \E r \in Recoverers : RecovererNext(r)
  BY <1>0, <1>2, <1>7 DEF RecovererNext, RecoverRead, RecoverWrite, RecoverCrash
<1>8. CASE AdminNext
  BY <1>0, <1>3, <1>4, <1>8 DEF AdminNext, CancelAsAdmin, RedriveWrite, RedriveEnds, RedriveRead
<1>. QED
  BY <1>5, <1>6, <1>7, <1>8 DEF Next

\* The invariant is inductive.
LEMMA HInvHolds == Spec => []HInv
<1>1. Init => HInv
  BY InitTInv, IdleKnowsNothing DEF Init, HInv, OwnTokens, Knows
<1>2. HInv /\ [Next]_vars => HInv'
  <2>. SUFFICES ASSUME HInv, [Next]_vars PROVE HInv'
    OBVIOUS
  <2>0. TInv /\ TInv'
    BY NextTInv DEF HInv
  <2>1. CASE UNCHANGED vars
    BY <2>0, <2>1, QuietStep DEF vars, Quiet, Remembers, KeepsLease
  <2>2. ASSUME NEW w \in Workers, WorkerNext(w) PROVE HInv'
    BY <2>0, <2>2, AcquireHolder, CheckpointHolder, WorkerQuiet, QuietStep
  <2>3. CASE Next /\ \A w \in Workers : ~WorkerNext(w)
    BY <2>0, <2>3, OthersQuiet, QuietStep
  <2>. QED
    BY <2>1, <2>2, <2>3
<1>. QED
  BY <1>1, <1>2, PTL DEF Spec

\* At most one worker knows the token of a running job, and knows the checkpoint it builds
\* on, across expiry, take-over, recovery and redrive.
THEOREM HoldersKnow == Spec => []HolderKnowsCheckpoint
BY HInvIsHolder, HInvHolds, PTL
============================================================================
