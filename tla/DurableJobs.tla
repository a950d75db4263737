---------------------------- MODULE DurableJobs ----------------------------
(***************************************************************************)
(* The D1-backed job queue of site/worker/durable-jobs.mjs: jobs that are  *)
(* leased to workers, retried with back-off, dead-lettered when their      *)
(* attempts are spent and redriven by an administrator.                    *)
(*                                                                         *)
(* One D1 statement (or one db.batch) is one atomic step.  Where the code  *)
(* awaits a SELECT and acts on what it read, the SELECT and the UPDATE are *)
(* two actions and the values read in between are kept in the caller's     *)
(* record.                                                                 *)
(*                                                                         *)
(* Time.  Every time stamp is kept RELATIVE TO THE PRESENT: the present is *)
(* 0, a stamp of 2 lies two ticks ahead, and Tick lowers every stamp by    *)
(* one.  A caller reads its own clock before its statement reaches the     *)
(* database, so the `now` a statement is bound to is any reading of the    *)
(* last Lag ticks; stamps below -Lag compare alike for every caller and    *)
(* are kept at Floor.                                                      *)
(***************************************************************************)
EXTENDS Integers, FiniteSets

CONSTANTS
  Jobs,          \* the (queue, job_type, unique_key) triples of one queue
  Workers,       \* callers of acquireDueJob and of the lease operations
  Recoverers,    \* callers of recoverExpiredLeases
  Admins,        \* authorised callers of adminRedrive and cancelJob
  Owners,        \* values of lease_owner
  OwnerOf,       \* the leaseOwner each worker passes; it need not be unique
  Tokens,        \* values of lease_token
  Letters,       \* ids of rows of durable_job_dead_letters
  Null,          \* SQL NULL
  Priority,      \* the priority given at enqueue
  MaxAttempts,   \* the maxAttempts given at enqueue
  LeaseMs, RetryBaseMs, RetryMaxMs,
  Lag,           \* bound: ticks from reading the clock to the statement
  MaxDelay,      \* bound: how far ahead enqueue may set availableAt
  MaxVersion,    \* bound: checkpoints written per job
  MaxRedrives    \* bound: redrives in a behaviour

ASSUME ConstantsAssumption ==
  /\ OwnerOf \in [Workers -> Owners]
  /\ Priority \in [Jobs -> Int]
  /\ MaxAttempts \in [Jobs -> Nat \ {0}]
  /\ LeaseMs \in Nat /\ RetryBaseMs \in Nat /\ RetryMaxMs \in Nat
  /\ Lag \in Nat /\ MaxDelay \in Nat /\ MaxVersion \in Nat /\ MaxRedrives \in Nat
  /\ RetryBaseMs <= RetryMaxMs
  /\ Lag < LeaseMs        \* a statement reaches D1 well within a lease

ASSUME NullAssumption == Null \notin Jobs \cup Owners \cup Tokens \cup Letters

VARIABLES
  job,        \* durable_jobs
  letter,     \* durable_job_dead_letters
  worker,     \* what each worker remembers of the job it was given
  recovery,   \* what each recoverExpiredLeases call has read
  redrive     \* what each adminRedrive call has read

vars == <<job, letter, worker, recovery, redrive>>

----------------------------------------------------------------------------
(* Time *)

Floor    == -Lag
Readings == Floor..0
Horizon  == LeaseMs + RetryMaxMs + MaxDelay
Stamps   == Floor..Horizon
Later(s, t) == IF s > t THEN s ELSE t
Aged(t)  == IF t > Floor THEN t - 1 ELSE Floor

\* base * 2^(attempt - 1), capped
RetryDelay(attempt) ==
  LET delay == RetryBaseMs * 2^(attempt - 1)
  IN  IF delay \in 0..RetryMaxMs THEN delay ELSE RetryMaxMs

----------------------------------------------------------------------------
(* State *)

Statuses == {"absent", "queued", "running", "retry_wait",
             "succeeded", "dead_lettered", "cancelled"}
Waiting  == {"queued", "retry_wait"}

\* lease_expires_at is NULL exactly when the other lease columns are; Floor
\* stands for that NULL and is never read unless the job is running.
JobRow == [status : Statuses, availableAt : Stamps, attemptCount : Nat,
           leaseOwner : Owners \cup {Null}, leaseToken : Tokens \cup {Null},
           leaseExpiresAt : Stamps, checkpointVersion : 0..MaxVersion,
           deadLetterId : Letters \cup {Null}]
LetterRow == [job : Jobs \cup {Null}, redriven : BOOLEAN]

NoJob == [status |-> "absent", availableAt |-> Floor, attemptCount |-> 0,
          leaseOwner |-> Null, leaseToken |-> Null, leaseExpiresAt |-> Floor,
          checkpointVersion |-> 0, deadLetterId |-> Null]
NoLetter == [job |-> Null, redriven |-> FALSE]

\* working   : holds the result of its last successful call
\* failing   : a call threw; the caller's catch block is left, which calls failJob
\* fail_sent : failJob has read the lease state and not yet written
Modes == {"idle", "working", "failing", "fail_sent"}
WorkerState == [mode : Modes, job : Jobs \cup {Null}, token : Tokens \cup {Null},
                version : 0..MaxVersion, now : Readings, attempt : Nat]
Idle == [mode |-> "idle", job |-> Null, token |-> Null, version |-> 0,
         now |-> 0, attempt |-> 0]

\* a row as the candidate SELECT of recoverExpiredLeases returns it
Snapshot == [token : Tokens, expires : Stamps, attempt : Nat]
Unseen   == [token |-> Null, expires |-> Floor, attempt |-> 0]
AgedSnapshot(s) == [token |-> s.token, expires |-> Aged(s.expires), attempt |-> s.attempt]
RecoveryState == [now : Readings, seen : [Jobs -> Snapshot \cup {Unseen}]]
NoRecovery    == [now |-> 0, seen |-> [j \in Jobs |-> Unseen]]

NoRedrive    == [job |-> Null, letter |-> Null]
RedriveState == [job : Jobs, letter : Letters] \cup {NoRedrive}

Init ==
  /\ job = [j \in Jobs |-> NoJob]
  /\ letter = [l \in Letters |-> NoLetter]
  /\ worker = [w \in Workers |-> Idle]
  /\ recovery = [r \in Recoverers |-> NoRecovery]
  /\ redrive = [a \in Admins |-> NoRedrive]

----------------------------------------------------------------------------
(* The predicates of the SQL statements *)

\* Fault: the owner alone identifies the lease.
OwnerIsCurrent(w, now) ==
  LET row == job[worker[w].job]
  IN  row.status = "running" /\ row.leaseOwner = OwnerOf[w] /\ row.leaseExpiresAt > now

LeaseIsCurrent(w, now) ==
  LET row == job[worker[w].job]
  IN  /\ row.status = "running"
      /\ row.leaseOwner = OwnerOf[w]
      /\ row.leaseToken = worker[w].token
      /\ row.leaseExpiresAt > now

Expired(j, now) == job[j].status = "running" /\ job[j].leaseExpiresAt <= now

\* Whether a job that failed in this attempt has no attempt left
\* Fault: the attempt that is running is not counted as left.
SpentEarly(j, attempt) == attempt + 1 >= MaxAttempts[j]
Spent(j, attempt) == attempt >= MaxAttempts[j]

\* Fault: off by one in the attempt budget.
DueOnceMore(now) ==
  {j \in Jobs :
     /\ job[j].attemptCount <= MaxAttempts[j]
     /\ \/ job[j].status \in Waiting /\ job[j].availableAt <= now
        \/ Expired(j, now)}

Due(now) ==
  {j \in Jobs :
     /\ job[j].attemptCount < MaxAttempts[j]
     /\ \/ job[j].status \in Waiting /\ job[j].availableAt <= now
        \/ Expired(j, now)}

DueAt(j) == IF job[j].status = "running" THEN job[j].leaseExpiresAt
                                         ELSE job[j].availableAt

\* ORDER BY priority DESC, due time ASC; ties are broken by columns left out
Precedes(j, k) ==
  \/ Priority[j] > Priority[k]
  \/ Priority[j] = Priority[k] /\ DueAt(j) <= DueAt(k)

\* Ids that no row and no caller knows.  A generated id is never one in use, and
\* which unused one it is makes no difference.
FreshTokens ==
  {t \in Tokens : /\ \A j \in Jobs : job[j].leaseToken # t
                  /\ \A w \in Workers : worker[w].token # t
                  /\ \A r \in Recoverers, j \in Jobs : recovery[r].seen[j].token # t}
NewToken == CHOOSE t \in FreshTokens : TRUE
\* Fault: the id of a redriven letter is used again.
ReusedLetters == {l \in Letters : letter[l].job = Null \/ letter[l].redriven}
FreshLetters == {l \in Letters : letter[l].job = Null}
OpenLetters(j) == {l \in Letters : letter[l].job = j /\ ~letter[l].redriven}

\* Fault: the lease columns are not cleared.
KeptLease(row, status) == [row EXCEPT !.status = status]
Released(row, status) ==
  [row EXCEPT !.status = status, !.leaseOwner = Null, !.leaseToken = Null,
              !.leaseExpiresAt = Floor]
Retried(row, now) ==
  [Released(row, "retry_wait") EXCEPT !.availableAt = now + RetryDelay(row.attemptCount),
                                      !.deadLetterId = Null]
Buried(row, l) == [Released(row, "dead_lettered") EXCEPT !.deadLetterId = l]
Completed(row) == [Released(row, "succeeded") EXCEPT !.deadLetterId = Null]
Redriven(row, now) ==
  [Released(row, "queued") EXCEPT !.availableAt = now, !.attemptCount = 0,
                                  !.deadLetterId = Null]
Enqueued(at) == [NoJob EXCEPT !.status = "queued", !.availableAt = at]
Leased(row, owner, token, now) ==
  [row EXCEPT !.status = "running", !.attemptCount = row.attemptCount + 1,
              !.leaseOwner = owner, !.leaseToken = token,
              !.leaseExpiresAt = now + LeaseMs, !.deadLetterId = Null]

----------------------------------------------------------------------------
(* Enqueueing and leasing *)

\* A second enqueue of the same unique key changes nothing and is a stutter.
Enqueue(j) ==
  /\ job[j].status = "absent"
  /\ \E at \in 0..MaxDelay :
       job' = [job EXCEPT ![j] = Enqueued(at)]
  /\ UNCHANGED <<letter, worker, recovery, redrive>>

Acquire(w) ==
  /\ worker[w].mode = "idle"
  /\ FreshTokens # {}
  /\ \E now \in Readings : \E j \in Due(now) :
       /\ \A k \in Due(now) : Precedes(j, k)
       /\ job' = [job EXCEPT ![j] = Leased(job[j], OwnerOf[w], NewToken, now)]
       /\ worker' = [worker EXCEPT ![w] =
            [Idle EXCEPT !.mode = "working", !.job = j, !.token = NewToken,
                         !.version = job[j].checkpointVersion]]
  /\ UNCHANGED <<letter, recovery, redrive>>

\* The statement committed; the answer reaches the worker, or is lost and the
\* worker's await throws.
Answered(w, view) ==
  \/ worker' = [worker EXCEPT ![w] = view]
  \/ worker' = [worker EXCEPT ![w].mode = "failing"]

RenewLease(w) ==
  /\ worker[w].mode = "working"
  /\ \E now \in Readings :
       /\ LeaseIsCurrent(w, now)
       /\ job' = [job EXCEPT ![worker[w].job].leaseExpiresAt = Later(@, now + LeaseMs)]
  /\ Answered(w, worker[w])
  /\ UNCHANGED <<letter, recovery, redrive>>

CompareAndSetCheckpoint(w) ==
  LET j == worker[w].job
  IN  /\ worker[w].mode = "working"
      /\ worker[w].version < MaxVersion
      /\ \E now \in Readings : LeaseIsCurrent(w, now)
      /\ job[j].checkpointVersion = worker[w].version
      /\ job' = [job EXCEPT ![j].checkpointVersion = @ + 1]
      /\ Answered(w, [worker[w] EXCEPT !.version = worker[w].version + 1])
      /\ UNCHANGED <<letter, recovery, redrive>>

Complete(w) ==
  LET j == worker[w].job
  IN  /\ worker[w].mode = "working"
      /\ \E now \in Readings : LeaseIsCurrent(w, now)
      /\ job' = [job EXCEPT ![j] = Completed(job[j])]
      /\ Answered(w, Idle)
      /\ UNCHANGED <<letter, recovery, redrive>>

\* A call of the worker throws before it changes anything.
WorkThrows(w) ==
  /\ worker[w].mode = "working"
  /\ worker' = [worker EXCEPT ![w].mode = "failing"]
  /\ UNCHANGED <<job, letter, recovery, redrive>>

\* The worker ends: its call was rejected, or its invocation was killed.
Abandon(w) ==
  /\ worker[w].mode # "idle"
  /\ worker' = [worker EXCEPT ![w] = Idle]
  /\ UNCHANGED <<job, letter, recovery, redrive>>

----------------------------------------------------------------------------
(* failJob: readLeaseState, then one guarded write *)

FailRead(w) ==
  /\ worker[w].mode \in {"working", "failing"}
  /\ \E now \in Readings :
       /\ LeaseIsCurrent(w, now)
       /\ worker' = [worker EXCEPT ![w].mode = "fail_sent", ![w].now = now,
                                   ![w].attempt = job[worker[w].job].attemptCount]
  /\ UNCHANGED <<job, letter, recovery, redrive>>

FailGuard(w) ==
  /\ worker[w].mode = "fail_sent"
  /\ LeaseIsCurrent(w, worker[w].now)
  /\ job[worker[w].job].attemptCount = worker[w].attempt

FailRetry(w) ==
  LET j == worker[w].job
  IN  /\ FailGuard(w)
      /\ ~Spent(j, worker[w].attempt)
      /\ job' = [job EXCEPT ![j] = Retried(job[j], worker[w].now)]
      /\ worker' = [worker EXCEPT ![w] = Idle]
      /\ UNCHANGED <<letter, recovery, redrive>>

FailTerminal(w) ==
  LET j == worker[w].job
  IN  /\ FailGuard(w)
      /\ Spent(j, worker[w].attempt)
      /\ \E l \in FreshLetters :
           /\ job' = [job EXCEPT ![j] = Buried(job[j], l)]
           /\ letter' = [letter EXCEPT ![l] = [job |-> j, redriven |-> FALSE]]
      /\ worker' = [worker EXCEPT ![w] = Idle]
      /\ UNCHANGED <<recovery, redrive>>

----------------------------------------------------------------------------
(* recoverExpiredLeases: the candidate SELECT, then one batch *)

RecoverRead(r) ==
  /\ recovery[r] = NoRecovery
  /\ \E now \in Readings :
       /\ \E j \in Jobs : Expired(j, now)
       /\ recovery' = [recovery EXCEPT ![r] =
            [now |-> now,
             seen |-> [j \in Jobs |->
               IF Expired(j, now)
               THEN [token |-> job[j].leaseToken, expires |-> job[j].leaseExpiresAt,
                     attempt |-> job[j].attemptCount]
               ELSE Unseen]]]
  /\ UNCHANGED <<job, letter, worker, redrive>>

\* Fault: the batch trusts what the SELECT returned.
TrustsRead(r, j) == recovery[r].seen[j] # Unseen

\* Fault: the batch compares the token and not the expiry.
IgnoresRenewal(r, j) ==
  LET seen == recovery[r].seen[j]
  IN  /\ seen # Unseen
      /\ job[j].status = "running"
      /\ job[j].leaseToken = seen.token
      /\ job[j].attemptCount = seen.attempt

\* Fault: a spent job is left to acquireDueJob, which skips it.
SkipsSpent(r, j) ==
  LET seen == recovery[r].seen[j]
  IN  /\ seen # Unseen
      /\ ~Spent(j, seen.attempt)
      /\ job[j].status = "running"
      /\ job[j].leaseToken = seen.token
      /\ job[j].leaseExpiresAt = seen.expires

\* The row is still as it was read
RecoverGuard(r, j) ==
  LET seen == recovery[r].seen[j]
  IN  /\ seen # Unseen
      /\ job[j].status = "running"
      /\ job[j].leaseToken = seen.token
      /\ job[j].leaseExpiresAt = seen.expires
      /\ job[j].leaseExpiresAt <= recovery[r].now
      /\ job[j].attemptCount = seen.attempt

\* Fault: one dead-letter id for the whole batch.
OneIdPerBatch(id, spent) == \A j, k \in spent : id[j] = id[k]
\* One generated id for each job that is dead-lettered
DistinctIds(id, spent) == \A j, k \in spent : id[j] = id[k] => j = k

RecoverWrite(r) ==
  LET hit   == {j \in Jobs : RecoverGuard(r, j)}
      spent == {j \in hit : Spent(j, recovery[r].seen[j].attempt)}
  IN  /\ recovery[r] # NoRecovery
      /\ \E id \in [spent -> FreshLetters] :
           /\ DistinctIds(id, spent)
           /\ job' = [j \in Jobs |->
                CASE j \in spent       -> Buried(job[j], id[j])
                  [] j \in hit \ spent -> Retried(job[j], recovery[r].now)
                  [] OTHER             -> job[j]]
           /\ letter' = [l \in Letters |->
                IF \E j \in spent : id[j] = l
                THEN [job |-> CHOOSE j \in spent : id[j] = l, redriven |-> FALSE]
                ELSE letter[l]]
      /\ recovery' = [recovery EXCEPT ![r] = NoRecovery]
      /\ UNCHANGED <<worker, redrive>>

RecoverCrash(r) ==
  /\ recovery[r] # NoRecovery
  /\ recovery' = [recovery EXCEPT ![r] = NoRecovery]
  /\ UNCHANGED <<job, letter, worker, redrive>>

----------------------------------------------------------------------------
(* Administration *)

RedriveRead(a, j) ==
  /\ redrive[a] = NoRedrive
  /\ job[j].status = "dead_lettered"
  /\ job[j].deadLetterId # Null
  /\ redrive' = [redrive EXCEPT ![a] = [job |-> j, letter |-> job[j].deadLetterId]]
  /\ UNCHANGED <<job, letter, worker, recovery>>

\* redrive_prepare, mark_dead_letter_redriven and redrive_finalize, one batch
RedriveWrite(a) ==
  LET j == redrive[a].job
      l == redrive[a].letter
  IN  /\ redrive[a] # NoRedrive
      /\ Cardinality({k \in Letters : letter[k].redriven}) < MaxRedrives
      /\ job[j].status = "dead_lettered"
      /\ job[j].deadLetterId = l
      /\ letter[l] = [job |-> j, redriven |-> FALSE]
      /\ \E now \in Readings :
           job' = [job EXCEPT ![j] = Redriven(job[j], now)]
      /\ letter' = [letter EXCEPT ![l].redriven = TRUE]
      /\ redrive' = [redrive EXCEPT ![a] = NoRedrive]
      /\ UNCHANGED <<worker, recovery>>

\* The batch matched no row (InvalidJobStateError), or the caller died.
RedriveEnds(a) ==
  /\ redrive[a] # NoRedrive
  /\ redrive' = [redrive EXCEPT ![a] = NoRedrive]
  /\ UNCHANGED <<job, letter, worker, recovery>>

CancelAsAdmin(j) ==
  /\ job[j].status \in Waiting
  /\ job' = [job EXCEPT ![j] = Released(job[j], "cancelled")]
  /\ UNCHANGED <<letter, worker, recovery, redrive>>

\* cancelJob with leaseOwner and leaseToken: the lease is compared only when
\* the job is running.
CancelWithLease(w) ==
  LET j == worker[w].job
  IN  /\ worker[w].mode = "working"
      /\ \/ job[j].status \in Waiting
         \/ \E now \in Readings : LeaseIsCurrent(w, now)
      /\ job' = [job EXCEPT ![j] = Released(job[j], "cancelled")]
      /\ Answered(w, Idle)
      /\ UNCHANGED <<letter, recovery, redrive>>

----------------------------------------------------------------------------
(* One tick of the clock; no call outlives Lag ticks *)

Tick ==
  /\ \A w \in Workers : worker[w].mode = "fail_sent" => worker[w].now > Floor
  /\ \A r \in Recoverers : recovery[r] # NoRecovery => recovery[r].now > Floor
  /\ job' = [j \in Jobs |-> [job[j] EXCEPT !.availableAt = Aged(@),
                                           !.leaseExpiresAt = Aged(@)]]
  /\ worker' = [w \in Workers |->
       IF worker[w].mode = "fail_sent" THEN [worker[w] EXCEPT !.now = worker[w].now - 1] ELSE worker[w]]
  /\ recovery' = [r \in Recoverers |->
       IF recovery[r] = NoRecovery THEN NoRecovery
       ELSE [now  |-> recovery[r].now - 1,
             seen |-> [j \in Jobs |-> AgedSnapshot(recovery[r].seen[j])]]]
  /\ UNCHANGED <<letter, redrive>>

----------------------------------------------------------------------------
WorkerNext(w) ==
  \/ Acquire(w) \/ RenewLease(w) \/ CompareAndSetCheckpoint(w) \/ Complete(w)
  \/ WorkThrows(w) \/ Abandon(w) \/ CancelWithLease(w)
  \/ FailRead(w) \/ FailRetry(w) \/ FailTerminal(w)
RecovererNext(r) == RecoverRead(r) \/ RecoverWrite(r) \/ RecoverCrash(r)
AdminNext ==
  \/ \E j \in Jobs : CancelAsAdmin(j)
  \/ \E a \in Admins : RedriveWrite(a) \/ RedriveEnds(a) \/ \E j \in Jobs : RedriveRead(a, j)

Next ==
  \/ \E j \in Jobs : Enqueue(j)
  \/ \E w \in Workers : WorkerNext(w)
  \/ \E r \in Recoverers : RecovererNext(r)
  \/ AdminNext
  \/ Tick

Spec == Init /\ [][Next]_vars

\* The ways a worker's run ends
EndRun(w) == Complete(w) \/ FailRead(w) \/ FailRetry(w) \/ FailTerminal(w) \/ Abandon(w)

\* Time passes; the schedule keeps starting runs that acquire and recover; a
\* run ends, if only because the platform kills it; and not every recovery dies
\* between its read and its batch.  Nothing obliges an administrator to act, a
\* worker to renew or a job to be enqueued.
Fairness ==
  /\ WF_vars(Tick)
  /\ \A w \in Workers : WF_vars(Acquire(w)) /\ WF_vars(EndRun(w))
  /\ \A r \in Recoverers : WF_vars(RecoverRead(r)) /\ SF_vars(RecoverWrite(r))

FairSpec == Spec /\ Fairness
----------------------------------------------------------------------------
(* Properties *)

\* Every row and every caller's record has its type, and the lease columns are
\* set exactly while the job is running (the CHECK of the schema, lines 49-53).
TypeOK ==
  /\ job \in [Jobs -> JobRow]
  /\ letter \in [Letters -> LetterRow]
  /\ worker \in [Workers -> WorkerState]
  /\ recovery \in [Recoverers -> RecoveryState]
  /\ redrive \in [Admins -> RedriveState]
  /\ \A j \in Jobs : /\ job[j].status = "running" <=> job[j].leaseToken # Null
                     /\ job[j].status = "running" <=> job[j].leaseOwner # Null

\* A job is dead-lettered exactly while one audit row of it is open, and its
\* dead_letter_id names that row: neither a failure racing a recovery nor two
\* administrators redriving one job leaves a job without its letter, a letter
\* without its job, or a second open letter.
DeadLetterLink ==
  \A j \in Jobs :
    OpenLetters(j) = IF job[j].status = "dead_lettered" THEN {job[j].deadLetterId} ELSE {}

\* No job is stranded: a waiting job still has an attempt left, so that
\* acquireDueJob (which skips spent jobs) can take it, and a job is given up
\* only when its attempts are spent.
NoStrandedJob ==
  \A j \in Jobs :
    /\ job[j].status \in Waiting => job[j].attemptCount < MaxAttempts[j]
    /\ job[j].status = "running" => job[j].attemptCount \in 1..MaxAttempts[j]
    /\ job[j].status = "dead_lettered" => job[j].attemptCount = MaxAttempts[j]

\* At most one worker knows the token a running job is leased under, and as
\* long as none of its calls has thrown it knows the checkpoint it builds on:
\* no one else has written the checkpoint since it was handed out, across
\* expiry, take-over, recovery and redrive.
HolderKnowsCheckpoint ==
  \A w \in Workers :
    LET row == job[worker[w].job]
    IN  worker[w].mode # "idle" /\ row.leaseToken = worker[w].token =>
          /\ \A v \in Workers : worker[v].token = worker[w].token => v = w
          /\ worker[w].mode = "working" => row.checkpointVersion = worker[w].version
          /\ worker[w].version <= row.checkpointVersion

\* A lease that has not expired is ended only by the worker it was given to:
\* when that worker has died nobody touches the job before lease_expires_at,
\* and while it lives the job leaves its token only in a step of that worker.
LeaseHonoured ==
  [][\A j \in Jobs :
       job[j].status = "running" /\ job[j].leaseExpiresAt > 0
         /\ job'[j].leaseToken # job[j].leaseToken
       => \E w \in Workers : /\ worker[w].token = job[j].leaseToken
                             /\ worker'[w] # worker[w]]_vars

\* The dead-letter table is an audit log: a row never changes its job and is
\* marked redriven once, in the very step that puts its own job back to queued.
DeadLetterAudit ==
  [][\A l \in Letters :
       /\ letter[l].job # Null => letter'[l].job = letter[l].job
       /\ letter[l].redriven => letter'[l].redriven
       /\ ~letter[l].redriven /\ letter'[l].redriven =>
            /\ job[letter[l].job].deadLetterId = l
            /\ job'[letter[l].job].status = "queued"]_vars

\* The queue implements the life cycle it promises.
PhaseOf(row) == CASE row.status \in Waiting        -> "waiting"
                  [] row.status = "dead_lettered"  -> "dead"
                  [] OTHER                         -> row.status
Promise == INSTANCE JobLifecycle WITH
             phase <- [j \in Jobs |-> PhaseOf(job[j])],
             tries <- [j \in Jobs |-> job[j].attemptCount]
ImplementsLifecycle == Promise!Spec

\* Every job that was enqueued settles: workers that die, calls that throw and
\* recoveries that die on the way delay it, never lose it.
Settled(j) == job[j].status \in {"succeeded", "dead_lettered", "cancelled"}
EveryJobSettles == \A j \in Jobs : job[j].status # "absent" ~> Settled(j)

\* tests/durable-jobs.test.mjs:633, "rejects stale owners": a caller that
\* presents a lease changes a job only while the lease is the job's own.
StaleOwnersRejected ==
  [][\A w \in Workers :
       CancelWithLease(w) => job[worker[w].job].leaseToken = worker[w].token]_vars
============================================================================
