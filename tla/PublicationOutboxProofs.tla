---------------------- MODULE PublicationOutboxProofs ----------------------
(***************************************************************************)
(* Theorems about PublicationOutbox and about AnalysisPublication, which   *)
(* composes it with the analysis runs, for all values of the constants.    *)
(*                                                                         *)
(* Every step of the outbox does one of six things to each row.  RowStep   *)
(* names them; one lemma per action shows that the action is made of them, *)
(* and the theorems are then proved from RowStep alone.  The composition   *)
(* is then shown to take only steps of the outbox, which gives it every    *)
(* invariant proved here; what remains is about the runs.                  *)
(***************************************************************************)
EXTENDS AnalysisPublication, TLAPS

----------------------------------------------------------------------------
(* Lemmas about the operators *)

\* A retry never waits longer than the cap.
LEMMA BackoffRange ==
  ASSUME NEW attempt \in Nat
  PROVE  Backoff(attempt) \in 0..MaxBackoffMs
BY OutboxAssumption DEF Backoff

\* Ageing keeps a stamp a stamp.
LEMMA AgedStamp ==
  ASSUME NEW t \in Stamps
  PROVE  Aged(t) \in Stamps
BY OutboxAssumption DEF Stamps, Aged, Floor

\* The stamps a statement writes are stamps.
LEMMA WrittenStamps ==
  /\ Floor \in Stamps
  /\ \A now \in Readings : /\ now \in Stamps
                           /\ now + LeaseMs \in Stamps
                           /\ \A d \in 0..MaxBackoffMs : now + d \in Stamps
BY OutboxAssumption DEF Stamps, Readings, Floor

ClaimColumns(row) == /\ row.status = "claimed" <=> row.token # Null
                     /\ row.status = "claimed" <=> row.claimedBy # Null

\* A well-formed row in this status, after this many attempts
IsRow(row, status, attempts) ==
  row \in EventRow /\ ClaimColumns(row) /\ row.status = status /\ row.attempts = attempts

\* A row whose claim columns are cleared
LEMMA ReleasedRow ==
  ASSUME NEW row \in EventRow, NEW s \in Statuses \ {"claimed"}
  PROVE  /\ IsRow(Released(row, s), s, row.attempts)
         /\ Released(row, s).token = Null /\ Released(row, s).claimedBy = Null
BY WrittenStamps DEF Released, EventRow, IsRow, ClaimColumns

\* The row of an event that waits for its next attempt
LEMMA PostponedRow ==
  ASSUME NEW row \in EventRow, NEW at \in Stamps
  PROVE  IsRow(Postponed(row, at), "pending", row.attempts)
<1>1. "pending" \in Statuses \ {"claimed"}
  BY DEF Statuses
<1>. QED
  BY <1>1, ReleasedRow DEF Postponed, EventRow, IsRow, ClaimColumns

\* The row of an event that is given up
LEMMA GivenUpRow ==
  ASSUME NEW row \in EventRow, NEW at \in Stamps
  PROVE  IsRow(GivenUp(row, at), "terminal", row.attempts)
<1>1. "terminal" \in Statuses \ {"claimed"}
  BY DEF Statuses
<1>. QED
  BY <1>1, ReleasedRow DEF GivenUp, EventRow, IsRow, ClaimColumns

\* The row of an event that is delivered
LEMMA DeliveredRow ==
  ASSUME NEW row \in EventRow
  PROVE  IsRow(Released(row, "delivered"), "delivered", row.attempts)
<1>1. "delivered" \in Statuses \ {"claimed"}
  BY DEF Statuses
<1>. QED
  BY <1>1, ReleasedRow

\* The row of an event that is claimed
LEMMA ClaimedRow ==
  ASSUME NEW row \in EventRow, NEW w \in Workers, NEW token \in Tokens, NEW now \in Readings
  PROVE  LET new == Claimed(row, WorkerIdOf[w], token, now)
         IN  IsRow(new, "claimed", row.attempts + 1) /\ new.token = token
<1> DEFINE new == Claimed(row, WorkerIdOf[w], token, now)
<1>1. WorkerIdOf[w] \in Ids /\ WorkerIdOf[w] # Null /\ token # Null
  BY OutboxAssumption
<1>2. now + LeaseMs \in Stamps /\ "claimed" \in Statuses /\ row.attempts + 1 \in Nat
  BY WrittenStamps DEF Statuses, EventRow
<1>3. /\ new.status = "claimed" /\ new.token = token /\ new.claimedBy = WorkerIdOf[w]
      /\ new.attempts = row.attempts + 1
  BY DEF Claimed, EventRow
<1>4. new \in EventRow
  BY <1>1, <1>2 DEF Claimed, EventRow
<1>. QED
  BY <1>1, <1>3, <1>4 DEF IsRow, ClaimColumns

\* The row an enqueue inserts
LEMMA EnqueuedRow ==
  ASSUME NEW at \in Readings
  PROVE  IsRow(Enqueued(at), "pending", 0)
<1>1. at \in Stamps /\ "pending" \in Statuses
  BY WrittenStamps DEF Statuses
<1>. QED
  BY <1>1, WrittenStamps DEF Enqueued, NoEvent, EventRow, IsRow, ClaimColumns

\* A generated token is one nobody knows.
LEMMA NewTokenFresh ==
  ASSUME FreshTokens # {}
  PROVE  NewToken \in FreshTokens
BY DEF NewToken

----------------------------------------------------------------------------
(* The inductive invariant *)

\* A busy worker knows its token and an idle one knows none; the event whose
\* failure it is recording is one of its batch.
WorkerHolds ==
  \A w \in Workers :
    /\ worker[w].mode = "idle" => worker[w].token = Null
    /\ worker[w].mode # "idle" => worker[w].token \in Tokens
    /\ worker[w].mode = "failing" => worker[w].failed \in worker[w].batch

\* Nothing was done for an event that was never enqueued.
AbsentUntouched ==
  \A p \in Publications : event[p].status = "absent" => event[p].attempts = 0 /\ Unreceipted(p)

TInv == TypeOK /\ WorkerHolds
IInv == TInv /\ AbsentUntouched /\ WaitingHasBudget /\ DeliveredOnEvidence /\ OneHolder

----------------------------------------------------------------------------
(* What a step does to a row, to a receipt and to a worker *)

Untouched(p) == /\ IsRow(event'[p], event[p].status, event[p].attempts)
                /\ event'[p].token = event[p].token
Queued(p)    == /\ event[p].status = "absent" /\ IsRow(event'[p], "pending", 0)
                /\ \A q \in Publications \ {p} : Clash(p, q) => event'[q].status = "absent"
TakenUp(p)   == /\ event[p].status = "pending" /\ Unreceipted(p)
                /\ IsRow(event'[p], "claimed", event[p].attempts + 1)
PutBack(p)   == /\ event[p].status = "claimed" /\ event[p].attempts < MaxAttempts
                /\ IsRow(event'[p], "pending", event[p].attempts)
Dropped(p)   == /\ event[p].status = "claimed"
                /\ IsRow(event'[p], "terminal", event[p].attempts)
Acked(p)     == /\ event[p].status \in Open
                /\ IsRow(event'[p], "delivered", event[p].attempts)
                /\ receipt'[p].matches \/ (receipt'[p] = NoReceipt /\ p \in HandDelivered)

RowStep(p) == Untouched(p) \/ Queued(p) \/ TakenUp(p) \/ PutBack(p) \/ Dropped(p) \/ Acked(p)

KeepsReceipt(p) == receipt'[p] = receipt[p]
ReceiptStep(p) ==
  \/ KeepsReceipt(p)
  \/ /\ Unreceipted(p) /\ receipt'[p] \in ReceiptRow
     /\ \/ event[p].status \in Open /\ receipt'[p].source = "delivery"
           /\ (Untouched(p) \/ Acked(p))
        \/ event[p].status = "delivered" /\ receipt'[p] = Reconciled /\ Untouched(p)

\* A row that is claimed after a step was claimed under the same token before
NotTaken(p) == event'[p].status = "claimed" =>
                 event[p].status = "claimed" /\ event'[p].token = event[p].token

\* A worker forgets its token, or drops only events that are not claimed
WorkerStep(w) ==
  \/ worker'[w].token = Null
  \/ /\ worker'[w].token = worker[w].token
     /\ worker'[w].batch \subseteq worker[w].batch
     /\ \A p \in worker[w].batch \ worker'[w].batch : event'[p].status # "claimed"

\* A step of any action but ClaimDue
PlainStep ==
  /\ \A p \in Publications : RowStep(p) /\ ReceiptStep(p) /\ NotTaken(p)
  /\ \A w \in Workers : WorkerStep(w)

\* Every row is a row and its claim columns agree with its status.
LEMMA EveryRow ==
  ASSUME TInv
  PROVE  \A p \in Publications : /\ IsRow(event[p], event[p].status, event[p].attempts)
                                 /\ event[p].attempts \in Nat /\ event[p].status \in Statuses
BY DEF TInv, TypeOK, IsRow, ClaimColumns, EventRow

\* A row that keeps its status, attempts and token is untouched.
LEMMA SameRow ==
  ASSUME TInv, NEW p \in Publications, event'[p] = event[p]
  PROVE  Untouched(p) /\ RowStep(p) /\ NotTaken(p)
BY EveryRow DEF Untouched, RowStep, NotTaken

\* A row that leaves its claim, or never had one, is not taken.
LEMMA RowUnclaimed ==
  ASSUME NEW p \in Publications, event'[p].status # "claimed"
  PROVE  NotTaken(p)
BY DEF NotTaken

\* A worker whose record stands takes the step of a worker.
LEMMA SameWorker ==
  ASSUME NEW w \in Workers, worker'[w] = worker[w]
  PROVE  WorkerStep(w)
BY DEF WorkerStep

\* Tables whose rows all step keep their types.
LEMMA TableTypes ==
  ASSUME TInv, event' \in [Publications -> EventRow],
         receipt' \in [Publications -> ReceiptRow \cup {NoReceipt}],
         worker' \in [Workers -> WorkerState], sweep' \in [Sweeps -> SweepState],
         WorkerHolds', \A p \in Publications : RowStep(p)
  PROVE  TInv'
<1>1. \A p \in Publications : ClaimColumns(event'[p])
  BY DEF RowStep, Untouched, Queued, TakenUp, PutBack, Dropped, Acked, IsRow
<1>. QED
  BY <1>1 DEF TInv, TypeOK, ClaimColumns

\* Writing one row
LEMMA WriteRow ==
  ASSUME TInv, NEW p \in Publications, NEW row \in EventRow,
         event' = [event EXCEPT ![p] = row]
  PROVE  /\ event' \in [Publications -> EventRow]
         /\ event'[p] = row
         /\ \A q \in Publications \ {p} : event'[q] = event[q]
BY DEF TInv, TypeOK

\* The record of a worker that holds a batch
LEMMA HoldingWorker ==
  ASSUME NEW token \in Tokens, NEW batch \in SUBSET Publications
  PROVE  /\ Holding(token, batch) \in WorkerState
         /\ Holding(token, batch).mode = "working"
         /\ Holding(token, batch).token = token
         /\ Holding(token, batch).batch = batch
<1>1. 0 \in Readings
  BY OutboxAssumption DEF Readings, Floor
<1>. QED
  BY <1>1 DEF Holding, WorkerState

\* The record of a worker that is done with one event of its batch
LEMMA DoneWorker ==
  ASSUME TInv, NEW w \in Workers, NEW p \in Publications, worker[w].mode # "idle",
         Done(w, p), event'[p].status # "claimed"
  PROVE  /\ worker' \in [Workers -> WorkerState] /\ WorkerHolds'
         /\ \A v \in Workers : WorkerStep(v)
<1>1. /\ worker[w] \in WorkerState /\ worker[w].token \in Tokens
      /\ worker[w].batch \in SUBSET Publications
  BY DEF TInv, TypeOK, WorkerHolds, WorkerState
<1> DEFINE view == Holding(worker[w].token, worker[w].batch \ {p})
<1>2. /\ view \in WorkerState /\ view.mode = "working"
      /\ view.token = worker[w].token /\ view.batch = worker[w].batch \ {p}
  BY <1>1, HoldingWorker
<1>3. worker' = [worker EXCEPT ![w] = view]
  BY DEF Done
<1> HIDE DEF view
<1>4. worker'[w] = view /\ \A v \in Workers \ {w} : worker'[v] = worker[v]
  BY <1>3 DEF TInv, TypeOK
<1>5. worker' \in [Workers -> WorkerState]
  BY <1>2, <1>3 DEF TInv, TypeOK
<1>6. WorkerHolds'
  <2> SUFFICES ASSUME NEW v \in Workers
               PROVE  /\ worker'[v].mode = "idle" => worker'[v].token = Null
                      /\ worker'[v].mode # "idle" => worker'[v].token \in Tokens
                      /\ worker'[v].mode = "failing" => worker'[v].failed \in worker'[v].batch
    BY DEF WorkerHolds
  <2>1. CASE v = w
    BY <2>1, <1>1, <1>2, <1>4
  <2>2. CASE v # w
    BY <2>2, <1>4 DEF TInv, WorkerHolds
  <2>. QED
    BY <2>1, <2>2
<1>7. \A v \in Workers : WorkerStep(v)
  BY <1>2, <1>4 DEF WorkerStep
<1>. QED
  BY <1>5, <1>6, <1>7

----------------------------------------------------------------------------
(* One lemma per action: it keeps the types and is made of the steps above. *)

LEMMA InitIInv == Init => IInv
<1> SUFFICES ASSUME Init PROVE IInv
  OBVIOUS
<1>1. NoEvent \in EventRow /\ ClaimColumns(NoEvent)
  BY WrittenStamps DEF NoEvent, EventRow, Statuses, ClaimColumns
<1>2. Idle \in WorkerState /\ Idle.mode = "idle" /\ Idle.token = Null
  BY OutboxAssumption DEF Idle, WorkerState, Readings, Floor
<1>3. NoSweep \in SweepState
  BY DEF NoSweep, SweepState
<1>4. /\ \A p \in Publications : event[p] = NoEvent /\ receipt[p] = NoReceipt
      /\ \A w \in Workers : worker[w] = Idle
  BY DEF Init
<1>5. TInv
  BY <1>1, <1>2, <1>3, <1>4 DEF Init, TInv, TypeOK, WorkerHolds, ClaimColumns
<1>6. NoEvent.status = "absent" /\ NoEvent.attempts = 0 /\ NoReceipt.source = "none"
  BY DEF NoEvent, NoReceipt
<1>. QED
  BY <1>4, <1>5, <1>6
     DEF IInv, AbsentUntouched, WaitingHasBudget, DeliveredOnEvidence, OneHolder, Unreceipted

\* enqueue
LEMMA EnqueueStep ==
  ASSUME TInv, NEW p \in Publications, Enqueue(p)
  PROVE  TInv' /\ PlainStep
<1>1. PICK at \in Readings : event' = [event EXCEPT ![p] = Enqueued(at)]
  BY DEF Enqueue
<1>2. /\ event' \in [Publications -> EventRow] /\ IsRow(event'[p], "pending", 0)
      /\ \A q \in Publications \ {p} : event'[q] = event[q]
  BY <1>1, EnqueuedRow, WriteRow DEF IsRow
<1>3. Queued(p)
  BY <1>2 DEF Enqueue, Queued
<1>4. \A q \in Publications : RowStep(q) /\ ReceiptStep(q) /\ NotTaken(q)
  BY <1>2, <1>3, SameRow DEF RowStep, NotTaken, IsRow, ReceiptStep, KeepsReceipt, Enqueue
<1>5. \A w \in Workers : WorkerStep(w)
  BY SameWorker DEF Enqueue
<1>6. TInv'
  BY <1>2, <1>4, TableTypes DEF Enqueue, TInv, TypeOK, WorkerHolds
<1>. QED
  BY <1>4, <1>5, <1>6 DEF PlainStep

\* What claimDue does, with its choices named
LEMMA ClaimDueChoice ==
  ASSUME TInv, NEW w \in Workers, ClaimDue(w)
  PROVE  /\ NewToken \in FreshTokens /\ NewToken \in Tokens
         /\ \E now \in Readings : \E batch \in SUBSET Due(now) :
              /\ batch \in SUBSET Publications
              /\ event' = [p \in Publications |->
                   IF p \in batch THEN Claimed(event[p], WorkerIdOf[w], NewToken, now)
                                  ELSE event[p]]
              /\ worker' = [worker EXCEPT ![w] = Holding(NewToken, batch)]
<1>1. NewToken \in FreshTokens /\ NewToken \in Tokens
  BY NewTokenFresh DEF ClaimDue, FreshTokens
<1>2. PICK now \in Readings : \E batch \in SUBSET Due(now) :
        /\ event' = [p \in Publications |->
             IF p \in batch THEN Claimed(event[p], WorkerIdOf[w], NewToken, now)
                            ELSE event[p]]
        /\ worker' = [worker EXCEPT ![w] = Holding(NewToken, batch)]
  BY DEF ClaimDue
<1>3. Due(now) \subseteq Publications
  BY DEF Due
<1>. QED
  BY <1>1, <1>2, <1>3

\* claimDue
LEMMA ClaimDueStep ==
  ASSUME TInv, NEW w \in Workers, ClaimDue(w)
  PROVE  /\ TInv'
         /\ \A p \in Publications : RowStep(p) /\ ReceiptStep(p)
         /\ NewToken \in FreshTokens /\ NewToken \in Tokens
         /\ worker'[w].token = NewToken
         /\ \A v \in Workers \ {w} : worker'[v] = worker[v]
         /\ \A p \in Publications : IF p \in worker'[w].batch
                                    THEN event'[p].token = NewToken
                                    ELSE event'[p] = event[p]
<1>1. NewToken \in FreshTokens /\ NewToken \in Tokens
  BY ClaimDueChoice
<1>2. PICK now \in Readings : \E batch \in SUBSET Due(now) :
              /\ batch \in SUBSET Publications
              /\ event' = [p \in Publications |->
                   IF p \in batch THEN Claimed(event[p], WorkerIdOf[w], NewToken, now)
                                  ELSE event[p]]
              /\ worker' = [worker EXCEPT ![w] = Holding(NewToken, batch)]
  BY ClaimDueChoice
<1>3. PICK batch \in SUBSET Due(now) :
              /\ batch \in SUBSET Publications
              /\ event' = [p \in Publications |->
                   IF p \in batch THEN Claimed(event[p], WorkerIdOf[w], NewToken, now)
                                  ELSE event[p]]
              /\ worker' = [worker EXCEPT ![w] = Holding(NewToken, batch)]
  BY <1>2
<1>4. /\ worker' \in [Workers -> WorkerState]
      /\ worker'[w] = Holding(NewToken, batch)
      /\ \A v \in Workers \ {w} : worker'[v] = worker[v]
  BY <1>1, <1>3, HoldingWorker DEF TInv, TypeOK
<1>5. worker'[w].token = NewToken /\ worker'[w].batch = batch /\ worker'[w].mode = "working"
  BY <1>1, <1>3, <1>4, HoldingWorker
<1>6. \A p \in batch : /\ IsRow(event'[p], "claimed", event[p].attempts + 1)
                       /\ event'[p].token = NewToken
                       /\ event[p].status = "pending" /\ Unreceipted(p)
  BY <1>1, <1>3, ClaimedRow DEF Due, TInv, TypeOK
<1>7. \A p \in Publications \ batch : event'[p] = event[p]
  BY <1>3
<1>8. \A p \in Publications : RowStep(p) /\ ReceiptStep(p)
  BY <1>6, <1>7, SameRow DEF RowStep, TakenUp, ReceiptStep, KeepsReceipt, ClaimDue
<1>9. event' \in [Publications -> EventRow]
  BY <1>3, <1>6, <1>7 DEF IsRow, TInv, TypeOK
<1>10. WorkerHolds'
  BY <1>1, <1>4, <1>5 DEF TInv, WorkerHolds
<1>11. TInv'
  BY <1>4, <1>8, <1>9, <1>10, TableTypes DEF ClaimDue, TInv, TypeOK
<1>. QED
  BY <1>1, <1>4, <1>5, <1>6, <1>7, <1>8, <1>11

\* recordDelivery
LEMMA RecordDeliveryStep ==
  ASSUME TInv, NEW w \in Workers, NEW p \in Publications, RecordDelivery(w, p)
  PROVE  TInv' /\ PlainStep
<1> DEFINE r == IF Unreceipted(p)
                THEN [source |-> "delivery", token |-> event[p].token, matches |-> TRUE]
                ELSE receipt[p]
<1>1. /\ Acknowledges(r) /\ receipt' = [receipt EXCEPT ![p] = r]
      /\ event' = [event EXCEPT ![p] = Released(event[p], "delivered")]
      /\ Done(w, p) \/ UNCHANGED worker
      /\ worker[w].mode = "working" /\ event[p].status = "claimed"
  BY DEF RecordDelivery, ClaimIsCurrent
<1>2. event[p] \in EventRow
  BY DEF TInv, TypeOK
<1>3. r \in ReceiptRow /\ (Unreceipted(p) => r.source = "delivery") /\ r.matches
  BY <1>1, <1>2 DEF ReceiptRow, EventRow, TInv, TypeOK, Unreceipted, Acknowledges
<1>4. /\ event' \in [Publications -> EventRow]
      /\ IsRow(event'[p], "delivered", event[p].attempts)
      /\ \A q \in Publications \ {p} : event'[q] = event[q]
  BY <1>1, <1>2, DeliveredRow, WriteRow DEF IsRow
<1>5. /\ receipt' \in [Publications -> ReceiptRow \cup {NoReceipt}]
      /\ receipt'[p] = r
      /\ \A q \in Publications \ {p} : receipt'[q] = receipt[q]
  BY <1>1, <1>3 DEF TInv, TypeOK
<1>6. Acked(p)
  BY <1>1, <1>3, <1>4, <1>5 DEF Acked, Open
<1>7. ReceiptStep(p)
  <2>1. CASE Unreceipted(p)
    BY <2>1, <1>1, <1>3, <1>5, <1>6 DEF ReceiptStep, Open
  <2>2. CASE ~Unreceipted(p)
    BY <2>2, <1>5 DEF ReceiptStep, KeepsReceipt
  <2>. QED
    BY <2>1, <2>2
<1>8. \A q \in Publications : RowStep(q) /\ ReceiptStep(q) /\ NotTaken(q)
  BY <1>4, <1>5, <1>6, <1>7, SameRow DEF RowStep, ReceiptStep, KeepsReceipt, NotTaken, IsRow
<1>9. /\ worker' \in [Workers -> WorkerState] /\ WorkerHolds'
      /\ \A v \in Workers : WorkerStep(v)
  <2>1. CASE Done(w, p)
    BY <2>1, <1>1, <1>4, DoneWorker DEF IsRow
  <2>2. CASE UNCHANGED worker
    BY <2>2, SameWorker DEF TInv, TypeOK, WorkerHolds
  <2>. QED
    BY <1>1, <2>1, <2>2
<1>10. sweep' = sweep
  BY DEF RecordDelivery
<1>11. TInv'
  BY <1>4, <1>5, <1>8, <1>9, <1>10, TableTypes DEF TInv, TypeOK
<1>. QED
  BY <1>8, <1>9, <1>11 DEF PlainStep

\* A step that changes neither table
LEMMA QuietTables ==
  ASSUME TInv, event' = event, receipt' = receipt
  PROVE  \A p \in Publications : RowStep(p) /\ ReceiptStep(p) /\ NotTaken(p)
BY SameRow DEF ReceiptStep, KeepsReceipt

\* recordDelivery, repeated under the claim its receipt was written with
LEMMA RecordAgainStep ==
  ASSUME TInv, NEW w \in Workers, NEW p \in Publications, RecordAgain(w, p)
  PROVE  TInv' /\ PlainStep
<1>1. /\ Done(w, p) /\ event' = event /\ receipt' = receipt /\ sweep' = sweep
      /\ worker[w].mode = "working" /\ event[p].status = "delivered"
  BY DEF RecordAgain
<1>2. /\ worker' \in [Workers -> WorkerState] /\ WorkerHolds'
      /\ \A v \in Workers : WorkerStep(v)
  BY <1>1, DoneWorker
<1>3. \A q \in Publications : RowStep(q) /\ ReceiptStep(q) /\ NotTaken(q)
  BY <1>1, QuietTables
<1>4. TInv'
  BY <1>1, <1>2, <1>3, TableTypes DEF TInv, TypeOK
<1>. QED
  BY <1>2, <1>3, <1>4 DEF PlainStep

\* The end of a worker's batch
LEMMA EndBatchStep ==
  ASSUME TInv, NEW w \in Workers, EndBatch(w)
  PROVE  TInv' /\ PlainStep
<1>1. Idle \in WorkerState /\ Idle.mode = "idle" /\ Idle.token = Null
  BY OutboxAssumption DEF Idle, WorkerState, Readings, Floor
<1>2. /\ worker' \in [Workers -> WorkerState] /\ worker'[w] = Idle
      /\ \A v \in Workers \ {w} : worker'[v] = worker[v]
      /\ event' = event /\ receipt' = receipt /\ sweep' = sweep
  BY <1>1 DEF EndBatch, TInv, TypeOK
<1>3. WorkerHolds' /\ \A v \in Workers : WorkerStep(v)
  BY <1>1, <1>2, SameWorker DEF TInv, WorkerHolds, WorkerStep
<1>4. \A q \in Publications : RowStep(q) /\ ReceiptStep(q) /\ NotTaken(q)
  BY <1>2, QuietTables
<1>5. TInv'
  BY <1>2, <1>3, <1>4, TableTypes DEF TInv, TypeOK
<1>. QED
  BY <1>3, <1>4, <1>5 DEF PlainStep

\* markFailure, the SELECT
LEMMA FailReadStep ==
  ASSUME TInv, NEW w \in Workers, NEW p \in Publications, FailRead(w, p)
  PROVE  TInv' /\ PlainStep
<1>1. PICK now \in Readings, retryable \in BOOLEAN :
        worker' = [worker EXCEPT ![w] =
            [worker[w] EXCEPT !.mode = "failing", !.failed = p, !.now = now,
                              !.attempts = event[p].attempts, !.retryable = retryable]]
  BY DEF FailRead
<1> DEFINE view == [worker[w] EXCEPT !.mode = "failing", !.failed = p, !.now = now,
                                     !.attempts = event[p].attempts, !.retryable = retryable]
<1>2. worker[w] \in WorkerState /\ event[p].attempts \in Nat /\ worker[w].token \in Tokens
  BY EveryRow DEF FailRead, TInv, TypeOK, WorkerHolds
<1>3. /\ view \in WorkerState /\ view.mode = "failing" /\ view.failed = p
      /\ view.token = worker[w].token /\ view.batch = worker[w].batch
  BY <1>2 DEF WorkerState
<1>4. /\ p \in worker[w].batch
      /\ event' = event /\ receipt' = receipt /\ sweep' = sweep
  BY DEF FailRead
<1>5. worker' = [worker EXCEPT ![w] = view]
  BY <1>1
<1> HIDE DEF view
<1>6. /\ worker' \in [Workers -> WorkerState] /\ worker'[w] = view
      /\ \A v \in Workers \ {w} : worker'[v] = worker[v]
  BY <1>3, <1>5 DEF TInv, TypeOK
<1>7. WorkerHolds' /\ \A v \in Workers : WorkerStep(v)
  BY <1>2, <1>3, <1>4, <1>6, SameWorker DEF TInv, WorkerHolds, WorkerStep
<1>8. \A q \in Publications : RowStep(q) /\ ReceiptStep(q) /\ NotTaken(q)
  BY <1>4, QuietTables
<1>9. TInv'
  BY <1>4, <1>6, <1>7, <1>8, TableTypes DEF TInv, TypeOK
<1>. QED
  BY <1>7, <1>8, <1>9 DEF PlainStep

\* markFailure, the UPDATE
LEMMA FailWriteStep ==
  ASSUME TInv, NEW w \in Workers, FailWrite(w)
  PROVE  TInv' /\ PlainStep
<1> DEFINE row(p) == IF ~worker[w].retryable \/ Spent(worker[w].attempts)
                     THEN GivenUp(event[p], worker[w].now)
                     ELSE Postponed(event[p], worker[w].now + Backoff(worker[w].attempts))
<1>1. PICK p : p = worker[w].failed
  OBVIOUS
<1>2. /\ event' = [event EXCEPT ![p] = row(p)] /\ Done(w, p)
      /\ event[p].status = "claimed" /\ event[p].attempts = worker[w].attempts
      /\ worker[w].mode = "failing" /\ receipt' = receipt /\ sweep' = sweep
  BY <1>1 DEF FailWrite, ClaimIsCurrent
<1>3. /\ worker[w] \in WorkerState /\ p \in Publications /\ event[p] \in EventRow
      /\ worker[w].now \in Readings /\ worker[w].attempts \in Nat
  BY <1>1, <1>2 DEF TInv, TypeOK, WorkerHolds, WorkerState
<1>4. /\ worker[w].now \in Stamps
      /\ worker[w].now + Backoff(worker[w].attempts) \in Stamps
  BY <1>3, BackoffRange, WrittenStamps
<1>5. \/ IsRow(row(p), "terminal", event[p].attempts)
      \/ IsRow(row(p), "pending", event[p].attempts) /\ event[p].attempts < MaxAttempts
  <2>1. CASE ~worker[w].retryable \/ Spent(worker[w].attempts)
    BY <2>1, <1>3, <1>4, GivenUpRow
  <2>2. CASE ~(~worker[w].retryable \/ Spent(worker[w].attempts))
    BY <2>2, <1>2, <1>3, <1>4, PostponedRow, OutboxAssumption DEF Spent
  <2>. QED
    BY <2>1, <2>2
<1> HIDE DEF row
<1>6. row(p) \in EventRow /\ row(p).status # "claimed"
  BY <1>5 DEF IsRow
<1>7. /\ event' \in [Publications -> EventRow] /\ event'[p] = row(p)
      /\ \A q \in Publications \ {p} : event'[q] = event[q]
  BY <1>2, <1>3, <1>6, WriteRow
<1>8. \A q \in Publications : RowStep(q) /\ ReceiptStep(q) /\ NotTaken(q)
  BY <1>2, <1>5, <1>6, <1>7, SameRow
     DEF RowStep, PutBack, Dropped, NotTaken, ReceiptStep, KeepsReceipt
<1>9. /\ worker' \in [Workers -> WorkerState] /\ WorkerHolds'
      /\ \A v \in Workers : WorkerStep(v)
  BY <1>2, <1>3, <1>6, <1>7, DoneWorker
<1>10. TInv'
  BY <1>2, <1>7, <1>8, <1>9, TableTypes DEF TInv, TypeOK
<1>. QED
  BY <1>8, <1>9, <1>10 DEF PlainStep

\* recoverExpiredClaims
LEMMA RecoverStep ==
  ASSUME TInv, RecoverExpiredClaims
  PROVE  TInv' /\ PlainStep
<1>1. PICK now \in Readings :
        event' = [p \in Publications |->
            IF p \notin Expired(now)       THEN event[p]
            ELSE IF Spent(event[p].attempts) THEN GivenUp(event[p], now)
            ELSE Postponed(event[p], now)]
  BY DEF RecoverExpiredClaims
<1>2. receipt' = receipt /\ worker' = worker /\ sweep' = sweep
  BY DEF RecoverExpiredClaims
<1>3. now \in Stamps
  BY WrittenStamps
<1>4. ASSUME NEW p \in Publications
      PROVE  RowStep(p) /\ NotTaken(p) /\ event'[p] \in EventRow
  <2>1. event[p] \in EventRow /\ event[p].attempts \in Nat
    BY EveryRow DEF TInv, TypeOK
  <2>2. CASE p \notin Expired(now)
    BY <2>1, <2>2, <1>1, SameRow
  <2>3. CASE p \in Expired(now) /\ Spent(event[p].attempts)
    <3>1. event'[p] = GivenUp(event[p], now) /\ event[p].status = "claimed"
      BY <2>3, <1>1 DEF Expired
    <3>2. IsRow(event'[p], "terminal", event[p].attempts)
      BY <3>1, <2>1, <1>3, GivenUpRow
    <3>. QED
      BY <3>1, <3>2 DEF RowStep, Dropped, NotTaken, IsRow
  <2>4. CASE p \in Expired(now) /\ ~Spent(event[p].attempts)
    <3>1. event'[p] = Postponed(event[p], now) /\ event[p].status = "claimed"
      BY <2>4, <1>1 DEF Expired
    <3>2. IsRow(event'[p], "pending", event[p].attempts)
      BY <3>1, <2>1, <1>3, PostponedRow
    <3>3. event[p].attempts < MaxAttempts
      BY <2>1, <2>4, OutboxAssumption DEF Spent
    <3>. QED
      BY <3>1, <3>2, <3>3 DEF RowStep, PutBack, NotTaken, IsRow
  <2>. QED
    BY <2>2, <2>3, <2>4
<1>5. event' \in [Publications -> EventRow]
  <2>1. event' = [p \in Publications |-> event'[p]]
    BY <1>1
  <2>. QED
    BY <2>1, <1>4
<1>6. \A p \in Publications : ReceiptStep(p)
  BY <1>2 DEF ReceiptStep, KeepsReceipt
<1>7. WorkerHolds' /\ \A w \in Workers : WorkerStep(w)
  BY <1>2, SameWorker DEF TInv, WorkerHolds
<1>8. TInv'
  BY <1>2, <1>4, <1>5, <1>7, TableTypes DEF TInv, TypeOK
<1>. QED
  BY <1>4, <1>6, <1>7, <1>8 DEF PlainStep

\* reconcile: the inspection, and the end of a call between its batches
LEMMA SweepQuiet ==
  ASSUME TInv, NEW s \in Sweeps, Inspect(s) \/ SweepEnds(s)
  PROVE  TInv' /\ PlainStep
<1>1. event' = event /\ receipt' = receipt /\ worker' = worker
  BY DEF Inspect, SweepEnds
<1>2. sweep' \in [Sweeps -> SweepState]
  <2>1. \E new \in SweepState : sweep' = [sweep EXCEPT ![s] = new]
    <3>1. CASE Inspect(s)
      <4> DEFINE found == {p \in Publications : event[p].status = "delivered" /\ Unreceipted(p)}
      <4>1. [active |-> TRUE, missing |-> found] \in SweepState
        <5>1. found \in SUBSET Publications
          OBVIOUS
        <5>. QED
          BY <5>1 DEF SweepState
      <4>. QED
        BY <3>1, <4>1 DEF Inspect
    <3>2. CASE SweepEnds(s)
      BY <3>2 DEF SweepEnds, SweepState, NoSweep
    <3>. QED
      BY <3>1, <3>2
  <2>. QED
    BY <2>1 DEF TInv, TypeOK
<1>3. \A p \in Publications : RowStep(p) /\ ReceiptStep(p) /\ NotTaken(p)
  BY <1>1, QuietTables
<1>4. WorkerHolds' /\ \A w \in Workers : WorkerStep(w)
  BY <1>1, SameWorker DEF TInv, WorkerHolds
<1>5. TInv'
  BY <1>1, <1>2, <1>3, <1>4, TableTypes DEF TInv, TypeOK
<1>. QED
  BY <1>3, <1>4, <1>5 DEF PlainStep

\* reconcile, the repairing batch
LEMMA RepairStep ==
  ASSUME TInv, NEW s \in Sweeps, Repair(s)
  PROVE  TInv' /\ PlainStep
<1>1. worker' = worker /\ sweep' \in [Sweeps -> SweepState]
  BY DEF Repair, SweepState, NoSweep, TInv, TypeOK
<1>2. Reconciled \in ReceiptRow /\ Reconciled.source = "reconciled"
  BY DEF Reconciled, ReceiptRow
<1>3. \A p \in Publications :
        \/ receipt'[p] = receipt[p]
        \/ event[p].status = "delivered" /\ Unreceipted(p) /\ receipt'[p] = Reconciled
  BY DEF Repair
<1>4. receipt' \in [Publications -> ReceiptRow \cup {NoReceipt}]
  BY <1>2 DEF Repair, TInv, TypeOK
<1>5. \A p \in Publications :
        event'[p] = IF event[p].status \in Open /\ Acknowledges(receipt[p])
                    THEN Released(event[p], "delivered") ELSE event[p]
  BY DEF Repair, Repairable
<1>6. ASSUME NEW p \in Publications
      PROVE  RowStep(p) /\ NotTaken(p) /\ event'[p] \in EventRow /\ ReceiptStep(p)
  <2>1. event[p] \in EventRow
    BY DEF TInv, TypeOK
  <2>2. CASE event[p].status \in Open /\ Acknowledges(receipt[p])
    <3>1. IsRow(event'[p], "delivered", event[p].attempts)
      BY <2>1, <2>2, <1>5, DeliveredRow
    <3>2. receipt'[p] = receipt[p]
      BY <2>2, <1>3 DEF Open
    <3>. QED
      BY <2>2, <3>1, <3>2
         DEF Acknowledges, RowStep, Acked, NotTaken, IsRow, ReceiptStep, KeepsReceipt
  <2>3. CASE ~(event[p].status \in Open /\ Acknowledges(receipt[p]))
    <3>1. event'[p] = event[p]
      BY <2>3, <1>5
    <3>2. Untouched(p) /\ RowStep(p) /\ NotTaken(p)
      BY <3>1, SameRow
    <3>3. ReceiptStep(p)
      BY <3>2, <1>2, <1>3 DEF ReceiptStep, KeepsReceipt
    <3>. QED
      BY <2>1, <3>1, <3>2, <3>3
  <2>. QED
    BY <2>2, <2>3
<1>7. event' \in [Publications -> EventRow]
  <2>1. event' = [p \in Publications |-> event'[p]]
    BY DEF Repair
  <2>. QED
    BY <2>1, <1>6
<1>8. WorkerHolds' /\ \A w \in Workers : WorkerStep(w)
  BY <1>1, SameWorker DEF TInv, WorkerHolds
<1>9. TInv'
  BY <1>1, <1>4, <1>6, <1>7, <1>8, TableTypes DEF TInv, TypeOK
<1>. QED
  BY <1>6, <1>8, <1>9 DEF PlainStep

\* A receipt that arrives by another road
LEMMA InsertReceiptStep ==
  ASSUME TInv, NEW p \in Publications, InsertReceipt(p)
  PROVE  TInv' /\ PlainStep
<1>1. PICK matches \in HandMatches :
        receipt' = [receipt EXCEPT ![p] =
                      [source |-> "delivery", token |-> Null, matches |-> matches]]
  BY DEF InsertReceipt
<1> DEFINE r == [source |-> "delivery", token |-> Null, matches |-> matches]
<1>2. r \in ReceiptRow /\ r.source = "delivery"
  BY OutboxAssumption DEF ReceiptRow
<1>3. /\ receipt' = [receipt EXCEPT ![p] = r]
      /\ event' = event /\ worker' = worker /\ sweep' = sweep
      /\ event[p].status \in Open /\ Unreceipted(p)
  BY <1>1 DEF InsertReceipt
<1> HIDE DEF r
<1>4. /\ receipt' \in [Publications -> ReceiptRow \cup {NoReceipt}] /\ receipt'[p] = r
      /\ \A q \in Publications \ {p} : receipt'[q] = receipt[q]
  BY <1>2, <1>3 DEF TInv, TypeOK
<1>5. \A q \in Publications : Untouched(q) /\ RowStep(q) /\ NotTaken(q)
  BY <1>3, SameRow
<1>6. \A q \in Publications : ReceiptStep(q)
  BY <1>2, <1>3, <1>4, <1>5 DEF ReceiptStep, KeepsReceipt
<1>7. WorkerHolds' /\ \A w \in Workers : WorkerStep(w)
  BY <1>3, SameWorker DEF TInv, WorkerHolds
<1>8. TInv'
  BY <1>3, <1>4, <1>5, <1>7, TableTypes DEF TInv, TypeOK
<1>. QED
  BY <1>5, <1>6, <1>7, <1>8 DEF PlainStep

\* An event an operator marks delivered
LEMMA MarkDeliveredStep ==
  ASSUME TInv, NEW p \in Publications, MarkDelivered(p)
  PROVE  TInv' /\ PlainStep
<1>1. /\ event' = [event EXCEPT ![p] = Released(event[p], "delivered")]
      /\ receipt' = receipt /\ worker' = worker /\ sweep' = sweep
      /\ event[p].status \in Open /\ receipt[p] = NoReceipt /\ p \in HandDelivered
  BY DEF MarkDelivered, Unreceipted
<1>2. /\ event' \in [Publications -> EventRow]
      /\ IsRow(event'[p], "delivered", event[p].attempts)
      /\ \A q \in Publications \ {p} : event'[q] = event[q]
  BY <1>1, DeliveredRow, WriteRow DEF IsRow, TInv, TypeOK
<1>3. Acked(p)
  BY <1>1, <1>2 DEF Acked
<1>4. \A q \in Publications : RowStep(q) /\ ReceiptStep(q) /\ NotTaken(q)
  BY <1>1, <1>2, <1>3, SameRow DEF RowStep, NotTaken, IsRow, ReceiptStep, KeepsReceipt
<1>5. WorkerHolds' /\ \A w \in Workers : WorkerStep(w)
  BY <1>1, SameWorker DEF TInv, WorkerHolds
<1>6. TInv'
  BY <1>1, <1>2, <1>4, <1>5, TableTypes DEF TInv, TypeOK
<1>. QED
  BY <1>4, <1>5, <1>6 DEF PlainStep

\* The clock
LEMMA TickStep ==
  ASSUME TInv, Tick
  PROVE  TInv' /\ PlainStep
<1>1. receipt' = receipt /\ sweep' = sweep
  BY DEF Tick
<1>2. ASSUME NEW p \in Publications
      PROVE  event'[p] \in EventRow /\ Untouched(p) /\ NotTaken(p)
  <2>1. /\ event[p] \in EventRow
        /\ event'[p] = [event[p] EXCEPT !.availableAt = Aged(event[p].availableAt),
                                        !.leaseExpiresAt = Aged(event[p].leaseExpiresAt)]
    BY DEF TInv, TypeOK, Tick
  <2>2. Aged(event[p].availableAt) \in Stamps /\ Aged(event[p].leaseExpiresAt) \in Stamps
    BY <2>1, AgedStamp DEF EventRow
  <2>3. /\ event'[p] \in EventRow /\ event'[p].status = event[p].status
        /\ event'[p].attempts = event[p].attempts /\ event'[p].token = event[p].token
        /\ event'[p].claimedBy = event[p].claimedBy
    BY <2>1, <2>2 DEF EventRow
  <2>. QED
    BY <2>3, EveryRow DEF Untouched, NotTaken, IsRow, ClaimColumns
<1>3. event' \in [Publications -> EventRow]
  <2>1. event' = [p \in Publications |-> event'[p]]
    BY DEF Tick
  <2>. QED
    BY <2>1, <1>2
<1>4. ASSUME NEW w \in Workers
      PROVE  /\ worker'[w] \in WorkerState
             /\ worker'[w].mode = worker[w].mode /\ worker'[w].token = worker[w].token
             /\ worker'[w].batch = worker[w].batch /\ worker'[w].failed = worker[w].failed
  <2>1. worker[w] \in WorkerState
    BY DEF TInv, TypeOK
  <2>2. CASE worker[w].mode = "failing"
    <3>1. worker'[w] = [worker[w] EXCEPT !.now = worker[w].now - 1]
      BY <2>2 DEF Tick
    <3>2. worker[w].now - 1 \in Readings
      <4>1. worker[w].now \in Readings /\ worker[w].now > Floor
        BY <2>1, <2>2 DEF Tick, WorkerState
      <4>. QED
        BY <4>1, OutboxAssumption DEF Readings, Floor
    <3>. QED
      BY <2>1, <3>1, <3>2 DEF WorkerState
  <2>3. CASE worker[w].mode # "failing"
    BY <2>1, <2>3 DEF Tick
  <2>. QED
    BY <2>2, <2>3
<1>5. worker' \in [Workers -> WorkerState]
  <2>1. worker' = [w \in Workers |-> worker'[w]]
    BY DEF Tick
  <2>. QED
    BY <2>1, <1>4
<1>6. WorkerHolds' /\ \A w \in Workers : WorkerStep(w)
  BY <1>4 DEF TInv, WorkerHolds, WorkerStep
<1>7. \A p \in Publications : RowStep(p) /\ ReceiptStep(p)
  BY <1>1, <1>2 DEF RowStep, ReceiptStep, KeepsReceipt
<1>8. TInv'
  BY <1>1, <1>3, <1>5, <1>6, <1>7, TableTypes DEF TInv, TypeOK
<1>. QED
  BY <1>2, <1>6, <1>7, <1>8 DEF PlainStep

----------------------------------------------------------------------------
(* The invariants, from the steps of the rows *)

\* Every step keeps the types; all but claimDue are plain.
LEMMA NextStep ==
  ASSUME TInv, [Next]_vars
  PROVE  /\ TInv'
         /\ \A p \in Publications : RowStep(p) /\ ReceiptStep(p)
         /\ PlainStep \/ \E w \in Workers : ClaimDue(w)
<1>1. ASSUME NEW p \in Publications, Enqueue(p) \/ InsertReceipt(p) \/ MarkDelivered(p)
      PROVE  TInv' /\ PlainStep
  BY <1>1, EnqueueStep, InsertReceiptStep, MarkDeliveredStep
<1>2. ASSUME NEW w \in Workers, WorkerNext(w)
      PROVE  (TInv' /\ PlainStep) \/ ClaimDue(w)
  BY <1>2, EndBatchStep, FailWriteStep, RecordDeliveryStep, RecordAgainStep, FailReadStep
     DEF WorkerNext
<1>3. ASSUME NEW s \in Sweeps, SweepNext(s)
      PROVE  TInv' /\ PlainStep
  BY <1>3, SweepQuiet, RepairStep DEF SweepNext
<1>4. CASE UNCHANGED vars
  <2>1. event' = event /\ receipt' = receipt /\ worker' = worker /\ sweep' = sweep
    BY <1>4 DEF vars
  <2>2. \A p \in Publications : RowStep(p) /\ ReceiptStep(p) /\ NotTaken(p)
    BY <2>1, QuietTables
  <2>3. WorkerHolds' /\ \A w \in Workers : WorkerStep(w)
    BY <2>1, SameWorker DEF TInv, WorkerHolds
  <2>4. TInv'
    BY <2>1, <2>2, <2>3, TableTypes DEF TInv, TypeOK
  <2>. QED
    BY <2>2, <2>3, <2>4 DEF PlainStep
<1>5. (TInv' /\ PlainStep) \/ \E w \in Workers : ClaimDue(w)
  BY <1>1, <1>2, <1>3, <1>4, RecoverStep, TickStep DEF Next
<1>. QED
  BY <1>5, ClaimDueStep DEF PlainStep

\* The attempt budget survives every row step.
LEMMA BudgetStep ==
  ASSUME TInv, WaitingHasBudget, \A p \in Publications : RowStep(p)
  PROVE  WaitingHasBudget'
<1> SUFFICES ASSUME NEW p \in Publications
             PROVE  /\ event'[p].status = "pending" => event'[p].attempts < MaxAttempts
                    /\ event'[p].status = "claimed" => event'[p].attempts \in 1..MaxAttempts
  BY DEF WaitingHasBudget
<1>1. /\ event[p].status = "pending" => event[p].attempts < MaxAttempts
      /\ event[p].status = "claimed" => event[p].attempts \in 1..MaxAttempts
      /\ event[p].attempts \in Nat /\ MaxAttempts \in Nat /\ 0 < MaxAttempts
  BY EveryRow, OutboxAssumption DEF WaitingHasBudget
<1>. QED
  BY <1>1 DEF RowStep, Untouched, Queued, TakenUp, PutBack, Dropped, Acked, IsRow

\* An event that is still absent is still untouched.
LEMMA AbsentStep ==
  ASSUME TInv, AbsentUntouched, \A p \in Publications : RowStep(p) /\ ReceiptStep(p)
  PROVE  AbsentUntouched'
<1> SUFFICES ASSUME NEW p \in Publications, event'[p].status = "absent"
             PROVE  event'[p].attempts = 0 /\ receipt'[p] = NoReceipt
  BY DEF AbsentUntouched, Unreceipted
<1>1. Untouched(p) /\ event[p].status = "absent"
  BY DEF RowStep, Untouched, Queued, TakenUp, PutBack, Dropped, Acked, IsRow
<1>2. receipt'[p] = receipt[p]
  BY <1>1 DEF ReceiptStep, KeepsReceipt, Open
<1>. QED
  BY <1>1, <1>2 DEF AbsentUntouched, Unreceipted, Untouched, IsRow

\* A delivered event keeps its evidence, whatever step is taken.
LEMMA EvidenceStep ==
  ASSUME TInv, DeliveredOnEvidence, \A p \in Publications : RowStep(p) /\ ReceiptStep(p)
  PROVE  DeliveredOnEvidence'
<1> SUFFICES ASSUME NEW p \in Publications
             PROVE  /\ event'[p].status = "delivered" =>
                         receipt'[p].matches \/ (receipt'[p] = NoReceipt /\ p \in HandDelivered)
                    /\ receipt'[p].source = "reconciled" => event'[p].status = "delivered"
  BY DEF DeliveredOnEvidence, Unreceipted
<1>1. /\ event[p].status = "delivered" =>
           receipt[p].matches \/ (receipt[p] = NoReceipt /\ p \in HandDelivered)
      /\ receipt[p].source = "reconciled" => event[p].status = "delivered"
      /\ RowStep(p) /\ ReceiptStep(p)
  BY DEF DeliveredOnEvidence, Unreceipted
<1>2. ~NoReceipt.matches /\ NoReceipt.source = "none" /\ Reconciled.matches
      /\ Reconciled.source = "reconciled"
  BY DEF NoReceipt, Reconciled
<1>3. CASE event[p].status = "delivered"
  <2>1. Untouched(p) /\ event'[p].status = "delivered"
    BY <1>1, <1>3 DEF RowStep, Untouched, Queued, TakenUp, PutBack, Dropped, Acked, Open, IsRow
  <2>2. receipt'[p] = receipt[p] \/ receipt'[p] = Reconciled
    BY <1>1, <1>3 DEF ReceiptStep, KeepsReceipt, Open
  <2>. QED
    BY <1>1, <1>2, <1>3, <2>1, <2>2
<1>4. CASE event[p].status # "delivered"
  <2>1. receipt'[p] = receipt[p] \/ receipt'[p].source = "delivery"
    BY <1>1, <1>4 DEF ReceiptStep, KeepsReceipt
  <2>2. receipt'[p].source # "reconciled"
    BY <1>1, <1>4, <2>1
  <2>3. event'[p].status = "delivered" => Acked(p)
    BY <1>1, <1>4 DEF RowStep, Untouched, Queued, TakenUp, PutBack, Dropped, IsRow
  <2>. QED
    BY <2>2, <2>3 DEF Acked
<1>. QED
  BY <1>3, <1>4

\* A plain step claims nothing, so every claim keeps its one holder.
LEMMA HolderPlain ==
  ASSUME TInv, TInv', OneHolder, PlainStep
  PROVE  OneHolder'
<1> SUFFICES ASSUME NEW p \in Publications, NEW w \in Workers,
                    event'[p].status = "claimed", worker'[w].token = event'[p].token
             PROVE  /\ p \in worker'[w].batch
                    /\ \A v \in Workers : worker'[v].token = worker'[w].token => v = w
  BY DEF OneHolder
<1>1. event[p].status = "claimed" /\ event'[p].token = event[p].token
  BY DEF PlainStep, NotTaken
<1>2. event[p].token # Null
  BY <1>1 DEF TInv, TypeOK
<1>3. \A v \in Workers : worker'[v].token = event[p].token =>
        /\ worker[v].token = event[p].token
        /\ p \in worker[v].batch => p \in worker'[v].batch
  BY <1>1, <1>2 DEF PlainStep, WorkerStep
<1>. QED
  BY <1>1, <1>3 DEF OneHolder

\* A claim takes a token nobody knows.
LEMMA HolderClaim ==
  ASSUME TInv, TInv', OneHolder, NEW w \in Workers, ClaimDue(w)
  PROVE  OneHolder'
<1>1. /\ NewToken \in FreshTokens /\ worker'[w].token = NewToken
      /\ \A v \in Workers \ {w} : worker'[v] = worker[v]
      /\ \A p \in Publications : IF p \in worker'[w].batch
                                 THEN event'[p].token = NewToken
                                 ELSE event'[p] = event[p]
  BY ClaimDueStep
<1>2. /\ \A v \in Workers : worker[v].token # NewToken
      /\ \A p \in Publications : event[p].token # NewToken
  BY <1>1 DEF FreshTokens
<1> SUFFICES ASSUME NEW p \in Publications, NEW u \in Workers,
                    event'[p].status = "claimed", worker'[u].token = event'[p].token
             PROVE  /\ p \in worker'[u].batch
                    /\ \A v \in Workers : worker'[v].token = worker'[u].token => v = u
  BY DEF OneHolder
<1>3. CASE p \in worker'[w].batch
  BY <1>1, <1>2, <1>3
<1>4. CASE p \notin worker'[w].batch
  <2>1. u # w /\ worker'[u] = worker[u] /\ event'[p] = event[p]
    BY <1>1, <1>2, <1>4
  <2>. QED
    BY <1>1, <1>2, <2>1 DEF OneHolder
<1>. QED
  BY <1>3, <1>4

\* The inductive step
LEMMA IInvStep == IInv /\ [Next]_vars => IInv'
<1> SUFFICES ASSUME IInv, [Next]_vars PROVE IInv'
  OBVIOUS
<1>1. /\ TInv' /\ \A p \in Publications : RowStep(p) /\ ReceiptStep(p)
      /\ PlainStep \/ \E w \in Workers : ClaimDue(w)
  BY NextStep DEF IInv
<1>2. OneHolder'
  BY <1>1, HolderPlain, HolderClaim DEF IInv
<1>. QED
  BY <1>1, <1>2, BudgetStep, AbsentStep, EvidenceStep DEF IInv

\* The conjunction that every step preserves holds in every reachable state.
LEMMA Invariance == Spec => []IInv
BY InitIInv, IInvStep, PTL DEF Spec

----------------------------------------------------------------------------
(* Theorems *)

\* The tables and the callers' records keep their types, and the claim columns
\* are set exactly while an event is claimed.
THEOREM TypeCorrect == Spec => []TypeOK
<1>1. IInv => TypeOK
  BY DEF IInv, TInv
<1>. QED
  BY <1>1, Invariance, PTL

\* An event that waits has an attempt left and one that is claimed has not
\* overdrawn its budget.
THEOREM BudgetHeld == Spec => []WaitingHasBudget
<1>1. IInv => WaitingHasBudget
  BY DEF IInv
<1>. QED
  BY <1>1, Invariance, PTL

\* Nothing is delivered without a matching receipt, unless an operator said so.
THEOREM EvidenceHeld == Spec => []DeliveredOnEvidence
<1>1. IInv => DeliveredOnEvidence
  BY DEF IInv
<1>. QED
  BY <1>1, Invariance, PTL

\* A claimed event is held by one worker at most, which still has it to settle.
THEOREM ExclusiveClaims == Spec => []OneHolder
<1>1. IInv => OneHolder
  BY DEF IInv
<1>. QED
  BY <1>1, Invariance, PTL

----------------------------------------------------------------------------
(* The outbox implements the promise *)

\* The phase of a row and its receipt
PhaseIs(row, r) == CASE row.status = "absent"                     -> "absent"
                     [] row.status # "absent"
                          /\ (row.status = "delivered" \/ r.matches) -> "published"
                     [] row.status = "terminal" /\ ~r.matches     -> "abandoned"
                     [] row.status \in {"pending", "claimed"} /\ ~r.matches -> "owed"

\* Whether a receipt matches is a Boolean.
LEMMA MatchesIsBoolean ==
  ASSUME NEW r \in ReceiptRow \cup {NoReceipt}
  PROVE  r.matches \in BOOLEAN
<1>1. CASE r = NoReceipt
  BY <1>1 DEF NoReceipt
<1>2. CASE r \in ReceiptRow
  BY <1>2 DEF ReceiptRow
<1>. QED
  BY <1>1, <1>2

\* An event's phase before and after a step
LEMMA PhaseNow ==
  ASSUME IInv, IInv', NEW p \in Publications
  PROVE  /\ PhaseOf(p) = PhaseIs(event[p], receipt[p])
         /\ PhaseOf(p)' = PhaseIs(event'[p], receipt'[p])
<1>1. /\ event[p].status \in Statuses
      /\ event[p].status = "absent" => ~receipt[p].matches
  BY EveryRow DEF IInv, AbsentUntouched, Unreceipted, NoReceipt
<1>2. /\ event'[p].status \in Statuses
      /\ event'[p].status = "absent" => ~receipt'[p].matches
  BY DEF IInv, TInv, TypeOK, EventRow, AbsentUntouched, Unreceipted, NoReceipt
<1>3. receipt[p].matches \in BOOLEAN /\ receipt'[p].matches \in BOOLEAN
  BY MatchesIsBoolean DEF IInv, TInv, TypeOK
<1>4. PhaseOf(p) = PhaseIs(event[p], receipt[p])
  BY <1>1, <1>3 DEF PhaseOf, Published, PhaseIs, Statuses
<1>5. PhaseOf(p)' = PhaseIs(event'[p], receipt'[p])
  BY <1>2, <1>3 DEF PhaseOf, Published, PhaseIs, Statuses
<1>. QED
  BY <1>4, <1>5

\* What the promise allows one publication
Allowed(p) ==
  \/ /\ PhaseOf(p) = "absent" /\ PhaseOf(p)' = "owed"
     /\ event'[p].attempts = event[p].attempts
     /\ \A q \in Publications \ {p} : Clash(p, q) => PhaseOf(q)' = "absent"
  \/ /\ PhaseOf(p) = "owed" /\ PhaseOf(p)' = "owed"
     /\ event[p].attempts < MaxAttempts /\ event'[p].attempts = event[p].attempts + 1
  \/ /\ PhaseOf(p) \in {"owed", "abandoned"} /\ PhaseOf(p)' = "published"
     /\ event'[p].attempts = event[p].attempts
  \/ /\ PhaseOf(p) = "owed" /\ PhaseOf(p)' = "abandoned"
     /\ event[p].attempts > 0 /\ event'[p].attempts = event[p].attempts
  \/ PhaseOf(p)' = PhaseOf(p) /\ event'[p].attempts = event[p].attempts

\* Each of the six row steps is one the promise allows.
LEMMA AllowedStep ==
  ASSUME IInv, IInv', NEW p \in Publications,
         \A q \in Publications : RowStep(q) /\ ReceiptStep(q)
  PROVE  Allowed(p)
<1> DEFINE now == PhaseIs(event[p], receipt[p])
           then == PhaseIs(event'[p], receipt'[p])
<1>1. /\ \A q \in Publications : PhaseOf(q)' = PhaseIs(event'[q], receipt'[q])
      /\ PhaseOf(p) = now /\ PhaseOf(p)' = then
  BY PhaseNow
<1>2. /\ event[p].status \in Statuses /\ event'[p].status \in Statuses
      /\ receipt[p].matches \in BOOLEAN /\ receipt'[p].matches \in BOOLEAN
      /\ event[p].attempts \in Nat /\ ~NoReceipt.matches
  <2>1. event[p] \in EventRow /\ event'[p] \in EventRow
    BY DEF IInv, TInv, TypeOK
  <2>2. receipt[p].matches \in BOOLEAN /\ receipt'[p].matches \in BOOLEAN
    BY MatchesIsBoolean DEF IInv, TInv, TypeOK
  <2>. QED
    BY <2>1, <2>2 DEF EventRow, NoReceipt
<1>3. event[p].status = "absent" => event[p].attempts = 0 /\ receipt[p] = NoReceipt
  BY DEF IInv, AbsentUntouched, Unreceipted
<1>4. /\ event[p].status = "pending" => event[p].attempts < MaxAttempts
      /\ event[p].status = "claimed" => event[p].attempts > 0
  BY OutboxAssumption, <1>2 DEF IInv, WaitingHasBudget
<1>5. RowStep(p) /\ ReceiptStep(p)
  OBVIOUS
<1>6. receipt'[p] = receipt[p] \/ (receipt[p] = NoReceipt /\ (Untouched(p) \/ Acked(p)))
  BY <1>5 DEF ReceiptStep, KeepsReceipt, Unreceipted
<1>7. CASE Untouched(p)
  <2>1. /\ event'[p].status = event[p].status /\ event'[p].attempts = event[p].attempts
    BY <1>7 DEF Untouched, IsRow
  <2>2. \/ then = now
        \/ now \in {"owed", "abandoned"} /\ then = "published"
    <3>1. receipt'[p] = receipt[p] \/ (receipt[p] = NoReceipt /\ event[p].status # "absent")
      BY <1>5 DEF ReceiptStep, KeepsReceipt, Unreceipted, Open
    <3>2. CASE receipt'[p] = receipt[p]
      BY <2>1, <3>2 DEF PhaseIs
    <3>3. CASE receipt[p] = NoReceipt /\ event[p].status # "absent"
      <4>. HIDE DEF NoReceipt
      <4>. QED
        BY <1>2, <2>1, <3>3 DEF PhaseIs, Statuses
    <3>. QED
      BY <3>1, <3>2, <3>3
  <2>. HIDE DEF now, then
  <2>. QED
    BY <1>1, <2>1, <2>2 DEF Allowed
<1>8. CASE Queued(p)
  <2>1. /\ event[p].status = "absent" /\ event'[p].status = "pending"
        /\ event'[p].attempts = 0
        /\ \A q \in Publications \ {p} : Clash(p, q) => event'[q].status = "absent"
    BY <1>8 DEF Queued, IsRow
  <2>2. receipt'[p] = NoReceipt
    BY <1>3, <1>5, <2>1 DEF ReceiptStep, KeepsReceipt, Open
  <2>3. now = "absent" /\ then = "owed"
    BY <1>2, <2>1, <2>2 DEF PhaseIs
  <2>4. \A q \in Publications \ {p} : Clash(p, q) => PhaseOf(q)' = "absent"
    BY <1>1, <2>1 DEF PhaseIs
  <2>. QED
    BY <1>1, <1>3, <2>1, <2>3, <2>4 DEF Allowed
<1>9. CASE TakenUp(p)
  <2>1. /\ event[p].status = "pending" /\ event'[p].status = "claimed"
        /\ event'[p].attempts = event[p].attempts + 1 /\ receipt[p] = NoReceipt
    BY <1>9 DEF TakenUp, IsRow, Unreceipted
  <2>2. receipt'[p] = NoReceipt
    BY <1>6, <2>1 DEF Untouched, Acked, IsRow
  <2>3. now = "owed" /\ then = "owed"
    BY <1>2, <2>1, <2>2 DEF PhaseIs
  <2>. QED
    BY <1>1, <1>4, <2>1, <2>3 DEF Allowed
<1>10. CASE PutBack(p) \/ Dropped(p)
  <2>1. /\ event[p].status = "claimed" /\ event'[p].status \in {"pending", "terminal"}
        /\ event'[p].attempts = event[p].attempts
    BY <1>10 DEF PutBack, Dropped, IsRow
  <2>2. receipt'[p] = receipt[p]
    BY <1>6, <2>1 DEF Untouched, Acked, IsRow
  <2>3. then = now \/ (now = "owed" /\ then = "abandoned")
    BY <1>2, <2>1, <2>2 DEF PhaseIs
  <2>. HIDE DEF now, then
  <2>. QED
    BY <1>1, <1>4, <2>1, <2>3 DEF Allowed
<1>11. CASE Acked(p)
  <2>1. /\ event[p].status \in Open /\ event'[p].status = "delivered"
        /\ event'[p].attempts = event[p].attempts
    BY <1>11 DEF Acked, IsRow
  <2>2. then = "published" /\ now \in {"owed", "abandoned", "published"}
    BY <1>2, <2>1 DEF PhaseIs, Open
  <2>. HIDE DEF now, then
  <2>. QED
    BY <1>1, <2>1, <2>2 DEF Allowed
<1>. QED
  BY <1>5, <1>7, <1>8, <1>9, <1>10, <1>11 DEF RowStep

\* A step of the promise is one every publication may take.
LEMMA PromiseStep ==
  ASSUME \A p \in Publications : Allowed(p)
  PROVE  Promise!Next
<1> SUFFICES ASSUME NEW p \in Publications
             PROVE  \/ Promise!Request(p) \/ Promise!Attempt(p) \/ Promise!Publish(p)
                    \/ Promise!Abandon(p) \/ Promise!Stays(p)
  BY DEF Promise!Next
<1> QED
  BY DEF Allowed, Promise!Request, Promise!Attempt, Promise!Publish, Promise!Abandon,
         Promise!Stays, Promise!Goes, Promise!Keeps, Promise!Clash, Clash

\* The outbox keeps its promise to the analysis that writes into it: of clashing
\* publications one at most is owed, none is attempted beyond its budget or after
\* it was published, and what is published stays published.
THEOREM PromiseKept == Spec => KeepsPromise
<1>1. Init => Promise!Init
  <2> SUFFICES ASSUME Init
               PROVE  \A p \in Publications : PhaseOf(p) = "absent" /\ event[p].attempts = 0
    BY DEF Promise!Init
  <2>1. \A p \in Publications : /\ event[p].status = "absent" /\ event[p].attempts = 0
                                /\ ~receipt[p].matches
    BY DEF Init, NoEvent, NoReceipt
  <2>. QED
    BY <2>1 DEF PhaseOf, Published
<1>2. IInv /\ IInv' /\ [Next]_vars => Promise!Next
  <2> SUFFICES ASSUME IInv, IInv', [Next]_vars PROVE Promise!Next
    OBVIOUS
  <2>1. \A p \in Publications : RowStep(p) /\ ReceiptStep(p)
    BY NextStep DEF IInv
  <2>. QED
    BY <2>1, AllowedStep, PromiseStep
<1>. QED
  BY <1>1, <1>2, Invariance, PTL DEF Spec, KeepsPromise, Promise!Spec

----------------------------------------------------------------------------
(* What a worker may rely on: its claim, and the answer it is given *)

\* A stamp a statement reads is not in the future.
LEMMA ReadingsArePast == \A now \in Readings : now \in Int /\ now <= 0
BY OutboxAssumption DEF Readings, Floor

\* Who may end a claim: the worker it was given to, or whoever settles the event
EndedRightly(p) == \/ event'[p].status = "delivered"
                   \/ \E w \in Workers : worker[w].token = event[p].token
                                           /\ worker'[w] # worker[w]

\* A failure is recorded by the worker whose claim it is.
LEMMA FailWriteIsOwn ==
  ASSUME TInv, NEW w \in Workers, FailWrite(w), NEW p \in Publications,
         event'[p] # event[p]
  PROVE  EndedRightly(p)
<1>1. /\ worker[w].mode = "failing" /\ worker[w].failed \in Publications
      /\ event[worker[w].failed].token = worker[w].token
      /\ \A q \in Publications \ {worker[w].failed} : event'[q] = event[q]
  BY DEF FailWrite, ClaimIsCurrent, TInv, TypeOK, WorkerHolds, WorkerState
<1>2. p = worker[w].failed
  BY <1>1
<1>3. worker'[w] = Holding(worker[w].token, worker[w].batch \ {p})
  BY <1>2 DEF FailWrite, Done, TInv, TypeOK
<1>4. worker'[w].mode = "working"
  BY <1>3 DEF Holding
<1>. QED
  BY <1>1, <1>2, <1>4 DEF EndedRightly

\* No other step takes a claim from its worker before the lease is over.
LEMMA LeaseStands ==
  ASSUME TInv, [Next]_vars, NEW p \in Publications, event[p].status = "claimed",
         event[p].leaseExpiresAt > 0, event'[p].token # event[p].token
  PROVE  EndedRightly(p)
<1>0. event' # event /\ event'[p] # event[p]
  OBVIOUS
<1>1. ASSUME NEW q \in Publications, Enqueue(q) \/ InsertReceipt(q) \/ MarkDelivered(q)
      PROVE  EndedRightly(p)
  <2>1. CASE Enqueue(q)
    BY <2>1, <1>0 DEF Enqueue, TInv, TypeOK
  <2>2. CASE InsertReceipt(q)
    BY <2>2, <1>0 DEF InsertReceipt
  <2>3. CASE MarkDelivered(q)
    <3>1. p = q /\ event'[p] = Released(event[p], "delivered") /\ event[p] \in EventRow
      BY <2>3, <1>0 DEF MarkDelivered, TInv, TypeOK
    <3>. QED
      BY <3>1, DeliveredRow DEF IsRow, EndedRightly
  <2>. QED
    BY <1>1, <2>1, <2>2, <2>3
<1>2. ASSUME NEW w \in Workers, WorkerNext(w)
      PROVE  EndedRightly(p)
  <2>1. CASE ClaimDue(w)
    <3>1. PICK now \in Readings : \E batch \in SUBSET Due(now) :
             /\ batch \in SUBSET Publications
             /\ event' = [r \in Publications |->
                   IF r \in batch THEN Claimed(event[r], WorkerIdOf[w], NewToken, now)
                                  ELSE event[r]]
             /\ worker' = [worker EXCEPT ![w] = Holding(NewToken, batch)]
      BY <2>1, ClaimDueChoice
    <3>2. p \notin Due(now)
      BY DEF Due
    <3>. QED
      BY <3>1, <3>2, <1>0
  <2>2. CASE EndBatch(w)
    BY <2>2, <1>0 DEF EndBatch
  <2>3. CASE FailWrite(w)
    BY <2>3, <1>0, FailWriteIsOwn
  <2>4. ASSUME NEW q \in Publications, RecordDelivery(w, q)
        PROVE  EndedRightly(p)
    <3>1. event[q] \in EventRow /\ event' = [event EXCEPT ![q] = Released(event[q], "delivered")]
      BY <2>4 DEF RecordDelivery, TInv, TypeOK
    <3>2. p = q /\ event'[p] = Released(event[p], "delivered") /\ event[p] \in EventRow
      BY <3>1, <1>0 DEF TInv, TypeOK
    <3>. QED
      BY <3>2, DeliveredRow DEF IsRow, EndedRightly
  <2>5. ASSUME NEW q \in Publications, RecordAgain(w, q) \/ FailRead(w, q)
        PROVE  EndedRightly(p)
    BY <2>5, <1>0 DEF RecordAgain, FailRead
  <2>. QED
    BY <1>2, <2>1, <2>2, <2>3, <2>4, <2>5 DEF WorkerNext
<1>3. ASSUME NEW s \in Sweeps, SweepNext(s)
      PROVE  EndedRightly(p)
  <2>1. CASE Repair(s)
    <3>1. event'[p] = Released(event[p], "delivered") /\ event[p] \in EventRow
      BY <2>1, <1>0 DEF Repair, TInv, TypeOK
    <3>. QED
      BY <3>1, DeliveredRow DEF IsRow, EndedRightly
  <2>2. CASE Inspect(s) \/ SweepEnds(s)
    BY <2>2, <1>0 DEF Inspect, SweepEnds
  <2>. QED
    BY <1>3, <2>1, <2>2 DEF SweepNext
<1>4. CASE RecoverExpiredClaims
  <2>1. PICK now \in Readings :
          event' = [r \in Publications |->
            IF r \notin Expired(now)       THEN event[r]
            ELSE IF Spent(event[r].attempts) THEN GivenUp(event[r], now)
            ELSE Postponed(event[r], now)]
    BY <1>4 DEF RecoverExpiredClaims
  <2>2. event[p].leaseExpiresAt \in Int
    BY OutboxAssumption DEF TInv, TypeOK, EventRow, Stamps, Floor
  <2>3. p \notin Expired(now)
    BY <2>2, ReadingsArePast DEF Expired
  <2>. QED
    BY <2>1, <2>3, <1>0
<1>5. CASE Tick
  <2>1. event'[p].token = event[p].token
    BY <1>5 DEF Tick, TInv, TypeOK, EventRow
  <2>. QED
    BY <2>1
<1>6. CASE UNCHANGED vars
  BY <1>6, <1>0 DEF vars
<1>. QED
  BY <1>1, <1>2, <1>3, <1>4, <1>5, <1>6 DEF Next

\* Before its lease is over a claim is ended only by its own worker, unless a
\* receipt or an operator settles the event.
THEOREM ClaimsHonoured == Spec => ClaimHonoured
<1>. DEFINE Honoured ==
       \A p \in Publications :
         event[p].status = "claimed" /\ event[p].leaseExpiresAt > 0
           /\ event'[p].token # event[p].token
         => \/ event'[p].status = "delivered"
            \/ \E w \in Workers : worker[w].token = event[p].token
                                    /\ worker'[w] # worker[w]
<1>1. IInv /\ [Next]_vars => [Honoured]_vars
  BY LeaseStands DEF IInv, EndedRightly
<1>. HIDE DEF Honoured
<1>2. Spec => [][Honoured]_vars
  BY <1>1, Invariance, PTL DEF Spec
<1>. QED
  BY <1>2, PTL DEF ClaimHonoured, Honoured

\* The receipt of an event that is still open was inserted by an operator: a
\* delivery writes its receipt in the batch that settles the event.
OpenByHand == \A p \in Publications :
                event[p].status \in Open \cup {"absent"} => receipt[p].token = Null

SuccessInv == IInv /\ OpenByHand

\* A receipt that names a claim is written with the delivery of its event.
LEMMA ReceiptTokens ==
  ASSUME TInv, [Next]_vars, NEW p \in Publications
  PROVE  receipt'[p] = receipt[p] \/ receipt'[p].token = Null \/ event'[p].status = "delivered"
<1> DEFINE Goal == receipt'[p] = receipt[p] \/ receipt'[p].token = Null
                     \/ event'[p].status = "delivered"
<1>1. ASSUME NEW q \in Publications, Enqueue(q) \/ InsertReceipt(q) \/ MarkDelivered(q)
      PROVE  Goal
  BY <1>1 DEF Enqueue, InsertReceipt, MarkDelivered, TInv, TypeOK
<1>2. ASSUME NEW w \in Workers, WorkerNext(w)
      PROVE  Goal
  <2>1. ASSUME NEW q \in Publications, RecordDelivery(w, q)
        PROVE  Goal
    <3>1. CASE p = q
      <4>1. event'[p] = Released(event[p], "delivered") /\ event[p] \in EventRow
        BY <2>1, <3>1 DEF RecordDelivery, TInv, TypeOK
      <4>. QED
        BY <4>1, DeliveredRow DEF IsRow
    <3>2. CASE p # q
      BY <2>1, <3>2 DEF RecordDelivery, TInv, TypeOK
    <3>. QED
      BY <3>1, <3>2
  <2>2. CASE \A q \in Publications : ~RecordDelivery(w, q)
    BY <1>2, <2>2 DEF WorkerNext, ClaimDue, EndBatch, FailWrite, RecordAgain, FailRead
  <2>. QED
    BY <2>1, <2>2
<1>3. ASSUME NEW s \in Sweeps, SweepNext(s)
      PROVE  Goal
  BY <1>3 DEF SweepNext, Inspect, SweepEnds, Repair, Reconciled
<1>4. CASE RecoverExpiredClaims \/ Tick \/ UNCHANGED vars
  BY <1>4 DEF RecoverExpiredClaims, Tick, vars
<1>. QED
  BY <1>1, <1>2, <1>3, <1>4 DEF Next

\* The strengthened invariant is inductive.
LEMMA SuccessInvHolds == Spec => []SuccessInv
<1>1. Init => OpenByHand
  BY DEF Init, OpenByHand, NoReceipt
<1>2. IInv /\ OpenByHand /\ [Next]_vars => OpenByHand'
  <2> SUFFICES ASSUME IInv, OpenByHand, [Next]_vars, NEW p \in Publications,
                      event'[p].status \in Open \cup {"absent"}
               PROVE  receipt'[p].token = Null
    BY DEF OpenByHand, Open
  <2>1. TInv /\ RowStep(p)
    BY NextStep DEF IInv
  <2>2. event[p].status \in Open \cup {"absent"}
    BY <2>1 DEF RowStep, Untouched, Queued, TakenUp, PutBack, Dropped, Acked, IsRow, Open
  <2>3. receipt[p].token = Null /\ event'[p].status # "delivered"
    BY <2>2 DEF OpenByHand, Open
  <2>. QED
    BY <2>1, <2>3, ReceiptTokens
<1>. QED
  BY <1>1, <1>2, InitIInv, IInvStep, PTL DEF Spec, SuccessInv

\* The answer a worker is given when it is done with an event that is delivered
LEMMA AnsweredRightly ==
  ASSUME SuccessInv, [Next]_vars, NEW w \in Workers, NEW p \in worker[w].batch,
         p \notin worker'[w].batch, worker'[w].token = worker[w].token,
         event'[p].status = "delivered"
  PROVE  receipt'[p].token \in {worker[w].token, Null}
<1>0. /\ TInv /\ p \in Publications /\ worker' # worker /\ worker'[w] # worker[w]
      /\ worker \in [Workers -> WorkerState] /\ worker[w] \in WorkerState
  BY DEF SuccessInv, IInv, TInv, TypeOK, WorkerState
<1> DEFINE Goal == receipt'[p].token \in {worker[w].token, Null}
<1>1. ASSUME NEW v \in Workers, WorkerNext(v)
      PROVE  Goal
  <2>1. v = w
    BY <1>0, <1>1 DEF WorkerNext, ClaimDue, EndBatch, FailWrite, RecordDelivery, RecordAgain,
                      FailRead, Done
  <2>2. CASE ClaimDue(w)
    <3>1. NewToken \in Tokens /\ worker'[w].token = NewToken /\ worker[w].mode = "idle"
      BY <1>0, <2>2, ClaimDueStep DEF ClaimDue
    <3>. QED
      BY <1>0, <3>1, OutboxAssumption DEF TInv, WorkerHolds
  <2>3. CASE EndBatch(w)
    <3>1. worker'[w].token = Null /\ worker[w].mode # "idle"
      BY <1>0, <2>3 DEF EndBatch, Idle
    <3>. QED
      BY <1>0, <3>1, OutboxAssumption DEF TInv, WorkerHolds
  <2>4. CASE FailWrite(w)
    <3>1. worker[w].failed \in Publications /\ event[worker[w].failed].status = "claimed"
      BY <1>0, <2>4 DEF FailWrite, ClaimIsCurrent, TInv, WorkerHolds, WorkerState
    <3>2. worker'[w] = Holding(worker[w].token, worker[w].batch \ {worker[w].failed})
      BY <1>0, <2>4 DEF FailWrite, Done
    <3>3. p = worker[w].failed
      BY <3>2 DEF Holding
    <3>4. RowStep(p) /\ NotTaken(p) /\ receipt' = receipt
      BY <1>0, <2>4, FailWriteStep DEF PlainStep, FailWrite
    <3>5. \/ event'[p] = GivenUp(event[p], worker[w].now)
          \/ event'[p] = Postponed(event[p], worker[w].now + Backoff(worker[w].attempts))
      BY <1>0, <2>4, <3>3 DEF FailWrite, TInv, TypeOK
    <3>6. /\ event[p] \in EventRow /\ worker[w].now \in Stamps
          /\ worker[w].now + Backoff(worker[w].attempts) \in Stamps
      BY <1>0, BackoffRange, WrittenStamps DEF TInv, TypeOK, WorkerState
    <3>. QED
      BY <3>5, <3>6, GivenUpRow, PostponedRow DEF IsRow
  <2>5. ASSUME NEW q \in Publications, RecordDelivery(w, q)
        PROVE  Goal
    <3>1. worker'[w] = Holding(worker[w].token, worker[w].batch \ {q})
      BY <1>0, <2>5 DEF RecordDelivery, Done
    <3>2. p = q
      BY <3>1 DEF Holding
    <3>3. event[p].status = "claimed" /\ event[p].token = worker[w].token
      BY <2>5, <3>2 DEF RecordDelivery, ClaimIsCurrent
    <3>4. receipt[p].token = Null
      BY <1>0, <3>3 DEF SuccessInv, OpenByHand, Open
    <3>5. receipt'[p] = IF Unreceipted(p)
                        THEN [source |-> "delivery", token |-> event[p].token, matches |-> TRUE]
                        ELSE receipt[p]
      BY <1>0, <2>5, <3>2 DEF RecordDelivery, TInv, TypeOK
    <3>. QED
      BY <3>3, <3>4, <3>5
  <2>6. ASSUME NEW q \in Publications, RecordAgain(w, q)
        PROVE  Goal
    <3>1. worker'[w] = Holding(worker[w].token, worker[w].batch \ {q})
      BY <1>0, <2>6 DEF RecordAgain, Done
    <3>2. p = q
      BY <3>1 DEF Holding
    <3>. QED
      BY <2>6, <3>2 DEF RecordAgain
  <2>7. ASSUME NEW q \in Publications, FailRead(w, q)
        PROVE  Goal
    <3>1. worker'[w].batch = worker[w].batch
      BY <1>0, <2>7 DEF FailRead, WorkerState
    <3>. QED
      BY <3>1
  <2>. QED
    BY <1>1, <2>1, <2>2, <2>3, <2>4, <2>5, <2>6, <2>7 DEF WorkerNext
<1>2. CASE Tick
  <2>1. worker'[w].batch = worker[w].batch
    BY <1>0, <1>2 DEF Tick, WorkerState
  <2>. QED
    BY <2>1
<1>3. CASE \E q \in Publications : Enqueue(q) \/ InsertReceipt(q) \/ MarkDelivered(q)
  BY <1>0, <1>3 DEF Enqueue, InsertReceipt, MarkDelivered
<1>4. CASE \E s \in Sweeps : SweepNext(s)
  BY <1>0, <1>4 DEF SweepNext, Inspect, Repair, SweepEnds
<1>5. CASE RecoverExpiredClaims \/ UNCHANGED vars
  BY <1>0, <1>5 DEF RecoverExpiredClaims, vars
<1>. QED
  BY <1>1, <1>2, <1>3, <1>4, <1>5 DEF Next

\* A worker is told that its delivery was recorded only if the receipt names its
\* own claim or came from an operator.
THEOREM SuccessesOwn == Spec => SuccessIsOwn
<1>. DEFINE Own ==
       \A w \in Workers : \A p \in worker[w].batch :
         p \notin worker'[w].batch /\ worker'[w].token = worker[w].token
           /\ event'[p].status = "delivered"
         => receipt'[p].token \in {worker[w].token, Null}
<1>1. SuccessInv /\ [Next]_vars => [Own]_vars
  BY AnsweredRightly
<1>. HIDE DEF Own
<1>2. Spec => [][Own]_vars
  BY <1>1, SuccessInvHolds, PTL DEF Spec
<1>. QED
  BY <1>2, PTL DEF SuccessIsOwn, Own

----------------------------------------------------------------------------
(* The analysis runs, in composition with the outbox *)

ATypes ==
  /\ run \in [Runs -> RunStatuses]
  /\ handler \in [Runs -> HandlerStates]
  /\ rollback \in [Admins -> RollbackState]
  /\ seen \in [Workers -> SeenState]
  /\ everPublic \subseteq Runs

\* A run exists once its handler has begun and is running while it writes; the history
\* knows those that are a success.
HandlerAgrees ==
  \A r \in Runs : /\ run[r] = "absent" <=> handler[r] = "idle"
                  /\ handler[r] = "writing" => run[r] = "running"
                  /\ run[r] = "success" => r \in everPublic

\* A delivery that found its run ready, and a receipt, are of runs once public.
SeenPublic     == \A w \in Workers, p \in Publications :
                    seen[w].event = p /\ seen[w].ready => RunOf[p] \in everPublic
ReceiptsPublic == \A p \in Publications : receipt[p] # NoReceipt => RunOf[p] \in everPublic

AInv == IInv /\ ATypes /\ HandlerAgrees /\ SnapshotWhole /\ SeenPublic /\ ReceiptsPublic

----------------------------------------------------------------------------
(* The composition takes steps of the outbox. *)

\* Every step of the composition is a step of the outbox or leaves it alone.
LEMMA OutboxStep ==
  ASSUME AInv, [AnalysisNext]_analysisVars
  PROVE  [Next]_vars
<1>1. ASSUME NEW r \in Runs, RunNext(r)
      PROVE  [Next]_vars
  <2>1. CASE WriteIssue(r)
    BY <2>1 DEF WriteIssue, Next
  <2>2. CASE ~WriteIssue(r)
    BY <1>1, <2>2 DEF RunNext, StartRun, FinishRun, Throw, FailRun, Crash, vars
  <2>. QED
    BY <2>1, <2>2
<1>2. ASSUME NEW a \in Admins, RollbackNext(a)
      PROVE  [Next]_vars
  BY <1>2 DEF RollbackNext, RollbackRead, RollbackFallback, RollbackUpdate, vars
<1>3. ASSUME NEW w \in Workers, DeliveryNext(w)
      PROVE  [Next]_vars
  <2>1. seen[w].event \in Publications \cup {Null}
    BY DEF AInv, ATypes, SeenState
  <2>2. CASE Claim(w) \/ Settle(w) \/ Leave(w)
    <3>1. WorkerNext(w)
      BY <2>2 DEF Claim, Settle, Leave, WorkerNext
    <3>. QED
      BY <3>1 DEF Next
  <2>3. CASE Deliver(w) \/ NotReady(w)
    <3>1. WorkerNext(w)
      BY <2>1, <2>3 DEF Deliver, NotReady, WorkerNext
    <3>. QED
      BY <3>1 DEF Next
  <2>4. CASE \E p \in Publications : SelectAggregate(w, p)
    BY <2>4 DEF SelectAggregate, vars
  <2>. QED
    BY <1>3, <2>2, <2>3, <2>4 DEF DeliveryNext
<1>4. CASE Maintain
  BY <1>4 DEF Maintain, Next
<1>5. CASE UNCHANGED analysisVars
  BY <1>5 DEF analysisVars, vars
<1>. QED
  BY <1>1, <1>2, <1>3, <1>4, <1>5 DEF AnalysisNext

\* What is written stays written.
LEMMA WrittenStays ==
  ASSUME \A p \in Publications : RowStep(p), NEW r \in Runs, AllWritten(r)
  PROVE  AllWritten(r)'
BY DEF AllWritten, RowStep, Untouched, Queued, TakenUp, PutBack, Dropped, Acked, IsRow

----------------------------------------------------------------------------
(* What a step does to the runs *)

\* The run and its handler take one of these steps together.
RunStep(r) ==
  \/ run'[r] = run[r] /\ handler'[r] = handler[r]
  \/ handler[r] = "idle" /\ run'[r] = "running" /\ handler'[r] = "writing"
  \/ handler[r] = "writing" /\ run'[r] = "success" /\ handler'[r] \in {"ended", "failing"}
       /\ AllWritten(r)
  \/ handler[r] \in {"writing", "failing"} /\ handler'[r] \in {"failing", "ended"}
       /\ run'[r] = run[r]
  \/ handler[r] = "failing" /\ handler'[r] = "ended" /\ run'[r] = "failed"
  \/ run[r] = "success" /\ run'[r] = "rolled_back" /\ handler'[r] = handler[r]

\* The runs and their handlers keep their types and every run takes such a step.
LEMMA RunsMove ==
  ASSUME ATypes, [AnalysisNext]_analysisVars
  PROVE  /\ run' \in [Runs -> RunStatuses] /\ handler' \in [Runs -> HandlerStates]
         /\ \A r \in Runs : RunStep(r)
<1>1. ASSUME NEW r \in Runs, RunNext(r)
      PROVE  /\ run' \in [Runs -> RunStatuses] /\ handler' \in [Runs -> HandlerStates]
             /\ \A q \in Runs : RunStep(q)
  <2>1. CASE StartRun(r)
    BY <2>1 DEF StartRun, ATypes, RunStep, RunStatuses, HandlerStates
  <2>2. CASE WriteIssue(r)
    BY <2>2 DEF WriteIssue, ATypes, RunStep, HandlerStates
  <2>3. CASE FinishRun(r)
    BY <2>3 DEF FinishRun, LoopEnded, ATypes, RunStep, RunStatuses, HandlerStates
  <2>4. CASE Throw(r) \/ Crash(r)
    BY <2>4 DEF Throw, Crash, ATypes, RunStep, HandlerStates
  <2>5. CASE FailRun(r)
    BY <2>5 DEF FailRun, ATypes, RunStep, RunStatuses, HandlerStates
  <2>. QED
    BY <1>1, <2>1, <2>2, <2>3, <2>4, <2>5 DEF RunNext
<1>2. ASSUME NEW a \in Admins, RollbackNext(a)
      PROVE  /\ run' \in [Runs -> RunStatuses] /\ handler' = handler
             /\ \A q \in Runs : RunStep(q)
  <2>1. CASE RollbackUpdate(a)
    BY <2>1 DEF RollbackUpdate, StillSuccess, ATypes, RunStep, RunStatuses
  <2>2. CASE ~RollbackUpdate(a)
    BY <1>2, <2>2 DEF RollbackNext, RollbackRead, RollbackFallback, ATypes, RunStep
  <2>. QED
    BY <2>1, <2>2
<1>3. CASE UNCHANGED <<run, handler>>
  BY <1>3 DEF ATypes, RunStep
<1>4. \/ \E r \in Runs : RunNext(r)
      \/ \E a \in Admins : RollbackNext(a)
      \/ UNCHANGED <<run, handler>>
  BY DEF AnalysisNext, DeliveryNext, Claim, SelectAggregate, Deliver, NotReady, Settle,
         Leave, Maintain, analysisVars
<1>. QED
  BY <1>1, <1>2, <1>3, <1>4 DEF ATypes

\* The history grows by the run that finishes, whose issues have all been written.
LEMMA PublicStays ==
  ASSUME ATypes, [AnalysisNext]_analysisVars
  PROVE  /\ everPublic \subseteq everPublic' /\ everPublic' \subseteq Runs
         /\ \A r \in everPublic' \ everPublic : AllWritten(r)
         /\ \A r \in Runs : run'[r] = "success" /\ run[r] # "success" => r \in everPublic'
<1>1. ASSUME NEW q \in Runs, RunNext(q)
      PROVE  /\ everPublic \subseteq everPublic' /\ everPublic' \subseteq Runs
             /\ \A r \in everPublic' \ everPublic : AllWritten(r)
             /\ \A r \in Runs : run'[r] = "success" /\ run[r] # "success" => r \in everPublic'
  <2>1. CASE FinishRun(q)
    BY <2>1 DEF FinishRun, LoopEnded, ATypes
  <2>2. CASE ~FinishRun(q)
    BY <1>1, <2>2 DEF RunNext, StartRun, WriteIssue, Throw, FailRun, Crash, ATypes
  <2>. QED
    BY <2>1, <2>2
<1>2. CASE \A r \in Runs : ~RunNext(r)
  <2>1. everPublic' = everPublic
    BY <1>2 DEF AnalysisNext, RollbackNext, RollbackRead, RollbackFallback, RollbackUpdate,
       DeliveryNext, Claim, SelectAggregate, Deliver, NotReady, Settle, Leave, Maintain, analysisVars
  <2>2. \A r \in Runs : run'[r] = "success" => run[r] = "success"
    BY <1>2 DEF AnalysisNext, RollbackNext, RollbackRead, RollbackFallback, RollbackUpdate, ATypes,
       DeliveryNext, Claim, SelectAggregate, Deliver, NotReady, Settle, Leave, Maintain, analysisVars
  <2>. QED
    BY <2>1, <2>2 DEF ATypes
<1>. QED
  BY <1>1, <1>2

----------------------------------------------------------------------------
(* The inductive invariant *)

\* The rollbacks and the deliveries keep their types.
LEMMA CallersStep ==
  ASSUME ATypes, [AnalysisNext]_analysisVars
  PROVE  rollback' \in [Admins -> RollbackState] /\ seen' \in [Workers -> SeenState]
<1>1. ASSUME NEW a \in Admins, RollbackNext(a)
      PROVE  rollback' \in [Admins -> RollbackState] /\ seen' = seen
  <2>1. NoRollback \in RollbackState /\ rollback[a].run \in Runs \cup {Null}
    BY DEF NoRollback, RollbackState, ATypes
  <2>2. \A r \in Runs \cup {Null} : /\ [step |-> "fallback", run |-> r] \in RollbackState
                                   /\ [step |-> "update", run |-> r] \in RollbackState
    BY DEF RollbackState
  <2>3. CASE \E r \in Runs : RollbackRead(a, r)
    <3>1. PICK r \in Runs : RollbackRead(a, r)
      BY <2>3
    <3>. QED
      BY <2>2, <3>1 DEF RollbackRead, ATypes
  <2>4. CASE RollbackFallback(a)
    BY <2>1, <2>2, <2>4 DEF RollbackFallback, ATypes
  <2>5. CASE RollbackUpdate(a)
    BY <2>1, <2>5 DEF RollbackUpdate, ATypes
  <2>. QED
    BY <1>1, <2>3, <2>4, <2>5 DEF RollbackNext
<1>2. ASSUME NEW w \in Workers, DeliveryNext(w)
      PROVE  seen' \in [Workers -> SeenState] /\ rollback' = rollback
  <2>1. NothingSeen \in SeenState
    BY DEF NothingSeen, SeenState
  <2>2. \A p \in Publications : [event |-> p, ready |-> AggregateReady(p)] \in SeenState
    BY DEF AggregateReady, SeenState
  <2>3. CASE \E p \in Publications : SelectAggregate(w, p)
    BY <2>2, <2>3 DEF SelectAggregate, ATypes
  <2>4. CASE Claim(w) \/ Deliver(w) \/ NotReady(w) \/ Settle(w) \/ Leave(w)
    BY <2>1, <2>4 DEF Claim, Deliver, NotReady, Settle, Leave, ATypes
  <2>. QED
    BY <1>2, <2>3, <2>4 DEF DeliveryNext
<1>3. \/ \E a \in Admins : RollbackNext(a)
      \/ \E w \in Workers : DeliveryNext(w)
      \/ UNCHANGED <<rollback, seen>>
  BY DEF AnalysisNext, RunNext, StartRun, WriteIssue, FinishRun, Throw, FailRun, Crash,
         Maintain, analysisVars
<1>. QED
  BY <1>1, <1>2, <1>3 DEF ATypes

\* Only a delivery that found its run ready writes a receipt: nobody inserts one
\* by hand here, and no delivered event lacks one for a reconciliation to add.
LEMMA ReceiptOrigin ==
  ASSUME AInv, [AnalysisNext]_analysisVars, NEW p \in Publications, receipt'[p] # receipt[p]
  PROVE  \E w \in Workers : seen[w].event = p /\ seen[w].ready
<1>1. \A q \in Publications : event[q].status = "delivered" => receipt[q] # NoReceipt
  BY AnalysisAssumption DEF AInv, IInv, DeliveredOnEvidence, Unreceipted, NoReceipt
<1>2. ASSUME NEW s \in Sweeps, SweepNext(s)
      PROVE  FALSE
  BY <1>1, <1>2 DEF SweepNext, Inspect, Repair, SweepEnds, Unreceipted
<1>3. ~Maintain
  BY <1>2 DEF Maintain, RecoverExpiredClaims, Tick
<1>4. PICK w \in Workers : Deliver(w)
  BY <1>3 DEF AnalysisNext, RunNext, StartRun, WriteIssue, Enqueue, FinishRun, Throw, FailRun,
         Crash, RollbackNext, RollbackRead, RollbackFallback, RollbackUpdate, DeliveryNext,
         Claim, ClaimDue, SelectAggregate, NotReady, FailRead, Settle, FailWrite, Leave,
         EndBatch, analysisVars
<1>5. seen[w].ready /\ RecordDelivery(w, seen[w].event)
  BY <1>4 DEF Deliver
<1>6. seen[w].event = p
  BY <1>5 DEF RecordDelivery, AInv, IInv, TInv, TypeOK
<1>. QED
  BY <1>5, <1>6

\* A run that is found ready is a success.
LEMMA SeenStep ==
  ASSUME AInv, [AnalysisNext]_analysisVars
  PROVE  SeenPublic'
<1> SUFFICES ASSUME NEW w \in Workers, NEW p \in Publications,
                    seen'[w].event = p, seen'[w].ready
             PROVE  RunOf[p] \in everPublic'
  BY DEF SeenPublic
<1>1. RunOf[p] \in Runs
  BY AnalysisAssumption
<1>2. CASE seen'[w] = seen[w]
  <2>1. RunOf[p] \in everPublic
    BY <1>2 DEF AInv, SeenPublic
  <2>. QED
    BY <2>1, PublicStays DEF AInv
<1>3. CASE seen'[w] # seen[w]
  <2>1. PICK v \in Workers : DeliveryNext(v)
    BY <1>3 DEF AnalysisNext, RunNext, StartRun, WriteIssue, FinishRun, Throw, FailRun, Crash,
           RollbackNext, RollbackRead, RollbackFallback, RollbackUpdate, Maintain, analysisVars
  <2>2. \/ \E q \in Publications : SelectAggregate(v, q)
        \/ seen' = [seen EXCEPT ![v] = NothingSeen]
    BY <1>3, <2>1 DEF DeliveryNext, Claim, Deliver, NotReady, Settle, Leave
  <2>3. PICK q \in Publications : SelectAggregate(v, q)
    BY <1>3, <2>2 DEF NothingSeen, AInv, ATypes
  <2>4. seen'[w] = [event |-> q, ready |-> AggregateReady(q)]
    BY <1>3, <2>3 DEF SelectAggregate, AInv, ATypes
  <2>5. q = p
    BY <2>4
  <2>6. AggregateReady(q)
    <3>1. seen'[w].ready = AggregateReady(q)
      BY <2>4
    <3>. QED
      BY <3>1
  <2>7. RunOf[p] \in everPublic
    BY <1>1, <2>5, <2>6 DEF AggregateReady, AInv, HandlerAgrees
  <2>. QED
    BY <2>7, PublicStays DEF AInv
<1>. QED
  BY <1>2, <1>3

\* The composition starts in the invariant.
LEMMA AnalysisInitInv == AnalysisInit => AInv
<1> SUFFICES ASSUME AnalysisInit PROVE AInv
  OBVIOUS
<1>1. IInv
  BY InitIInv DEF AnalysisInit
<1>2. NoRollback \in RollbackState /\ NothingSeen \in SeenState
  BY DEF NoRollback, RollbackState, NothingSeen, SeenState
<1>3. ATypes
  BY <1>2 DEF AnalysisInit, ATypes, RunStatuses, HandlerStates
<1>4. HandlerAgrees /\ SnapshotWhole
  BY DEF AnalysisInit, HandlerAgrees, SnapshotWhole
<1>5. SeenPublic /\ ReceiptsPublic
  BY DEF AnalysisInit, Init, SeenPublic, ReceiptsPublic, NothingSeen
<1>. QED
  BY <1>1, <1>3, <1>4, <1>5 DEF AInv

\* Every step of the composition keeps the invariant.
LEMMA AnalysisStep == AInv /\ [AnalysisNext]_analysisVars => AInv'
<1> SUFFICES ASSUME AInv, [AnalysisNext]_analysisVars PROVE AInv'
  OBVIOUS
<1>1. [Next]_vars
  BY OutboxStep
<1>2. IInv' /\ \A p \in Publications : RowStep(p)
  BY <1>1, IInvStep, NextStep DEF AInv, IInv
<1>3. ATypes'
  BY RunsMove, CallersStep, PublicStays DEF AInv, ATypes
<1>4. \A r \in Runs : RunStep(r)
  BY RunsMove DEF AInv
<1>5. HandlerAgrees'
  <2>1. \A r \in Runs : run'[r] = "success" => r \in everPublic'
    BY PublicStays DEF AInv, HandlerAgrees
  <2>. QED
    BY <1>4, <2>1 DEF AInv, HandlerAgrees, RunStep
<1>6. SnapshotWhole'
  <2> SUFFICES ASSUME NEW r \in everPublic'
               PROVE  AllWritten(r)'
    BY DEF SnapshotWhole
  <2>1. r \in Runs /\ AllWritten(r)
    BY PublicStays DEF AInv, SnapshotWhole
  <2>. QED
    BY <1>2, <2>1, WrittenStays
<1>7. SeenPublic'
  BY SeenStep
<1>8. ReceiptsPublic'
  <2> SUFFICES ASSUME NEW p \in Publications, receipt'[p] # NoReceipt
               PROVE  RunOf[p] \in everPublic'
    BY DEF ReceiptsPublic
  <2>1. RunOf[p] \in Runs
    BY AnalysisAssumption
  <2>2. RunOf[p] \in everPublic
    <3>1. CASE receipt'[p] = receipt[p]
      BY <3>1 DEF AInv, ReceiptsPublic
    <3>2. CASE receipt'[p] # receipt[p]
      <4>1. PICK w \in Workers : seen[w].event = p /\ seen[w].ready
        BY <3>2, ReceiptOrigin
      <4>. QED
        BY <4>1, OutboxAssumption DEF AInv, SeenPublic
    <3>. QED
      BY <3>1, <3>2
  <2>. QED
    BY <2>2, PublicStays DEF AInv
<1>. QED
  BY <1>2, <1>3, <1>5, <1>6, <1>7, <1>8 DEF AInv

\* The invariant holds in every reachable state.
LEMMA AnalysisInvariance == AnalysisSpec => []AInv
BY AnalysisInitInv, AnalysisStep, PTL DEF AnalysisSpec

----------------------------------------------------------------------------
(* Theorems *)

\* The analyses, rollbacks and delivery loops together use the outbox only through
\* its operations: their composition implements its specification.
THEOREM UsesOutbox == AnalysisSpec => Spec
<1>1. AnalysisInit => Init
  BY DEF AnalysisInit
<1>2. AInv /\ [AnalysisNext]_analysisVars => [Next]_vars
  BY OutboxStep
<1>. QED
  BY <1>1, <1>2, AnalysisInvariance, PTL DEF AnalysisSpec, Spec

\* Tables and callers' records keep their types.
THEOREM AnalysisTypeCorrect == AnalysisSpec => []AnalysisTypeOK
<1>1. AInv => AnalysisTypeOK
  BY DEF AInv, IInv, TInv, ATypes, AnalysisTypeOK
<1>. QED
  BY <1>1, AnalysisInvariance, PTL

\* A snapshot that is or was public holds every issue of its run.
THEOREM PublicSnapshotsWhole == AnalysisSpec => []SnapshotWhole
<1>1. AInv => SnapshotWhole
  BY DEF AInv
<1>. QED
  BY <1>1, AnalysisInvariance, PTL

\* No issue is announced of a run that was never a success.
THEOREM DeliveredOnlyPublic == AnalysisSpec => []DeliveredWasPublic
<1>1. AInv => DeliveredWasPublic
  <2> SUFFICES ASSUME AInv, NEW p \in Publications, event[p].status = "delivered"
               PROVE  RunOf[p] \in everPublic
    BY DEF DeliveredWasPublic
  <2>1. receipt[p] # NoReceipt
    BY AnalysisAssumption DEF AInv, IInv, DeliveredOnEvidence, Unreceipted, NoReceipt
  <2>. QED
    BY <2>1 DEF AInv, ReceiptsPublic
<1>. QED
  BY <1>1, AnalysisInvariance, PTL

\* A run that failed or was rolled back is never public again.
THEOREM EndedRunsStay == AnalysisSpec => EndedStays
<1> DEFINE Stays == \A r \in Runs :
             /\ run[r] = "failed" => run'[r] = "failed"
             /\ run[r] = "rolled_back" => run'[r] \in {"rolled_back", "failed"}
<1>1. AInv /\ [AnalysisNext]_analysisVars => Stays
  <2> SUFFICES ASSUME AInv, [AnalysisNext]_analysisVars, NEW r \in Runs
               PROVE  /\ run[r] = "failed" => run'[r] = "failed"
                      /\ run[r] = "rolled_back" => run'[r] \in {"rolled_back", "failed"}
    OBVIOUS
  <2>1. RunStep(r)
    BY RunsMove DEF AInv
  <2>. QED
    BY <2>1 DEF AInv, HandlerAgrees, RunStep
<1>. QED
  BY <1>1, AnalysisInvariance, PTL DEF AnalysisSpec, EndedStays
============================================================================
