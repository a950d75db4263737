------------------------- MODULE PublicationOutbox -------------------------
(***************************************************************************)
(* The transactional outbox of site/worker/publication-outbox.mjs for one  *)
(* destination: events claimed in batches under a token and a lease,       *)
(* acknowledged by an immutable receipt, retried with back-off, recovered  *)
(* when a claim expires, and reconciled when events and receipts disagree. *)
(*                                                                         *)
(* One D1 statement or db.batch is one atomic step.  markFailure (SELECT,  *)
(* then UPDATE) and reconcile (an inspecting batch, then a repairing one)  *)
(* are two steps each.  Time is kept as in DurableJobs: stamps relative to *)
(* the present, kept at Floor once every caller sees them as past.         *)
(***************************************************************************)
EXTENDS Integers, FiniteSets

CONSTANTS
  Publications,  \* what may be enqueued: key, aggregate version and payload
  KeyOf,         \* idempotency_key of each publication
  VersionOf,     \* aggregate (type, id, version) of each publication
  Workers,       \* callers of claimDue and of the delivery operations
  WorkerIdOf,    \* the workerId each of them passes; it need not be unique
  Sweeps,        \* callers of reconcile
  Ids, Tokens,   \* values of claimed_by and of claim_token
  Null,
  LeaseMs, BaseBackoffMs, MaxBackoffMs, MaxAttempts,
  Limit,         \* LIMIT of a claim
  HandReceipts,  \* publications whose receipt an operator may insert
  HandMatches,   \* whether such a receipt carries the event's own payload hash
  HandDelivered, \* publications an operator may mark delivered
  Lag            \* bound: ticks from reading the clock to the statement

ASSUME OutboxAssumption ==
  /\ WorkerIdOf \in [Workers -> Ids]
  /\ LeaseMs \in Nat /\ BaseBackoffMs \in Nat /\ MaxBackoffMs \in Nat
  /\ MaxAttempts \in Nat \ {0} /\ Limit \in Nat \ {0} /\ Lag \in Nat
  /\ Lag < LeaseMs
  /\ HandReceipts \subseteq Publications /\ HandDelivered \subseteq Publications
  /\ HandMatches \subseteq BOOLEAN
  /\ Null \notin Publications \cup Ids \cup Tokens

VARIABLES
  event,    \* publication_outbox_events
  receipt,  \* publication_delivery_receipts, by the event they acknowledge
  worker,   \* what each worker remembers of its claim
  sweep     \* what each reconciliation has read

vars == <<event, receipt, worker, sweep>>

----------------------------------------------------------------------------
(* State *)

Floor    == -Lag
Readings == Floor..0
Stamps   == Floor..(LeaseMs + MaxBackoffMs)
Aged(t)  == IF t > Floor THEN t - 1 ELSE Floor

\* base * 2^(attempt - 1), capped
Backoff(attempt) ==
  LET delay == BaseBackoffMs * 2^(attempt - 1)
  IN  IF delay \in 0..MaxBackoffMs THEN delay ELSE MaxBackoffMs

Statuses == {"absent", "pending", "claimed", "delivered", "terminal"}
\* Floor stands for the NULL of lease_expires_at, read only while claimed.
EventRow == [status : Statuses, attempts : Nat, availableAt : Stamps,
             token : Tokens \cup {Null}, claimedBy : Ids \cup {Null},
             leaseExpiresAt : Stamps]
NoEvent  == [status |-> "absent", attempts |-> 0, availableAt |-> Floor,
             token |-> Null, claimedBy |-> Null, leaseExpiresAt |-> Floor]

\* token   : Null stands for a token no worker holds
\* matches : the receipt names the destination, key and payload hash of its event
ReceiptRow == [source : {"delivery", "reconciled"}, token : Tokens \cup {Null},
               matches : BOOLEAN]
NoReceipt  == [source |-> "none", token |-> Null, matches |-> FALSE]
Unreceipted(p) == receipt[p] = NoReceipt

\* failing : markFailure has read the claim of `failed` and not yet written
WorkerState == [mode : {"idle", "working", "failing"}, token : Tokens \cup {Null},
                batch : SUBSET Publications, failed : Publications \cup {Null},
                attempts : Nat, now : Readings, retryable : BOOLEAN]
Idle == [mode |-> "idle", token |-> Null, batch |-> {}, failed |-> Null,
         attempts |-> 0, now |-> 0, retryable |-> TRUE]
Holding(token, batch) ==
  [mode |-> "working", token |-> token, batch |-> batch, failed |-> Null,
   attempts |-> 0, now |-> 0, retryable |-> TRUE]

\* missing : the delivered events without a receipt the inspection returned
SweepState == [active : BOOLEAN, missing : SUBSET Publications]
NoSweep    == [active |-> FALSE, missing |-> {}]

Init ==
  /\ event = [p \in Publications |-> NoEvent]
  /\ receipt = [p \in Publications |-> NoReceipt]
  /\ worker = [w \in Workers |-> Idle]
  /\ sweep = [s \in Sweeps |-> NoSweep]

----------------------------------------------------------------------------
(* The predicates of the SQL statements *)

\* Fault: only the idempotency key is unique.
SameKey(p, q) == KeyOf[p] = KeyOf[q]
Clash(p, q) == KeyOf[p] = KeyOf[q] \/ VersionOf[p] = VersionOf[q]

\* Fault: the worker id alone identifies the claim.
OwnerIsCurrent(w, p, now) ==
  /\ event[p].status = "claimed"
  /\ event[p].claimedBy = WorkerIdOf[w]
  /\ event[p].leaseExpiresAt > now

ClaimIsCurrent(w, p, now) ==
  /\ event[p].status = "claimed"
  /\ event[p].claimedBy = WorkerIdOf[w]
  /\ event[p].token = worker[w].token
  /\ event[p].leaseExpiresAt > now

\* Fault: an acknowledged event may be sent again.
DueAnyway(now) ==
  {p \in Publications : event[p].status = "pending" /\ event[p].availableAt <= now}
Due(now) ==
  {p \in Publications : /\ event[p].status = "pending"
                        /\ event[p].availableAt <= now
                        /\ Unreceipted(p)}

\* Fault: the recovery takes every claim.
AnyClaim(now) ==
  {p \in Publications : event[p].status = "claimed" /\ Unreceipted(p)}
Expired(now) ==
  {p \in Publications : /\ event[p].status = "claimed"
                        /\ event[p].leaseExpiresAt <= now
                        /\ Unreceipted(p)}

\* The rows a LIMITed, oldest-first SELECT returns; ties are broken by columns left out
Oldest(batch, due) ==
  /\ batch \subseteq due /\ batch # {}
  /\ batch = due \/ Cardinality(batch) = Limit
  /\ Cardinality(batch) <= Limit
  /\ \A p \in batch, q \in due \ batch : event[p].availableAt <= event[q].availableAt

\* A generated token is never one in use.
FreshTokens ==
  {t \in Tokens : /\ \A p \in Publications : event[p].token # t /\ receipt[p].token # t
                  /\ \A w \in Workers : worker[w].token # t}
\* Fault: every claim gets the same token.
OneToken == CHOOSE t \in Tokens : TRUE
NewToken == CHOOSE t \in FreshTokens : TRUE

\* Fault: the attempt that has just failed is not counted.
SpentLate(attempts) == attempts > MaxAttempts
Spent(attempts) == attempts >= MaxAttempts

\* Fault: the claim columns are not cleared.
KeptClaim(row, status) == [row EXCEPT !.status = status]
Released(row, status) ==
  [row EXCEPT !.status = status, !.token = Null, !.claimedBy = Null,
              !.leaseExpiresAt = Floor]
Claimed(row, id, token, now) ==
  [row EXCEPT !.status = "claimed", !.attempts = row.attempts + 1, !.token = token,
              !.claimedBy = id, !.leaseExpiresAt = now + LeaseMs]
Postponed(row, at) == [Released(row, "pending") EXCEPT !.availableAt = at]
GivenUp(row, at)   == [Released(row, "terminal") EXCEPT !.availableAt = at]
Enqueued(at)       == [NoEvent EXCEPT !.status = "pending", !.availableAt = at]

----------------------------------------------------------------------------
(* Enqueueing and delivering *)

\* INSERT ... ON CONFLICT DO NOTHING.  An enqueue of an equal or a clashing
\* publication inserts nothing and is a stutter.
Enqueue(p) ==
  /\ \A q \in Publications : Clash(p, q) => event[q].status = "absent"
  /\ event[p].status = "absent"
  /\ \E at \in Readings : event' = [event EXCEPT ![p] = Enqueued(at)]
  /\ UNCHANGED <<receipt, worker, sweep>>

ClaimDue(w) ==
  /\ worker[w].mode = "idle"
  /\ FreshTokens # {}
  /\ \E now \in Readings : \E batch \in SUBSET Due(now) :
       /\ Oldest(batch, Due(now))
       /\ event' = [p \in Publications |->
            IF p \in batch THEN Claimed(event[p], WorkerIdOf[w], NewToken, now)
                           ELSE event[p]]
       /\ worker' = [worker EXCEPT ![w] = Holding(NewToken, batch)]
  /\ UNCHANGED <<receipt, sweep>>

\* Fault: the first answer ends the batch.
DoneWithAll(w, p) ==
  worker' = [worker EXCEPT ![w] = Holding(worker[w].token, {})]
\* The worker is done with p
Done(w, p) ==
  worker' = [worker EXCEPT ![w] = Holding(worker[w].token, worker[w].batch \ {p})]

\* Fault: any receipt of the event acknowledges it.
AnyReceipt(r) == r # NoReceipt
Acknowledges(r) == r # NoReceipt /\ r.matches

\* Insert the receipt unless there is one, then mark the event delivered if its
\* receipt matches.  When the answer is lost the worker still has p to deliver.
RecordDelivery(w, p) ==
  /\ worker[w].mode = "working" /\ p \in worker[w].batch
  /\ \E now \in Readings : ClaimIsCurrent(w, p, now)
  /\ LET r == IF Unreceipted(p)
              THEN [source |-> "delivery", token |-> event[p].token, matches |-> TRUE]
              ELSE receipt[p]
     IN  /\ Acknowledges(r)
         /\ receipt' = [receipt EXCEPT ![p] = r]
         /\ event' = [event EXCEPT ![p] = Released(event[p], "delivered")]
  /\ Done(w, p) \/ UNCHANGED worker
  /\ UNCHANGED sweep

\* The call is repeated under the claim its receipt was written with.
RecordAgain(w, p) ==
  /\ worker[w].mode = "working" /\ p \in worker[w].batch
  /\ event[p].status = "delivered"
  /\ Acknowledges(receipt[p])
  /\ receipt[p].source = "delivery" /\ receipt[p].token = worker[w].token
  /\ Done(w, p)
  /\ UNCHANGED <<event, receipt, sweep>>

\* The batch ends: a call threw, nothing is left, or the invocation was killed.
EndBatch(w) ==
  /\ worker[w].mode # "idle"
  /\ worker' = [worker EXCEPT ![w] = Idle]
  /\ UNCHANGED <<event, receipt, sweep>>

----------------------------------------------------------------------------
(* markFailure: the SELECT of the claim, then one guarded UPDATE *)

FailRead(w, p) ==
  /\ worker[w].mode = "working" /\ p \in worker[w].batch
  /\ \E now \in Readings, retryable \in BOOLEAN :
       /\ ClaimIsCurrent(w, p, now)
       /\ worker' = [worker EXCEPT ![w] =
            [worker[w] EXCEPT !.mode = "failing", !.failed = p, !.now = now,
                              !.attempts = event[p].attempts, !.retryable = retryable]]
  /\ UNCHANGED <<event, receipt, sweep>>

FailWrite(w) ==
  LET p == worker[w].failed
      view == worker[w]
  IN  /\ view.mode = "failing"
      /\ ClaimIsCurrent(w, p, view.now)
      /\ event[p].attempts = view.attempts
      /\ event' = [event EXCEPT ![p] =
           IF ~view.retryable \/ Spent(view.attempts)
           THEN GivenUp(event[p], view.now)
           ELSE Postponed(event[p], view.now + Backoff(view.attempts))]
      /\ Done(w, p)
      /\ UNCHANGED <<receipt, sweep>>

----------------------------------------------------------------------------
(* Recovery and reconciliation *)

RecoverExpiredClaims ==
  /\ \E now \in Readings :
       /\ Expired(now) # {}
       /\ event' = [p \in Publications |->
            IF p \notin Expired(now)       THEN event[p]
            ELSE IF Spent(event[p].attempts) THEN GivenUp(event[p], now)
            ELSE Postponed(event[p], now)]
  /\ UNCHANGED <<receipt, worker, sweep>>

\* A receipt that does not match its event ends the call with a conflict; the
\* call changes nothing and is a stutter.
Inspect(s) ==
  /\ ~sweep[s].active
  /\ \A p \in Publications : ~Unreceipted(p) => receipt[p].matches
  /\ sweep' = [sweep EXCEPT ![s] =
       [active |-> TRUE,
        missing |-> {p \in Publications : event[p].status = "delivered" /\ Unreceipted(p)}]]
  /\ UNCHANGED <<event, receipt, worker>>

Open == {"pending", "claimed", "terminal"}
\* Fault: a claimed event is left to its worker and to the recovery.
OpenUnclaimed == {"pending", "terminal"}
\* The statuses a repair overrides when there is a receipt
Repairable == Open

Reconciled == [source |-> "reconciled", token |-> Null, matches |-> TRUE]

\* One batch: the missing receipts, then the events their receipt acknowledges
Repair(s) ==
  /\ sweep[s].active
  /\ receipt' = [p \in Publications |->
       IF /\ p \in sweep[s].missing
          /\ event[p].status = "delivered"
          /\ Unreceipted(p)
       THEN Reconciled ELSE receipt[p]]
  /\ event' = [p \in Publications |->
       IF event[p].status \in Repairable /\ Acknowledges(receipt[p])
       THEN Released(event[p], "delivered") ELSE event[p]]
  /\ sweep' = [sweep EXCEPT ![s] = NoSweep]
  /\ UNCHANGED worker

SweepEnds(s) ==
  /\ sweep[s].active
  /\ sweep' = [sweep EXCEPT ![s] = NoSweep]
  /\ UNCHANGED <<event, receipt, worker>>

----------------------------------------------------------------------------
(* The two disagreements reconciliation repairs, as an operator (or a restore *)
(* of one table) leaves them; the drifted receipt is the one it refuses.      *)

InsertReceipt(p) ==
  /\ p \in HandReceipts
  /\ event[p].status \in Open /\ Unreceipted(p)
  /\ \E matches \in HandMatches :
       receipt' = [receipt EXCEPT ![p] =
         [source |-> "delivery", token |-> Null, matches |-> matches]]
  /\ UNCHANGED <<event, worker, sweep>>

MarkDelivered(p) ==
  /\ p \in HandDelivered
  /\ event[p].status \in Open /\ Unreceipted(p)
  /\ event' = [event EXCEPT ![p] = Released(event[p], "delivered")]
  /\ UNCHANGED <<receipt, worker, sweep>>

----------------------------------------------------------------------------
Tick ==
  /\ \A w \in Workers : worker[w].mode = "failing" => worker[w].now > Floor
  /\ event' = [p \in Publications |->
       [event[p] EXCEPT !.availableAt = Aged(event[p].availableAt),
                        !.leaseExpiresAt = Aged(event[p].leaseExpiresAt)]]
  /\ worker' = [w \in Workers |->
       IF worker[w].mode = "failing"
       THEN [worker[w] EXCEPT !.now = worker[w].now - 1] ELSE worker[w]]
  /\ UNCHANGED <<receipt, sweep>>

WorkerNext(w) ==
  \/ ClaimDue(w) \/ EndBatch(w) \/ FailWrite(w)
  \/ \E p \in Publications : RecordDelivery(w, p) \/ RecordAgain(w, p) \/ FailRead(w, p)
SweepNext(s) == Inspect(s) \/ Repair(s) \/ SweepEnds(s)

Next ==
  \/ \E p \in Publications : Enqueue(p) \/ InsertReceipt(p) \/ MarkDelivered(p)
  \/ \E w \in Workers : WorkerNext(w)
  \/ \E s \in Sweeps : SweepNext(s)
  \/ RecoverExpiredClaims
  \/ Tick

Spec == Init /\ [][Next]_vars

\* Time passes; scheduled runs keep claiming, recovering and reconciling; a run
\* ends, if only because it is killed; and not every reconciliation dies between
\* its two batches.  Nothing obliges a worker to succeed.
Fairness ==
  /\ WF_vars(Tick) /\ WF_vars(RecoverExpiredClaims)
  /\ \A w \in Workers : WF_vars(ClaimDue(w)) /\ WF_vars(EndBatch(w))
  /\ \A s \in Sweeps : WF_vars(Inspect(s)) /\ SF_vars(Repair(s))

FairSpec == Spec /\ Fairness
----------------------------------------------------------------------------
(* Properties *)

\* Every row has its type and the claim columns are set exactly while the event
\* is claimed (the CHECK of the schema, lines 90-94).
TypeOK ==
  /\ event \in [Publications -> EventRow]
  /\ receipt \in [Publications -> ReceiptRow \cup {NoReceipt}]
  /\ worker \in [Workers -> WorkerState]
  /\ sweep \in [Sweeps -> SweepState]
  /\ \A p \in Publications : /\ event[p].status = "claimed" <=> event[p].token # Null
                             /\ event[p].status = "claimed" <=> event[p].claimedBy # Null

\* A delivered event has a receipt that matches it, and only an event marked
\* by an operator can lack one; a receipt that drifted never settles its event,
\* whichever of the worker, the recovery and the reconciliation meets it.
DeliveredOnEvidence ==
  \A p \in Publications :
    /\ event[p].status = "delivered" =>
         receipt[p].matches \/ (Unreceipted(p) /\ p \in HandDelivered)
    /\ receipt[p].source = "reconciled" => event[p].status = "delivered"

\* An event that waits has an attempt left: neither a failure nor an expired
\* claim leaves an event pending that the budget forbids to send.
WaitingHasBudget ==
  \A p \in Publications :
    /\ event[p].status = "pending" => event[p].attempts < MaxAttempts
    /\ event[p].status = "claimed" => event[p].attempts \in 1..MaxAttempts

\* A claimed event is held by one worker at most: the token it is claimed under
\* is known to no other worker, and the worker that knows it has the event
\* still to settle.
OneHolder ==
  \A p \in Publications, w \in Workers :
    event[p].status = "claimed" /\ worker[w].token = event[p].token =>
      /\ p \in worker[w].batch
      /\ \A v \in Workers : worker[v].token = worker[w].token => v = w

\* A worker is told that its delivery was recorded only if the receipt names its
\* own claim (or came from an operator): a worker whose claim was taken over is
\* never told that the other worker's delivery was its own.
SuccessIsOwn ==
  [][\A w \in Workers : \A p \in worker[w].batch :
       p \notin worker'[w].batch /\ worker'[w].token = worker[w].token
         /\ event'[p].status = "delivered"
       => receipt'[p].token \in {worker[w].token, Null}]_vars

\* Before its lease is over a claim is ended only by its own worker, unless a
\* receipt or an operator settles the event.
ClaimHonoured ==
  [][\A p \in Publications :
       event[p].status = "claimed" /\ event[p].leaseExpiresAt > 0
         /\ event'[p].token # event[p].token
       => \/ event'[p].status = "delivered"
          \/ \E w \in Workers : worker[w].token = event[p].token
                                  /\ worker'[w] # worker[w]]_vars

\* The outbox implements the promise: an event counts as published as soon as
\* a receipt acknowledges it, although its row may still be open.
Published(p) == event[p].status = "delivered" \/ receipt[p].matches
PhaseOf(p) == CASE event[p].status = "absent"   -> "absent"
                [] Published(p)                 -> "published"
                [] event[p].status = "terminal" /\ ~Published(p) -> "abandoned"
                [] OTHER                        -> "owed"
Promise == INSTANCE PublicationPromise WITH
             phase <- [p \in Publications |-> PhaseOf(p)],
             tries <- [p \in Publications |-> event[p].attempts]
KeepsPromise == Promise!Spec

\* Every event is settled in the end, whoever dies on the way; events whose
\* receipt arrived by another road are settled by the reconciliation.
Settled(p) == event[p].status \in {"delivered", "terminal"}
EveryEventSettles ==
  \A p \in Publications : event[p].status # "absent" ~> Settled(p)
============================================================================
