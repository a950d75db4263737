----------------------------- MODULE MCSettling -----------------------------
(* Liveness of the job queue and of the outbox, each alone in its scene: the *)
(* fairness of a queue is owed only where it runs.                           *)
EXTENDS MCDurableJobs

CONSTANTS Publications, Couriers, Sweeps, Batch

VARIABLES scene, event, receipt, courier, sweep

outboxVars == <<event, receipt, courier, sweep>>

\* Overlapping runs of one minute share an id; an operator acknowledges one event by hand.
Hand == CHOOSE p \in Publications : TRUE
Outbox == INSTANCE PublicationOutbox WITH
  worker <- courier, Workers <- Couriers, WorkerIdOf <- [w \in Couriers |-> "minute"],
  Ids <- {"minute"}, Tokens <- 1 .. 4,
  KeyOf <- [p \in Publications |-> p], VersionOf <- [p \in Publications |-> p],
  BaseBackoffMs <- 1, MaxBackoffMs <- 1, MaxAttempts <- 2, Limit <- Batch,
  HandReceipts <- {Hand}, HandMatches <- {TRUE}, HandDelivered <- {}

SettlingInit == scene \in {"jobs", "outbox"} /\ Init /\ Outbox!Init
JobsScene    == scene = "jobs" /\ Next /\ UNCHANGED <<scene, outboxVars>>
OutboxScene  == scene = "outbox" /\ Outbox!Next /\ UNCHANGED <<scene, vars>>

SettlingSpec ==
  /\ SettlingInit /\ [][JobsScene \/ OutboxScene]_<<scene, vars, outboxVars>>
  /\ scene = "jobs" => Fairness
  /\ scene = "outbox" => Outbox!Fairness

\* PublicationOutbox's EveryEventSettles: an event that is owed is delivered or given up.
EveryEventSettles == scene = "outbox" => Outbox!EveryEventSettles
=============================================================================
