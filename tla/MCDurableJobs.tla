--------------------------- MODULE MCDurableJobs ---------------------------
(* Constants for the checks of DurableJobs. *)
EXTENDS DurableJobs, TLC

\* Overlapping runs of one minute share an owner (operations.mjs:196).
SharedOwner  == [w \in Workers |-> CHOOSE o \in Owners : TRUE]
SamePriority == [j \in Jobs |-> 0]
TwoAttempts  == [j \in Jobs |-> 2]
OneAttempt   == [j \in Jobs |-> 1]
\* One job ahead of the others
OneUrgent    == [j \in Jobs |-> IF j = CHOOSE k \in Jobs : TRUE THEN 1 ELSE 0]

\* The second job is tried once.
TwoThenOne   == [j \in Jobs |-> IF OneUrgent[j] = 1 THEN 1 ELSE 2]

\* Bound of a run: one job among all callers, or both jobs, one recovery
\* and workers whose clocks agree.
Arrived == {j \in Jobs : job[j].status # "absent"}
Crowd ==
  \/ \E j \in Jobs : Arrived \subseteq {j} /\ MaxAttempts[j] > 1
  \/ /\ Cardinality({r \in Recoverers : recovery[r] # NoRecovery}) <= 1
     /\ \A a \in Admins : redrive[a] = NoRedrive
     /\ \A w \in Workers : worker[w].now = 0
     /\ \A j \in Jobs : job[j].checkpointVersion = 0

Symmetry == Permutations(Letters) \cup Permutations(Workers)
              \cup Permutations(Recoverers) \cup Permutations(Admins)
============================================================================
