---------------------------- MODULE JobLifecycle ----------------------------
(***************************************************************************)
(* What the job queue promises to those who enqueue jobs and to those who  *)
(* run them, with no lease, no clock and no identifiers: each job is tried *)
(* at most MaxAttempts times, is given up only when its tries are spent,   *)
(* and leaves a settled phase only by a redrive, which resets its tries.   *)
(***************************************************************************)
EXTENDS Naturals

CONSTANTS Jobs, MaxAttempts

VARIABLES phase, tries

Phases == {"absent", "waiting", "running", "succeeded", "dead", "cancelled"}

Init == phase = [j \in Jobs |-> "absent"] /\ tries = [j \in Jobs |-> 0]

\* Job j goes from phase p to phase q
Goes(j, p, q) == phase[j] = p /\ phase'[j] = q
Keeps(j)      == tries'[j] = tries[j]

Submit(j)  == Goes(j, "absent", "waiting") /\ Keeps(j)
Try(j)     == /\ Goes(j, "waiting", "running") \/ Goes(j, "running", "running")
              /\ tries[j] < MaxAttempts[j] /\ tries'[j] = tries[j] + 1
Retry(j)   == Goes(j, "running", "waiting") /\ tries[j] < MaxAttempts[j] /\ Keeps(j)
Succeed(j) == Goes(j, "running", "succeeded") /\ Keeps(j)
GiveUp(j)  == Goes(j, "running", "dead") /\ tries[j] = MaxAttempts[j] /\ Keeps(j)
Cancel(j)  == /\ Goes(j, "waiting", "cancelled") \/ Goes(j, "running", "cancelled")
              /\ Keeps(j)
Redrive(j) == Goes(j, "dead", "waiting") /\ tries'[j] = 0
Stays(j)   == phase'[j] = phase[j] /\ Keeps(j)

JobStep(j) ==
  \/ Submit(j) \/ Try(j) \/ Retry(j) \/ Succeed(j)
  \/ GiveUp(j) \/ Cancel(j) \/ Redrive(j) \/ Stays(j)

\* A recovery moves several jobs at once, so the jobs step together.
Next == \A j \in Jobs : JobStep(j)

Spec == Init /\ [][Next]_<<phase, tries>>
=============================================================================
