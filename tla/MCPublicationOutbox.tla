------------------------ MODULE MCPublicationOutbox ------------------------
(* Constants for the checks of PublicationOutbox. *)
EXTENDS PublicationOutbox, TLC

CONSTANTS p1, p2, p3

\* Overlapping runs of one minute share a worker id (operations.mjs:196).
SharedId == [w \in Workers |-> CHOOSE i \in Ids : TRUE]
\* p3 repeats the aggregate version of p2 under another key
OwnKeys     == [p \in Publications |-> p]
SameVersion == [p \in Publications |-> IF p = p3 THEN p2 ELSE p]

Symmetry == Permutations(Workers) \cup Permutations(Sweeps)
============================================================================
