------------------------- MODULE PublicationPromise -------------------------
(***************************************************************************)
(* What the publication outbox promises to the analysis that writes into   *)
(* it: of publications that clash one at most is ever owed; an owed one is *)
(* attempted at most MaxAttempts times and never after it was published;   *)
(* and what is published stays published.                                  *)
(***************************************************************************)
EXTENDS Naturals

CONSTANTS Publications, KeyOf, VersionOf, MaxAttempts

VARIABLES phase, tries

Phases == {"absent", "owed", "published", "abandoned"}

Init == phase = [p \in Publications |-> "absent"] /\ tries = [p \in Publications |-> 0]

Clash(p, q) == KeyOf[p] = KeyOf[q] \/ VersionOf[p] = VersionOf[q]
Goes(p, from, to) == phase[p] = from /\ phase'[p] = to
Keeps(p)          == tries'[p] = tries[p]

Request(p) == /\ Goes(p, "absent", "owed") /\ Keeps(p)
              /\ \A q \in Publications \ {p} : Clash(p, q) => phase'[q] = "absent"
Attempt(p) == /\ Goes(p, "owed", "owed")
              /\ tries[p] < MaxAttempts /\ tries'[p] = tries[p] + 1
Publish(p) == (Goes(p, "owed", "published") \/ Goes(p, "abandoned", "published")) /\ Keeps(p)
Abandon(p) == Goes(p, "owed", "abandoned") /\ tries[p] > 0 /\ Keeps(p)
Stays(p)   == phase'[p] = phase[p] /\ Keeps(p)

\* A claim, a recovery or a reconciliation moves several publications at once.
Next == \A p \in Publications :
          Request(p) \/ Attempt(p) \/ Publish(p) \/ Abandon(p) \/ Stays(p)

Spec == Init /\ [][Next]_<<phase, tries>>
=============================================================================
