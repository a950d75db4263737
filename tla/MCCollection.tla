---------------------------- MODULE MCCollection ----------------------------
(* Constants for the checks of Collection. *)
EXTENDS Collection, TLC

CONSTANTS a1, a2, s1, s2

\* a1 comes from a feed that defers the section to the page
OneSource == [a \in Articles |-> s1]
Deferred  == [a \in Articles |-> IF a = a1 THEN "pending" ELSE "decided"]
AnyPage   == [a \in Articles |-> {"decided", "excluded", "none"}]
\* no page is out of scope
InScope   == [a \in Articles |-> {"decided", "none"}]
Symmetry   == Permutations(Runs)
=============================================================================
