------------------------------- MODULE Sorting -------------------------------
(***************************************************************************)
(* Python's sorted: the elements of a sequence in their order, and those   *)
(* that are equal in it in the order of the sequence.                      *)
(***************************************************************************)
EXTENDS Naturals, Sequences, FiniteSets

\* before holds the pairs of elements that are in order.  An element's place is
\* how many come before it, and one.
Sorted(s, before) ==
    LET Precedes(k, m) ==
            <<s[k], s[m]>> \in before \/ (<<s[m], s[k]>> \notin before /\ k < m)
        Place(m) == Cardinality({k \in DOMAIN s : Precedes(k, m)}) + 1
    IN  [n \in DOMAIN s |-> s[CHOOSE m \in DOMAIN s : Place(m) = n]]

=============================================================================
