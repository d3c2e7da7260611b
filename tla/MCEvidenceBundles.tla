-------------------------- MODULE MCEvidenceBundles ---------------------------
(* Finite instances of EvidenceBundles.                                      *)
EXTENDS EvidenceBundles, TLC

CONSTANTS
    b1, e1, e2, p1, p2,
    MaxInvoked   \* bound: exporters and pruners started

Invoked == {e \in Exporters : pc[e] # "ready"} \cup {p \in Pruners : prune[p] # "ready"}

\* Two pruners meet only on one directory, and two are started only where the saver
\* is done before an export begins.
TwoPrune == \A b \in Bundles : Kinds[kind[b]].xport.looks

MCInit ==
    /\ Init
    /\ \E e \in Exporters : \A p \in Pruners : name[p] = Out(e)
    /\ ~TwoPrune => \A p, q \in Pruners : keep[p] = keep[q]
MCNext ==
    /\ Next
    /\ Cardinality(Invoked') <= MaxInvoked
    /\ Cardinality(Invoked' \cap Pruners) > 1 => TwoPrune
MCSpec == MCInit /\ [][MCNext]_vars

MCSymmetry == Permutations(Exporters) \cup Permutations(Pruners)
=============================================================================
