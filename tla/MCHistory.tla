----------------------------- MODULE MCHistory -----------------------------
(* Two collectors of a cluster of up to three nodes.                        *)
EXTENDS History

CONSTANTS c1, c2

\* The collectors run the same code.
MCSymmetry == Permutations({c1, c2})

\* Node 1 comes first by name: adding it moves the reader there is.
MCTopologies == {[writer |-> 2, readers |-> {3}]}
=============================================================================
