------------------------------ MODULE MCMarking ------------------------------
\* Instances of the marking.
EXTENDS Marking, TLC

CONSTANTS t1, t2, t3

\* Objects with two fields each.
MCObjectFields == [b \in Block |-> 2]
MCSymmetry == Permutations(Thread)

=============================================================================
