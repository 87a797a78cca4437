---------------------------- MODULE MCCoalescing ----------------------------
(* Instances of Coalescing for TLC. *)
EXTENDS Coalescing, TLC

CONSTANTS m1, m2, m3,    \* requests
          k1,            \* their queue key
          none

MCTwoMembers   == {m1, m2}
MCThreeMembers == {m1, m2, m3}
MCKey          == {k1}
MCKeyOf        == [m \in Member |-> k1]
MCSizes        == {1, 2}

MCSymmetry == Permutations(Member)
=============================================================================
