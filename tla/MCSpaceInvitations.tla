------------------------- MODULE MCSpaceInvitations ------------------------
EXTENDS SpaceInvitations, TLC

CONSTANTS ana, beto, caio, k1, k2, q1, q2

MCPersons  == {ana, beto, caio}
MCKeys     == {k1, k2}
MCOneKey   == {k1}
MCRequests == {q1, q2}
MCSymmetry == Permutations({beto, caio}) \cup Permutations(MCKeys)
                 \cup Permutations(MCRequests)
=============================================================================
