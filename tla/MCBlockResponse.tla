-------------------------- MODULE MCBlockResponse --------------------------
EXTENDS BlockInvariants, TLC

CONSTANTS d1, d2, w1, o1, a1

AllCallers == Detectors \cup Workers \cup Operators \cup Admins

\* One process runs the monitor's threads; d2 is a "detect --apply-response".
Monitor == {(Detectors \cup Workers) \ {d2}}
MonitorAndCommand == Monitor \cup {{d2}}

RowSymmetry == Permutations(Blocks)
=============================================================================
