SPECIFICATION Spec

CONSTANT N = 4

INVARIANTS
  ValidIffAcyclic
  FindsDownstream
  FindsBlocked

\* The service starts, or answers, and that is all.
CHECK_DEADLOCK FALSE
