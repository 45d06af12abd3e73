CONSTANTS
  Root = root
  Children = {c1}
  Keys = {k1, k2}
  MaxRequests = 2
SPECIFICATION FairSpec
INVARIANTS TypeOK ConsentIsExplicit
PROPERTY CancelEndsTheWait
\* The user may stop.
CHECK_DEADLOCK FALSE
