SPECIFICATION FairSpec
CONSTANTS
  Sockets = {s1, s2, s3}
  MaxTime = 2
  Amounts <- PlusMinus
  MaxEvents = 4
  NULL = NULL
INVARIANTS ButtonTrue FramesTile ChartExact AmountsConserved
PROPERTY ButtonComesBack
CHECK_DEADLOCK FALSE
