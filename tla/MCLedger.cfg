\* Three process lives and two recovery runs on one device, without
\* symmetry, for liveness.
SPECIFICATION FairSpec
CONSTANTS
  Servers = {s1, s2, s3}
  Recoverers = {r1, r2}
  Nobody = Nobody
INVARIANTS
  NothingForgotten
  SingleHolder
  LeaseCovered
PROPERTIES
  NoBlindClose
  RetiredWithEvidence
  OperationEnds
\* Every process may have ended.
CHECK_DEADLOCK FALSE
