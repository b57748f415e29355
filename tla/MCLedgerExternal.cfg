\* One process that ends between confirming an eSIM operation and removing
\* its receipt.
SPECIFICATION Spec
CONSTANTS
  Servers = {s1}
  Recoverers = {r1}
  Nobody = Nobody
INVARIANTS
  ConfirmedIsRecoverable
CHECK_DEADLOCK FALSE
