\* A mint fails.
\* The last JWT has been issued: what waits for another one stops.
SPECIFICATION Spec
CONSTANTS
  r1 = r1  m1 = m1  m2 = m2
  Rpcs = {r1}
  Mints = {m1, m2}
  MaxMinted = 2
  Faults = TRUE
CHECK_DEADLOCK FALSE
INVARIANTS RenewalScheduled
