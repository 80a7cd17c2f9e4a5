\* An RPC overlaps re-mints, sign-outs and failures; JWTs run out.
\* The last JWT has been issued: what waits for another one stops.
SPECIFICATION FairSpec
CONSTANTS
  r1 = r1  m1 = m1  m2 = m2
  Rpcs = {r1}
  Mints = {m1, m2}
  MaxMinted = 3
  Faults = TRUE
CHECK_DEADLOCK FALSE
INVARIANTS SessionInv OneTimer CarriedOutOnce
PROPERTIES OneRetry EndNoticed
