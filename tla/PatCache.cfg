\* Calls with two tokens, or two with one, overlap their issue and revocation;
\* the service may never answer.  The clock stops at MaxTime, and calls with it.
SPECIFICATION FairSpec
CONSTANTS
  c1 = c1  c2 = c2  p1 = p1  p2 = p2
  NoToken = NoToken
  Callers = {c1, c2}
  Pats = {p1, p2}
  Headers <- OneOrBoth
  Holder <- TwoHolders
  TTL = 1
  Timeout = 1
  MaxTime = 3
CHECK_DEADLOCK FALSE
INVARIANTS VInv RevocationBound NoFalseRefusal
PROPERTIES AllVerified
