\* An UpdateNote empties the body; nothing fails.
SPECIFICATION Spec
CONSTANTS
  r1 = r1  r2 = r2  r3 = r3
  n1 = n1  n2 = n2  n3 = n3
  NilID = NilID
  Requests = {r1, r2, r3}
  NoteIDs <- MCNoteIDs
  Owners = {1, 2}
  RawTags <- MCRawTags
  Norm <- MCNorm
  Bodies <- OldBodies
  MaxTags = 2
  Calls <- EmptyBodyCalls
  InitialStores <- JustOneNote
  MaxConns = 3
  Faults = FALSE
INVARIANTS EmptyBodyAllowed
