\* Two requests of every kind, strangers' and malformed ones among them;
\* statements fail, deadlines pass, the server crashes.
SPECIFICATION Spec
CONSTANTS
  r1 = r1  r2 = r2  r3 = r3
  n1 = n1  n2 = n2  n3 = n3
  NilID = NilID
  Requests = {r1, r2}
  NoteIDs <- MCNoteIDs
  Owners = {1, 2}
  RawTags <- MCRawTags
  Norm <- MCNorm
  Bodies <- OldBodies
  MaxTags = 2
  Calls <- FaultCalls
  InitialStores <- BothNotes
  MaxConns = 2
  Faults = TRUE
INVARIANTS RefusedMeansUnchanged OnlyOwnerReads
PROPERTIES OnlyOwnerWrites ImplementsStore
