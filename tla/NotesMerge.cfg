\* An AddTags overlaps an UpdateNote that replaces all tags.
SPECIFICATION Spec
CONSTANTS
  r1 = r1  r2 = r2  r3 = r3
  n1 = n1  n2 = n2  n3 = n3
  NilID = NilID
  Requests = {r1, r2, r3}
  NoteIDs <- MCNoteIDs
  Owners = {1, 2}
  RawTags <- MCRawTags
  Norm <- MCNorm
  Bodies <- OldBodies
  MaxTags = 2
  Calls <- MergeCalls
  InitialStores <- JustOneNote
  MaxConns = 3
  Faults = FALSE
PROPERTIES AddTagsAddsOnlySupplied
