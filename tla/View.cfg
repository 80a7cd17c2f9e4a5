\* A user alone with five notes, or overlapping and failing RPCs on two.
SPECIFICATION Spec
CONSTANTS
  a = a  b = b  c = c  d = d  e = e  s1 = s1  s2 = s2
  Notes = {a, b, c, d, e}
  Hits = {b, c, d}
  AllSlots = {s1, s2}
  Worlds <- AllWorlds
INVARIANTS SummaryNamesDisplayed AllNotesReachable WalkBackEndsAtStart CursorFollowsDisplayed ViewInv
PROPERTIES PreviousGoesBack
