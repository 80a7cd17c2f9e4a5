\* One RPC at a time; the last note of the last page is deleted.
SPECIFICATION Spec
CONSTANTS
  a = a  b = b  c = c  d = d  e = e  s1 = s1  s2 = s2
  Notes = {a, b, c}
  Hits = {b}
  AllSlots = {s1, s2}
  Worlds <- SmallWorld
PROPERTIES TotalCountsMatches
