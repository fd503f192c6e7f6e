SPECIFICATION Spec
CONSTANTS
  Uploads = {u1}
  Sources = {s1}
  Screens = {c1, c2}
  Handlers = {h1, h2}
  u1 = u1
  s1 = s1
  c1 = c1
  c2 = c2
  h1 = h1
  h2 = h2
INVARIANTS
  TypeOK
  EnabledTourHasEntries
  HarmNeedsARace
  AppliedIsCurrent
SYMMETRY Interchangeable
CHECK_DEADLOCK FALSE
