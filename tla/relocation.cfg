SPECIFICATION Spec
CONSTANTS
  None = None
  Blank = Blank
  Clear = Clear
  Default = Default
  a = a
  b = b
  bad = bad
  t1 = t1
  Values = {a, b, bad, Default}
  Bad = {bad}
  Secrets = {t1}
  Forms <- MCForms
  Savers = {s1, s2}
  Pressers = {d1}
  MaxSaves = 2
  MaxPresses = 2
SYMMETRY Symmetry
INVARIANTS TypeOK SavedWhole SentWhole RunsMatchPresses
