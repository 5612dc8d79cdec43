SPECIFICATION Spec
CONSTANTS
  None = None
  Sweep = Sweep
  Tabs = {t1, t2}
  Sources = {m1, m2}
  Workers = {w1, w2}
  MaxRuns = 2
SYMMETRY Symmetry
INVARIANTS TypeOK OneBatch RunsAccount ViewFollowsNewest DoneCountsMirrors
