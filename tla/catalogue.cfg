SPECIFICATION Spec
CONSTANTS
  None = None
  i1 = i1
  i2 = i2
  c1 = c1
  c2 = c2
  old = old
  new = new
  Ids = {i1, i2}
  Contents = {c1, c2}
  Hub = {c1}
  Valid = {c1}
  Releases = {old, new}
  Shipped <- MCShipped
  Steps <- MCSteps
  Probers = {p1, p2}
  Editors = {e1}
  Keep = 1
  MaxTime = 2
  MaxRuns = 2
SYMMETRY Symmetry
INVARIANTS TypeOK SchemaReady CatalogueCurrent HistoryIsOwn
PROPERTIES StartsKeepChoices NewestSurvive
