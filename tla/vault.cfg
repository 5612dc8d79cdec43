SPECIFICATION Spec
CONSTANTS
  None = None
  Clients = {c1, c2}
  Passwords = {p1, p2}
  Salts = {s1, s2, s3, s4}
  Slots = {github, acr}
  Values = {v1, v2}
  Alone <- ChangesAlone
SYMMETRY Symmetry
INVARIANTS TypeOK AccountCoherent CredentialsOpen SealerCurrent ReadsOpen
PROPERTY KeyringSpec
