SPECIFICATION Spec
CONSTANTS
  None = None
  Clients = {c1, c2}
  Passwords = {p1, p2}
  Salts = {s1, s2, s3}
  Slots = {github}
  Values = {v1, v2}
  Alone <- ResetAlone
SYMMETRY Symmetry
INVARIANT CredentialsOpen
