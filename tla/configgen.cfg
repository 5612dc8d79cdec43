SPECIFICATION MCSpec
CONSTANTS
  None = None
  Shapeless = Shapeless
  NotJSON = NotJSON
  Blank = Blank
  a = a
  A = A
  b = b
  B = B
  nowhere = nowhere
  h = h
  H = H
  k = k
  K = K
  mine = mine
  o1 = o1
  o2 = o2
  Catalogue <- MCCatalogue
  Addresses <- MCAddresses
  Authority <- MCAuthority
  Lower <- MCLower
  Results <- MCResults
  Settings = {"registry-mirrors", "insecure-registries", "own", "log"}
  Own = {o1, o2}
  Files <- MCFiles
  app = app
  App = App
  ghcr = ghcr
  p80 = p80
  v1 = v1
  odd = odd
  sum = sum
  Hub = Hub
  Library = Library
  Localhost = Localhost
  Gap = Gap
  BadDigest = BadDigest
  Absent = Absent
  Words = {app, App, ghcr, Hub, Library, Localhost, Gap}
  Segments = {app, ghcr, Hub, Library, Localhost}
  HostWords = {app, ghcr, Hub, Library, Localhost}
  Dotted = {ghcr, Hub}
  Small <- MCSmall
  Afters = {p80, v1, odd}
  Ports = {p80}
  Tags = {p80, v1}
  Digests = {sum}
  MaxParts = 3
  Typings <- MCTypings
  Images <- MCImages
INVARIANTS RankedRight OwnSurvives InsecureListed MergeSettles AddressNamesImage
