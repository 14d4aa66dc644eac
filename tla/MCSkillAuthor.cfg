CONSTANTS
  a1 = a1
  a2 = a2
  g1 = g1
  g2 = g2
  k1 = k1
  k2 = k2
  s1 = s1
  h1 = h1
  h2 = h2
  edited = edited
  m1 = m1
  None = None
  Author <- MCAuthor
  Target <- MCTarget
  Renderable <- MCRenderable
  ManifestOf <- MCManifestOf
  MaxRepairs = 1
  MaxRuns = 3
  MaxRejections = 0
  Keygen <- MCKeygen
  KeyOf <- MCKeyOf
  Skill <- MCSkill
  Hash <- MCHash
  Manifest <- MCManifest
  Controlled <- MCManifest
  Key <- MCKey
SPECIFICATION MCSpec
SYMMETRY Symmetry
VIEW View
INVARIANTS
  AuthorTypeOK
  OfferIsRegistered
  ReleaseIsTraceable
  PairIsWhole
CHECK_DEADLOCK FALSE
