SPECIFICATION RegistrySpec
CONSTANTS
  s1 = s1
  s2 = s2
  h1 = h1
  h2 = h2
  readOnly = readOnly
  controlled = controlled
  k1 = k1
  None = None
  Skill <- MCSkill
  Hash <- MCHash
  Manifest <- MCManifest
  Controlled <- MCControlled
  Key <- MCKey
  MaxRejections = 1
SYMMETRY Symmetry
INVARIANTS
  RegistryTypeOK
  TrailIsLifecycle
  ApprovalClosesReview
  ActiveIsGoverned
PROPERTY VersionPinned
\* every version may end up DEPRECATED, after which nothing is left to do
CHECK_DEADLOCK FALSE
