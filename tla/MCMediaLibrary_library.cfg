SPECIFICATION Spec
CONSTANTS
  aJpg = aJpg
  aPng = aPng
  bJpg = bJpg
  a = a
  b = b
  c1 = c1
  c2 = c2
  u1 = u1
  u2 = u2
  Names = {aJpg, bJpg}
  Assets = {a, b}
  AssetOf <- MCAssetOf
  Hidden = {b}
  Contents = {c1, c2}
  Uploaders = {u1, u2}
  NoName = NoName
  NoContent = NoContent
  Legacy <- MCLegacy
  RequireVision = TRUE
SYMMETRY Symmetry
INVARIANTS
  TypeOK
  RegisteredIsDescribed
  StoredWasRecognized
  RegistryKept
PROPERTY
  IndexComplete
