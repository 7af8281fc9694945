SPECIFICATION Spec
CONSTANTS
  aJpg = aJpg
  aPng = aPng
  bJpg = bJpg
  a = a
  b = b
  c1 = c1
  c2 = c2
  u1 = u1
  u2 = u2
  Names = {aJpg, aPng, bJpg}
  Assets = {a, b}
  AssetOf <- MCAssetOf
  Hidden = {b}
  Contents = {c1, c2}
  Uploaders = {u1}
  NoName = NoName
  NoContent = NoContent
  Legacy <- MCLegacyPicture
  RequireVision = TRUE
INVARIANT DescriptionMatchesImage
