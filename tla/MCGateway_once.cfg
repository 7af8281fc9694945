SPECIFICATION Spec
CONSTANTS
  video = video
  text = text
  banned = banned
  Keys = {video, text, banned}
  Callers = {c1, c2}
  NoKey = NoKey
  Synchronous = {text}
  Blocked = {banned}
  Malformed = {}
  Seeded = {text}
SYMMETRY Symmetry
INVARIANTS
  TypeOK
  OneRequestPerKey
  PublishedIsLive
PROPERTY
  PublishesOnce
