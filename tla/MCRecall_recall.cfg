SPECIFICATION Spec
CONSTANTS
  part = part
  turning = turning
  ladle = ladle
  d1 = d1
  u1 = u1
  u2 = u2
  Assets = {part, turning, ladle}
  Info <- MCInfo
  Slot <- MCSlot
  Users = {u1, u2}
  Directories = {d1}
  NoDirectory = NoDirectory
  TopK = 1
  Cooldown = 2
  Horizon = 2
  MaxByHand = 2
SYMMETRY Symmetry
INVARIANTS
  TypeOK
  SlotsShareFairly
  
  
  OnlyCopiedCharged
