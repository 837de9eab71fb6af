SPECIFICATION GitSpec
CONSTANTS
  p1 = p1 p2 = p2 n1 = n1 o1 = o1 main = main dev = dev c1 = c1 c2 = c2 c3 = c3
  NoCommit = NoCommit
  Owners = {o1}
  Pushers = {p1, p2}
  Announcers = {n1}
  OwnerOf <- OneOwner
  Refs = {main, dev}
  Branches = {main, dev}
  PreferredHeads <- Heads
  Commits = {c1, c2, c3}
  History <- Fork
  Commands <- Updates
  MaxPacks = 2
  CompactAt = 2
  MaxPushes = 3
  MaxAnnouncements = 2
SYMMETRY PushSymmetry
CHECK_DEADLOCK FALSE
INVARIANTS
  GitTypeOK
  Cloneable
  LinearHistory
PROPERTY
  ImplementsRefStore
