SPECIFICATION Spec
CONSTANTS
  p1 = p1
  p2 = p2
  c1 = c1
  c2 = c2
  i1 = i1
  i2 = i2
  i3 = i3
  Proc = {p1, p2}
  Writers = {p1, p2}
  Cred = {c1, c2}
  Inode = {i1, i2, i3}
  KeyringWorks = {}
  KeyringFails <- AllKeyringOps
  FileFails = {}
  CanCrash = FALSE
SYMMETRY Interchangeable
INVARIANT LiveFileWhole
