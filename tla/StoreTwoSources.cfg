SPECIFICATION Spec
CONSTANTS
  p1 = p1
  p2 = p2
  c1 = c1
  c2 = c2
  i1 = i1
  i2 = i2
  i3 = i3
  Proc = {p1}
  Writers = {p1}
  Cred = {c1, c2}
  Inode = {i1, i2}
  KeyringWorks <- AllKeyringOps
  KeyringFails = {"set"}
  FileFails = {}
  CanCrash = FALSE
SYMMETRY Interchangeable
INVARIANT OneSourceOfTruth
