CONSTANTS
  t1 = t1
  t2 = t2
  t3 = t3
  l1 = l1
  l2 = l2
  l3 = l3
  l4 = l4
  f1 = f1
  f2 = f2
  f3 = f3
  Threads = {t1, t2, t3}
  NoThread = NoThread
  Lines = {l1, l2, l3, l4}
  NoLine = NoLine
  Files = {f1, f2, f3}
  NoFile = NoFile
  Fds = {3, 4, 5}
  MaxFileSize = 1
  OpenMayFail = TRUE
  LinkMayFail = TRUE
SPECIFICATION Spec
CHECK_DEADLOCK FALSE
SYMMETRY Symmetry
INVARIANTS
  TypeOK
  EveryLineIsInOneFile
  WritesToOpenFile
  SizeCoversFile
  LinkNamesFile
  NoDescriptorLeaks
