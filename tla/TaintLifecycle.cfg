CONSTANTS
  p1 = p1  p2 = p2  p3 = p3
  A = A  B = B
  srcFile = srcFile  outFile = outFile  n1 = n1  n2 = n2  host = host
  test = test  commit = commit  confirm = confirm  push = push  redact = redact
  SECRET = SECRET  g = g  h = h  i = i  j = j
  zero = zero  one = one  Global = Global  NoInode = NoInode
  Depth = 8
  Pids = {p1, p2, p3}  InitProcs = {p1, p2}  Threads = {}
  Doms = {A, B}  Parent <- Nested  CapLabels <- NoCapLabels
  Labels = {SECRET}  SeedLabels = {SECRET}  Gates = {g}  Invals = {}
  Paths = {}  Inodes = {}  Endps = {}  Progs = {test}
  Codes = {zero}
  Updates <- LifeRows  Rules <- Empty
  TaskCap = 2  MaxEpoch = 3
SPECIFICATION Spec
CHECK_DEADLOCK FALSE
INVARIANTS FreeClean PendingOwned NoStray
PROPERTIES ForkTracked
