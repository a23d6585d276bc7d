CONSTANTS
  p1 = p1  p2 = p2  p3 = p3
  A = A  B = B
  srcFile = srcFile  outFile = outFile  n1 = n1  n2 = n2  host = host
  test = test  commit = commit  confirm = confirm  push = push  redact = redact
  SECRET = SECRET  g = g  h = h  i = i  j = j
  zero = zero  one = one  Global = Global  NoInode = NoInode
  Depth = 8
  Pids = {p1, p2}  InitProcs = {p1}  Threads = {}
  Doms = {A}  Parent <- OneRoot  CapLabels <- NoCapLabels
  Labels = {SECRET}  SeedLabels = {}  Gates = {g}  Invals = {}
  Paths = {srcFile, outFile}  Inodes = {n1, n2}  Endps = {host}  Progs = {redact}
  Codes = {zero}
  Updates <- FlowRows  Rules <- SecretRules
  TaskCap = 2  MaxEpoch = 6
SYMMETRY InodeSymmetry
SPECIFICATION Spec
CHECK_DEADLOCK FALSE
INVARIANTS LabelSound
PROPERTIES SinkGuarded
