CONSTANTS
  p1 = p1  p2 = p2  t1 = t1  t1b = t1b  t2 = t2
  Procs = {p1, p2}  Root = p1
  Tids = {t1, t1b, t2}  Owner <- Threads
  TE_FORK_FD_SCAN = 3
  Files = {secret}  Secrets = {secret}  Pipes = {q}
  Socks = {k, l}  Addrs = {a}  Endps = {e}
  None = None  MaxNames = 3  Gaps = {}
  secret = secret  q = q  k = k  l = l  a = a  e = e
SYMMETRY Symmetry
SPECIFICATION Spec
CHECK_DEADLOCK FALSE
INVARIANTS TypeOK FdAligned FlowSound
