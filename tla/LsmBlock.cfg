CONSTANTS
  fs = fs  fk = fk
  Procs = {p1, p2}
  Files = {fs, fk}  Pipes = {q}
  Names = {"s", "k", "o"}  NameOf <- MCNameOf
  Source = "s"  Sink = "k"
  MaxFds = 2  MaxMoves = 1  BaseMatch = FALSE  Gaps = {}
SPECIFICATION Spec
INVARIANTS BlockHolds
SYMMETRY Perms
