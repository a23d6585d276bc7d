--------------------------- MODULE MCTaintEngine ---------------------------
(***************************************************************************)
(* Small instances of TaintEngine.  Each policy below is one of the        *)
(* repository's example policies, reduced to the rows a run is about.      *)
(***************************************************************************)
EXTENDS TaintEngine, TLC

CONSTANTS
  p1, p2, p3,          \* pids
  A, B,                \* domains: A is a root, B is a child of A
  srcFile, outFile,    \* paths
  n1, n2,              \* inodes
  host,                \* an endpoint
  test, commit,        \* programs of the test-before-commit policies
  confirm, push,       \* programs of the confirm-destructive policy (E11)
  redact,              \* a declassifying program
  SECRET,              \* a label
  zero, one,           \* exit codes
  g, h,                \* gates
  i, j                 \* invalidators

InodeSymmetry == Permutations({n1, n2})

Row(op, dom, targets) ==
  [op |-> op, dom |-> dom, targets |-> targets, add |-> {}, del |-> {},
   gates |-> {}, invals |-> {}, exit |-> Immediate]
Rule(op, dom, targets, req) ==
  [op |-> op, dom |-> dom, targets |-> targets, req |-> req, forbid |-> {},
   cond |-> "none", gate |-> CHOOSE x \in Gates : TRUE, since |-> {},
   allow |-> {}, effect |-> "kill"]

OneRoot == [d \in {A} |-> Global]
Nested == [d \in {A, B} |-> IF d = B THEN A ELSE Global]
NoCapLabels == [d \in Doms |-> {}]
Empty == {}

(* after exec test exits 0 since write srcFile; after exec commit since    *)
(* exec commit: an exit gate, an immediate gate and a program that is a    *)
(* gate and an invalidator at once.                                        *)
GateRows ==
  {[Row("exec", A, {test}) EXCEPT !.gates = {g}, !.exit = zero],
   [Row("exec", A, {commit}) EXCEPT !.gates = {h}, !.invals = {j}],
   [Row("write", A, {srcFile}) EXCEPT !.invals = {i}]}
(* Two kill rules on commit: test must have passed since the last edit,    *)
(* and at some time at all.                                                *)
TestRules ==
  {[Rule("exec", A, {commit}, {}) EXCEPT !.cond = "after", !.gate = g, !.since = S]
    : S \in {{i}, {}}}
(* The exit gate alone.                                                    *)
ExitGateRows ==
  {[Row("exec", A, {test}) EXCEPT !.gates = {g}, !.exit = zero],
   [Row("write", A, {srcFile}) EXCEPT !.invals = {i}]}

(* source SECRET = file srcFile; redact declassifies it;                   *)
(* kill connect host if SECRET.                                            *)
FlowRows ==
  {[Row("open", A, {srcFile}) EXCEPT !.add = {SECRET}],
   [Row("exec", A, {redact}) EXCEPT !.del = {SECRET}]}
SecretRules == {Rule("connect", A, {host}, {SECRET})}

(* E11: kill exec push unless after exec confirm since exec push.          *)
ConfirmRows ==
  {[Row("exec", A, {confirm}) EXCEPT !.gates = {g}],
   [Row("exec", A, {push}) EXCEPT !.invals = {i}]}
ConfirmRules ==
  {[Rule("exec", A, {push}, {}) EXCEPT !.cond = "after", !.since = {i}]}

(* An exit gate in the global domain and in the child domain.              *)
LifeRows ==
  {[Row("exec", Global, {test}) EXCEPT !.gates = {g}, !.exit = zero],
   [Row("exec", B, {test}) EXCEPT !.gates = {g}, !.exit = zero]}
============================================================================
