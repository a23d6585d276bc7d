---------------------------- MODULE TaintPolicy ----------------------------
(***************************************************************************)
(* The policy tables and the pure operators of the ActPlane taint engine   *)
(* (bpf/taint_engine.bpf.h): which updates an event collects, how a        *)
(* session is ticked and stamped, when an `unless' condition relaxes a     *)
(* rule, and which domains a process is evaluated in.  The module declares *)
(* no state: the engine modules extend it.                                 *)
(*                                                                         *)
(* A bit mask is the set of its bits.  A pattern is the set of targets it  *)
(* matches, so a program stands for one (comm, argv) pair.                 *)
(***************************************************************************)
EXTENDS Integers, FiniteSets

CONSTANTS
  Doms,        \* domain ids a runtime may create (nonzero cap_state keys)
  Global,      \* domain id 0: the inherited policy; also "no cap_task entry"
  Parent,      \* [Doms -> Doms \cup {Global}], cap_state.parent
  CapLabels,   \* [Doms -> SUBSET Labels], cap_state.labels | restrict_mask
  Depth,       \* CAP_DOMAIN_DEPTH
  Labels, Gates, Invals,   \* label bits, gate bits, `since' invalidator slots
  Paths, Endps, Progs,     \* file paths, IPv4 endpoints, exec'd programs
  Codes,       \* exit codes
  Updates,     \* ts_updates: the compiled update table
  Rules        \* ts_rules: the compiled rule table

Ops == {"exec", "open", "write", "connect", "recv"}
Immediate == "immediate"       \* TAINT_GATE_IMMEDIATE
Signal == "signal"             \* raw status of a process ended by a signal
Targets == Paths \cup Endps \cup Progs
DomIds == Doms \cup {Global}

(* struct taint_update                                                     *)
UpdateType ==
  [op : Ops, dom : DomIds, targets : SUBSET Targets,
   add : SUBSET Labels, del : SUBSET Labels,
   gates : SUBSET Gates, invals : SUBSET Invals, exit : Codes \cup {Immediate}]

(* struct taint_rule: `gate' is the gate of LINEAGE and AFTER, `since' the *)
(* invalidators of AFTER, `allow' the targets that satisfy TARGET.         *)
RuleType ==
  [op : Ops, dom : DomIds, targets : SUBSET Targets,
   req : SUBSET Labels, forbid : SUBSET Labels,
   cond : {"none", "lineage", "after", "target"},
   gate : Gates, since : SUBSET Invals, allow : SUBSET Targets,
   effect : {"notify", "block", "kill"}]

ASSUME DomainAssumption ==
  /\ Global \notin Doms
  /\ Parent \in [Doms -> DomIds]
  /\ CapLabels \in [Doms -> SUBSET Labels]
  /\ Depth \in Nat \ {0, 1}

(* The compiler rejects `exits' on anything but exec gates, and the code   *)
(* of an exit gate is a byte (lower.rs gate_bit).                          *)
ASSUME TableAssumption ==
  /\ Updates \subseteq UpdateType
  /\ \A u \in Updates : u.exit # Immediate => u.op = "exec"
  /\ Rules \subseteq RuleType
  /\ {Immediate, Signal} \cap Codes = {}

----------------------------------------------------------------------------
(* Domains.  A process bound to d is evaluated in the global domain, in d  *)
(* and in d's ancestors, as far as the engine walks.                       *)

cap_parent_domain(d) == IF d \in Doms THEN Parent[d] ELSE Global

(* Up[n][d]: the n-th ancestor of d.                                       *)
Up[n \in Nat] ==
  [d \in DomIds |-> IF n = 0 THEN d ELSE cap_parent_domain(Up[n - 1][d])]

(* te_domain_for_depth for every depth below CAP_DOMAIN_DEPTH.             *)
te_domains ==
  [d \in DomIds |->
     {Global} \cup {e \in Doms : \E n \in 0 .. (Depth - 2) : e = Up[n][d]}]

(* cap_domain_matches_pid, which looks one ancestor further.               *)
cap_domain_matches ==
  [d \in DomIds |->
     {Global} \cup {e \in Doms : \E n \in 0 .. (Depth - 1) : e = Up[n][d]}]

(* No chain of domains is longer than the engine walks, so binding a child *)
(* domain never drops an ancestor.  The MCP server and the control server  *)
(* give a child domain no TARGET_CHILD, which keeps chains at length two.  *)
ASSUME ChainAssumption ==
  \A d \in Doms : te_domains[Parent[d]] \subseteq te_domains[d]

----------------------------------------------------------------------------
(* Update collection: the union of every matching row (te_update_cb,       *)
(* te_file_update_cb, te_endpoint_update_cb and the exec pipeline's two    *)
(* passes, which partition the exec rows).                                 *)

Hits(op, o, d) == {u \in Updates : u.op = op /\ u.dom = d /\ o \in u.targets}

AddOf(op, o, d) == UNION {u.add : u \in Hits(op, o, d)}
DelOf(op, o, d) == UNION {u.del : u \in Hits(op, o, d)}
GatesOf(op, o, d) ==
  UNION {u.gates : u \in {v \in Hits(op, o, d) : v.exit = Immediate}}
ExitGatesOf(op, o, d) ==
  UNION {u.gates : u \in {v \in Hits(op, o, d) : v.exit # Immediate}}
InvalsOf(op, o, d) == UNION {u.invals : u \in Hits(op, o, d)}

(* te_exit_gate_hits: pending gates some exit-gate row of the domain opens *)
(* for this status.  A signalled status matches no row.                    *)
te_exit_gate_hits(d, pending, status) ==
  pending \cap UNION {u.gates : u \in {v \in Updates :
                        /\ v.op = "exec"
                        /\ v.dom = d
                        /\ v.exit # Immediate
                        /\ v.exit = status}}

----------------------------------------------------------------------------
(* struct te_sess and its two writers.                                     *)

NoSess == [bits  |-> {}, epoch |-> 0,
           gate  |-> [g \in Gates |-> 0], inval |-> [i \in Invals |-> 0]]

MutTe_tick(s) == [s EXCEPT !.epoch = @ - 1]    \* counts down
te_tick(s) == [s EXCEPT !.epoch = @ + 1]

te_stamp(s, ep, G, I) ==
  [bits  |-> s.bits \cup G,
   epoch |-> s.epoch,
   gate  |-> [g \in Gates |-> IF g \in G THEN ep ELSE s.gate[g]],
   inval |-> [i \in Invals |-> IF i \in I THEN ep ELSE s.inval[i]]]

(* One event: tick when `due', then stamp what it hit at the new epoch.    *)
te_event(s, due, G, I) ==
  IF due THEN te_stamp(te_tick(s), s.epoch + 1, G, I) ELSE s

(* te_after_satisfied: latching without `since'; otherwise the gate fired  *)
(* later than every listed invalidator.                                    *)
te_after_satisfied(s, g, since) ==
  IF since = {} THEN g \in s.bits
  ELSE s.gate[g] # 0 /\ \A i \in since : s.gate[g] > s.inval[i]

----------------------------------------------------------------------------
(* struct proc_state; `in' says whether the map holds an entry.            *)

NoProc == [in |-> FALSE, labels |-> {}, lin |-> {}]

te_add_labels(ps, add) ==
  [in |-> ps.in \/ add # {}, labels |-> ps.labels \cup add, lin |-> ps.lin]

(* te_labels_for_domain for a domain in the process's chain.               *)
te_labels(ps, d) == ps.labels \cup (IF d = Global THEN {} ELSE CapLabels[d])

(* te_cond_satisfied: the `unless' condition that relaxes the rule.        *)
MutCond_satisfied(r, ps, s, o) ==              \* `after' is not handled
  \/ r.cond = "lineage" /\ ps.in /\ r.gate \in ps.lin
  \/ r.cond = "target" /\ o \in r.allow
te_cond_satisfied(r, ps, s, o) ==
  \/ r.cond = "lineage" /\ ps.in /\ r.gate \in ps.lin
  \/ r.cond = "after" /\ te_after_satisfied(s, r.gate, r.since)
  \/ r.cond = "target" /\ o \in r.allow

(* te_rule_effect.  cur is the process's domain, pr and ss its per-domain  *)
(* labels and sessions, stored and src the labels the object carries and   *)
(* the labels its source rows give it.  A rule of an intermediate ancestor *)
(* sees the stored labels of a file and nothing of src.                    *)
RuleFires(r, cur, pr, ss, op, o, stored, src, fileRead) ==
  LET near == r.dom \in {Global, cur}
      labels == te_labels(pr[r.dom], r.dom)
                  \cup (IF near \/ fileRead THEN stored[r.dom] ELSE {})
                  \cup (IF near THEN src[r.dom] ELSE {})
  IN  /\ r.op = op
      /\ r.dom \in cap_domain_matches[cur]
      /\ r.req \subseteq labels
      /\ r.forbid \cap labels = {}
      /\ o \in r.targets
      /\ ~te_cond_satisfied(r, pr[r.dom], ss[r.dom], o)
============================================================================
