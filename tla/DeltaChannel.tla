---------------------------- MODULE DeltaChannel ----------------------------
(***************************************************************************)
(* How a policy reaches the kernel while it enforces: a runtime            *)
(* (crates/actplane-runtime) pushes append requests into the user ring     *)
(* buffer cap_req, and whichever process enters getpid next drains the     *)
(* ring and admits or rejects each request with its own authority          *)
(* (bpf/capability.bpf.h).  The runtime learns the verdict only by         *)
(* watching the table counts (ReloadHandle, bpf/src/lib.rs).               *)
(*                                                                         *)
(* The maps are pinned: they outlive the runtime, which may crash at any   *)
(* step, and the next runtime clears them, except for the ring.            *)
(***************************************************************************)
EXTENDS Integers, Sequences, FiniteSets

CONSTANTS
  Control,     \* the runtime's process: submits every request
  Agent,       \* the watched process, bound to the runtime's domain
  Child,       \* a process the runtime binds to a child domain
  Other,       \* a process outside every domain
  Deltas,      \* deltas a runtime may be asked for
  Policy,      \* the policy a runtime installs when it starts
  NUpdates, NRules, \* [Deltas \cup {Policy} -> Nat]: entries of a delta
  CallerOf,    \* [Deltas -> Procs]: whose authority a delta is checked with
  ForChild,    \* the deltas that target the child domain
  MAX_RULES, MAX_UPDATES,
  RingCap,     \* requests the ring has room for
  MaxGen       \* bound: runtimes that are ever started

Procs == {Control, Agent, Child, Other}
AllDeltas == Deltas \cup {Policy}

ASSUME DeltaAssumption ==
  /\ Agent \notin {Control, Child, Other} /\ Control \notin {Child, Other} /\ Child # Other
  /\ Policy \notin Deltas
  /\ ForChild \subseteq Deltas
  /\ NUpdates \in [AllDeltas -> Nat]
  /\ NRules \in [AllDeltas -> Nat]
  /\ \A d \in AllDeltas : NUpdates[d] + NRules[d] > 0
  /\ CallerOf \in [Deltas -> {Control, Agent, Child}]
  /\ {MAX_RULES, MAX_UPDATES, RingCap, MaxGen} \subseteq Nat \ {0}

(* Domain ids.  0 is no domain.  fresh_runtime_domain_id gives every       *)
(* runtime a domain of its own; a child domain is named by the child's     *)
(* pid, which is the same under the next runtime.                          *)
Unbound == 0
MutFresh_runtime_domain_id(g) == 1          \* a fixed id
fresh_runtime_domain_id(g) == g
ChildDomain == MaxGen + 1
DomIds == 1 .. MaxGen + 1

VARIABLES
  rt,          \* where the runtime is in its life cycle
  gen,         \* number of runtimes started so far
  tx,          \* the append transaction of the runtime
  ring,        \* cap_req
  drain,       \* the drain in progress: bpf_user_ringbuf_drain is exclusive
  ts_rules, ts_updates,
  ts_counts,   \* [rule, update -> Nat]
  cap_task,    \* the domain of each process
  cap_state,   \* the parent of each domain that exists
  cap_policy,  \* the rule slots bound to each domain
  catalog,     \* RuntimePolicyCatalog.rules: what a rule id means
  \* History variables: they guard nothing but repetition.
  accepted, failed,   \* deltas of this runtime, as reported to the caller
  late         \* a request has outlived the transaction that submitted it

chanVars == <<ring, drain>>
tableVars == <<ts_rules, ts_updates, ts_counts, cap_policy>>
bindVars == <<cap_task, cap_state>>
reportVars == <<catalog, accepted, failed>>
vars == <<rt, gen, tx, ring, drain, ts_rules, ts_updates, ts_counts, cap_task,
          cap_state, cap_policy, catalog, accepted, failed, late>>

None == [kind |-> "none"]   \* no request, or no delta
ASSUME NoneAssumption == None \notin AllDeltas
Idle == [pc |-> "idle"]
Free == [who |-> Other, at |-> "free", kick |-> FALSE, e |-> None, idx |-> 0]
NoDomains == [d \in {} |-> 0]

Init ==
  /\ rt = "down"
  /\ gen = 0
  /\ tx = Idle
  /\ ring = <<>>
  /\ drain = Free
  /\ ts_rules = [i \in 0 .. MAX_RULES - 1 |-> None]
  /\ ts_updates = [i \in 0 .. MAX_UPDATES - 1 |-> None]
  /\ ts_counts = [k \in {"rule", "update"} |-> 0]
  /\ cap_task = [p \in Procs |-> Unbound]
  /\ cap_state = NoDomains
  /\ cap_policy = [d \in DomIds |-> {}]
  /\ catalog = <<>>
  /\ accepted = {} /\ failed = {}
  /\ late = FALSE

----------------------------------------------------------------------------
(* Authority.  control_plane_cap_state and the merge in upsert_cap_state   *)
(* give a runtime's domain every authority, DELEGATE and TARGET_CHILD      *)
(* included, whoever is bound to it; a child domain has AUTH_BIND_RULE and *)
(* TARGET_SELF.                                                            *)

IsRoot(d) == d \in DOMAIN cap_state /\ cap_state[d] = Unbound

(* cap_can_submit_for                                                      *)
cap_can_submit_for(who, caller) ==
  who = caller \/ IsRoot(cap_task[who])

(* cap_check_fields, and precheck_append_authority in userspace.           *)
cap_check(caller, target, kind) ==
  LET c == cap_task[caller]
  IN  /\ {c, target} \subseteq DOMAIN cap_state
      /\ c = target \/ (IsRoot(c) /\ cap_state[target] = c)
      /\ kind = "rule" \/ IsRoot(c)

Admit(who, e) ==
  cap_can_submit_for(who, e.caller) /\ cap_check(e.caller, e.target, e.kind)

----------------------------------------------------------------------------
(* The kernel side.  A drain runs cap_request_cb on each request until it  *)
(* finds the ring empty; it is over only at its release, a step later.     *)

(* tp/sys_enter_getpid in any process.                                     *)
DrainStart(p) ==
  /\ drain.at = "free"
  /\ p = Control => rt # "down"
  /\ drain' = [Free EXCEPT !.who = p, !.at = "peek"]
  /\ UNCHANGED <<rt, gen, tx, ring, tableVars, bindVars, reportVars, late>>

(* The next request, with the verdict of cap_append_*_admit.               *)
DrainTake ==
  /\ drain.at = "peek"
  /\ ring # <<>>
  /\ ring' = Tail(ring)
  /\ drain' = IF Admit(drain.who, Head(ring))
              THEN [drain EXCEPT !.at = "admitted", !.e = Head(ring)]
              ELSE drain
  /\ UNCHANGED <<rt, gen, tx, tableVars, bindVars, reportVars, late>>

MutSlotFree(kind) ==                        \* off by one
  ts_counts[kind] <= IF kind = "rule" THEN MAX_RULES ELSE MAX_UPDATES
SlotFree(kind) ==
  ts_counts[kind] < IF kind = "rule" THEN MAX_RULES ELSE MAX_UPDATES

(* cap_append_rule_entry and cap_append_update_entry: a full table rejects *)
(* the request; otherwise the slot is written and bound first ...          *)
DrainFull ==
  /\ drain.at = "admitted"
  /\ ~SlotFree(drain.e.kind)
  /\ drain' = [drain EXCEPT !.at = "peek", !.e = None]
  /\ UNCHANGED <<rt, gen, tx, ring, tableVars, bindVars, reportVars, late>>

DrainWrite ==
  LET e == drain.e
      n == ts_counts[e.kind]
  IN  /\ drain.at = "admitted"
      /\ SlotFree(e.kind)
      /\ drain' = [drain EXCEPT !.at = "written", !.idx = n]
      /\ IF e.kind = "rule"
         THEN /\ ts_rules' = [ts_rules EXCEPT ![n] = e]
              /\ cap_policy' = [cap_policy EXCEPT ![e.target] = @ \cup {n}]
              /\ UNCHANGED ts_updates
         ELSE /\ ts_updates' = [ts_updates EXCEPT ![n] = e]
              /\ UNCHANGED <<ts_rules, cap_policy>>
      /\ UNCHANGED <<rt, gen, tx, ring, ts_counts, bindVars, reportVars, late>>

(* ... and becomes live with the count.                                    *)
DrainCount ==
  /\ drain.at = "written"
  /\ ts_counts' = [ts_counts EXCEPT ![drain.e.kind] = drain.idx + 1]
  /\ drain' = [drain EXCEPT !.at = "peek", !.e = None, !.idx = 0]
  /\ UNCHANGED <<rt, gen, tx, ring, ts_rules, ts_updates, cap_policy, bindVars,
                 reportVars, late>>

DrainEmpty ==
  /\ drain.at = "peek"
  /\ ring = <<>>
  /\ drain' = [drain EXCEPT !.at = "leaving"]
  /\ UNCHANGED <<rt, gen, tx, ring, tableVars, bindVars, reportVars, late>>

(* The busy flag is released; a kick of the runtime returns.               *)
DrainRelease ==
  /\ drain.at = "leaving"
  /\ drain' = Free
  /\ tx' = IF drain.kick THEN [tx EXCEPT !.pc = "poll"] ELSE tx
  /\ UNCHANGED <<rt, gen, ring, tableVars, bindVars, reportVars, late>>

----------------------------------------------------------------------------
(* One append transaction (append_policy_delta_with_rule_id_base), under   *)
(* the append lock.                                                        *)

Target(d) == IF d \in ForChild THEN ChildDomain
             ELSE fresh_runtime_domain_id(gen)
Caller(d) == IF d = Policy THEN Control ELSE CallerOf[d]
Size(d) == NUpdates[d] + NRules[d]
KindOf(d, k) == IF k <= NUpdates[d] THEN "update" ELSE "rule"

(* The value the count must have when entry k has been admitted.           *)
Before(t) == IF KindOf(t.d, t.k) = "update" THEN t.updates0 + t.k - 1
             ELSE t.rules0 + (t.k - NUpdates[t.d]) - 1

(* A rule carries the index its metadata has, or will have, in the catalog.*)
Request(t) ==
  [kind |-> KindOf(t.d, t.k), d |-> t.d, k |-> t.k, gen |-> gen,
   caller |-> Caller(t.d), target |-> Target(t.d),
   id |-> IF KindOf(t.d, t.k) = "rule" THEN t.base + t.k - NUpdates[t.d]
          ELSE 0]

HasRoom(d) ==
  /\ ts_counts["update"] + NUpdates[d] <= MAX_UPDATES
  /\ ts_counts["rule"] + NRules[d] <= MAX_RULES

(* The checks that fail before anything is submitted leave no trace.       *)
Begin(d) ==
  /\ tx = Idle
  /\ \/ rt = "install" /\ d = Policy
     \/ rt = "up" /\ d \in Deltas \ (accepted \cup failed)
  /\ HasRoom(d)
  /\ NUpdates[d] > 0 => cap_check(Caller(d), Target(d), "update")
  /\ NRules[d] > 0 => cap_check(Caller(d), Target(d), "rule")
  /\ tx' = [pc |-> "push", d |-> d, k |-> 1,
            base |-> IF d = Policy THEN 0 ELSE Len(catalog),
            rules0 |-> ts_counts["rule"], updates0 |-> ts_counts["update"],
            mask0 |-> cap_policy[Target(d)]]
  /\ UNCHANGED <<rt, gen, chanVars, tableVars, bindVars, reportVars, late>>

(* submit_raw: reserve fails when the ring is full ...                     *)
Push ==
  /\ tx.pc = "push"
  /\ IF Len(ring) < RingCap
     THEN /\ ring' = Append(ring, Request(tx))
          /\ tx' = [tx EXCEPT !.pc = "kick"]
     ELSE /\ tx' = [tx EXCEPT !.pc = "roll_rules"]
          /\ UNCHANGED ring
  /\ UNCHANGED <<rt, gen, drain, tableVars, bindVars, reportVars, late>>

(* ... and getpid, which drains the ring, or returns at once (EBUSY) while *)
(* another process does.                                                   *)
Kick ==
  /\ tx.pc = "kick"
  /\ IF drain.at = "free"
     THEN /\ drain' = [Free EXCEPT !.who = Control, !.at = "peek",
                                   !.kick = TRUE]
          /\ tx' = [tx EXCEPT !.pc = "draining"]
     ELSE /\ tx' = [tx EXCEPT !.pc = "poll"]
          /\ UNCHANGED drain
  /\ UNCHANGED <<rt, gen, ring, tableVars, bindVars, reportVars, late>>

(* submit_expect_count.                                                    *)
PollAdmitted ==
  /\ tx.pc = "poll"
  /\ ts_counts[KindOf(tx.d, tx.k)] = Before(tx) + 1
  /\ tx' = IF tx.k < Size(tx.d) THEN [tx EXCEPT !.pc = "push", !.k = @ + 1]
           ELSE [tx EXCEPT !.pc = "commit"]
  /\ UNCHANGED <<rt, gen, chanVars, tableVars, bindVars, reportVars, late>>

(* A request is still on its way.                                          *)
InFlight == ring # <<>> \/ drain.at \in {"admitted", "written"}

MutPollFailed == FALSE                      \* polls for ever
PollFailed ==
  /\ tx.pc = "poll"
  /\ ts_counts[KindOf(tx.d, tx.k)] # Before(tx) + 1
  /\ tx' = [tx EXCEPT !.pc = "roll_rules"]
  /\ late' = (late \/ InFlight)
  /\ UNCHANGED <<rt, gen, chanVars, tableVars, bindVars, reportVars>>

(* restore_append_state, three map writes; then the error is returned.     *)
MutRollRules ==                             \* clears the table instead
  /\ tx.pc = "roll_rules"
  /\ ts_counts' = [ts_counts EXCEPT !["rule"] = 0]
  /\ tx' = [tx EXCEPT !.pc = "roll_updates"]
  /\ UNCHANGED <<rt, gen, chanVars, ts_rules, ts_updates, cap_policy, bindVars,
                 reportVars, late>>
RollRules ==
  /\ tx.pc = "roll_rules"
  /\ ts_counts' = [ts_counts EXCEPT !["rule"] = tx.rules0]
  /\ tx' = [tx EXCEPT !.pc = "roll_updates"]
  /\ UNCHANGED <<rt, gen, chanVars, ts_rules, ts_updates, cap_policy, bindVars,
                 reportVars, late>>

MutRollUpdates ==                           \* forgets the update count
  /\ tx.pc = "roll_updates"
  /\ tx' = [tx EXCEPT !.pc = "roll_mask"]
  /\ UNCHANGED <<rt, gen, chanVars, tableVars, bindVars, reportVars, late>>
RollUpdates ==
  /\ tx.pc = "roll_updates"
  /\ ts_counts' = [ts_counts EXCEPT !["update"] = tx.updates0]
  /\ tx' = [tx EXCEPT !.pc = "roll_mask"]
  /\ UNCHANGED <<rt, gen, chanVars, ts_rules, ts_updates, cap_policy, bindVars,
                 reportVars, late>>

(* A runtime whose first policy fails ends here, without clearing.         *)
RollMask ==
  /\ tx.pc = "roll_mask"
  /\ cap_policy' = [cap_policy EXCEPT ![Target(tx.d)] = tx.mask0]
  /\ failed' = failed \cup {tx.d}
  /\ tx' = Idle
  /\ rt' = IF rt = "install" THEN "down" ELSE rt
  /\ UNCHANGED <<gen, chanVars, ts_rules, ts_updates, ts_counts, bindVars,
                 catalog, accepted, late>>

(* append_policy_delta_dsl_inner: the metadata is recorded on success.     *)
RuleMeta(d) == [k \in 1 .. NRules[d] |-> [d |-> d, k |-> NUpdates[d] + k]]
MutCommit ==                                \* the metadata is not recorded
  /\ tx.pc = "commit"
  /\ accepted' = accepted \cup {tx.d}
  /\ tx' = Idle
  /\ rt' = IF rt = "install" THEN "up" ELSE rt
  /\ UNCHANGED <<gen, chanVars, tableVars, bindVars, catalog, failed, late>>
Commit ==
  /\ tx.pc = "commit"
  /\ catalog' = IF tx.d = Policy THEN catalog
                ELSE catalog \o RuleMeta(tx.d)
  /\ accepted' = accepted \cup {tx.d}
  /\ tx' = Idle
  /\ rt' = IF rt = "install" THEN "up" ELSE rt
  /\ UNCHANGED <<gen, chanVars, tableVars, bindVars, failed, late>>

----------------------------------------------------------------------------
(* The runtime's life cycle.  try_lock_runtime admits one at a time.       *)

(* clear_runtime_state, one map after the other, when a runtime starts     *)
(* ("clear_") and when it ends ("stop_").                                  *)
Start ==
  /\ rt = "down"
  /\ gen < MaxGen
  /\ gen' = gen + 1
  /\ rt' = "clear_counts"
  /\ accepted' = {} /\ failed' = {}
  /\ catalog' = RuleMeta(Policy)
  /\ UNCHANGED <<tx, chanVars, tableVars, bindVars, late>>

Stop ==
  /\ rt = "up"
  /\ tx = Idle
  /\ rt' = "stop_counts"
  /\ UNCHANGED <<gen, tx, chanVars, tableVars, bindVars, reportVars, late>>

ClearCounts ==
  /\ rt \in {"clear_counts", "stop_counts"}
  /\ ts_counts' = [k \in {"rule", "update"} |-> 0]
  /\ rt' = IF rt = "clear_counts" THEN "clear_task" ELSE "stop_task"
  /\ UNCHANGED <<gen, tx, chanVars, ts_rules, ts_updates, cap_policy, bindVars,
                 reportVars, late>>

ClearTask ==
  /\ rt \in {"clear_task", "stop_task"}
  /\ cap_task' = [p \in Procs |-> Unbound]
  /\ rt' = IF rt = "clear_task" THEN "clear_state" ELSE "stop_state"
  /\ UNCHANGED <<gen, tx, chanVars, tableVars, cap_state, reportVars, late>>

ClearState ==
  /\ rt \in {"clear_state", "stop_state"}
  /\ cap_state' = NoDomains
  /\ rt' = IF rt = "clear_state" THEN "clear_policy" ELSE "stop_policy"
  /\ UNCHANGED <<gen, tx, chanVars, tableVars, cap_task, reportVars, late>>

ClearPolicy ==
  /\ rt \in {"clear_policy", "stop_policy"}
  /\ cap_policy' = [d \in DomIds |-> {}]
  /\ rt' = IF rt = "clear_policy" THEN "seed" ELSE "down"
  /\ UNCHANGED <<gen, tx, chanVars, ts_rules, ts_updates, ts_counts, bindVars,
                 reportVars, late>>

NewDomain(d, parent) ==
  cap_state' = [x \in DOMAIN cap_state \cup {d} |->
                  IF x = d THEN parent ELSE cap_state[x]]

(* seed_label_in_domain for the agent, bind_state for the runtime itself.  *)
Seed ==
  LET d == fresh_runtime_domain_id(gen)
  IN  /\ rt = "seed"
      /\ NewDomain(d, Unbound)
      /\ cap_task' = [cap_task EXCEPT ![Agent] = d, ![Control] = d]
      /\ rt' = "install"
      /\ UNCHANGED <<gen, tx, chanVars, tableVars, reportVars, late>>

(* bind_child_domain, with the child's pid for its id.                     *)
BindChild ==
  /\ rt = "up"
  /\ ChildDomain \notin DOMAIN cap_state
  /\ NewDomain(ChildDomain, fresh_runtime_domain_id(gen))
  /\ cap_task' = [cap_task EXCEPT ![Child] = ChildDomain]
  /\ UNCHANGED <<rt, gen, tx, chanVars, tableVars, reportVars, late>>

(* The runtime is killed; a drain it is in runs to its end.                *)
Crash ==
  /\ rt # "down"
  /\ rt' = "down"
  /\ tx' = Idle
  /\ drain' = [drain EXCEPT !.kick = FALSE]
  /\ late' = (late \/ InFlight)
  /\ UNCHANGED <<gen, ring, tableVars, bindVars, reportVars>>

----------------------------------------------------------------------------
TxStep == Push \/ Kick \/ PollAdmitted \/ PollFailed \/ RollRules
            \/ RollUpdates \/ RollMask \/ Commit
DrainStep == DrainTake \/ DrainFull \/ DrainWrite \/ DrainCount \/ DrainEmpty
               \/ DrainRelease
ClearStep == ClearCounts \/ ClearTask \/ ClearState \/ ClearPolicy

Next ==
  \/ \E p \in Procs : DrainStart(p)
  \/ DrainStep
  \/ \E d \in AllDeltas : Begin(d)
  \/ TxStep
  \/ Start \/ Stop \/ ClearStep \/ Seed \/ BindChild
  \/ Crash

(* The runtime's thread and a drain in progress keep running.              *)
Fairness == WF_vars(TxStep) /\ WF_vars(DrainStep)
Spec == Init /\ [][Next]_vars /\ Fairness
----------------------------------------------------------------------------
RequestType ==
  [kind : {"rule", "update"}, d : AllDeltas, k : Nat, gen : 1 .. MaxGen,
   caller : Procs, target : DomIds, id : Nat]
TxType ==
  {Idle} \cup
  [pc : {"push", "kick", "draining", "poll", "commit", "roll_rules",
         "roll_updates", "roll_mask"},
   d : AllDeltas, k : Nat, base : Nat, rules0 : Nat, updates0 : Nat,
   mask0 : SUBSET Nat]

(* The maps hold values of their types and no count passes its table.      *)
TypeOK ==
  /\ rt \in {"down", "seed", "install", "up"} \cup
            {"clear_counts", "clear_task", "clear_state", "clear_policy"} \cup
            {"stop_counts", "stop_task", "stop_state", "stop_policy"}
  /\ gen \in 0 .. MaxGen
  /\ tx \in TxType
  /\ ring \in Seq(RequestType) /\ Len(ring) <= RingCap
  /\ drain \in [who : Procs, kick : BOOLEAN, idx : Nat,
                at : {"free", "peek", "admitted", "written", "leaving"},
                e : RequestType \cup {None}]
  /\ ts_rules \in [0 .. MAX_RULES - 1 -> RequestType \cup {None}]
  /\ ts_updates \in [0 .. MAX_UPDATES - 1 -> RequestType \cup {None}]
  /\ DOMAIN ts_counts = {"rule", "update"}
  /\ ts_counts["rule"] \in 0 .. MAX_RULES
  /\ ts_counts["update"] \in 0 .. MAX_UPDATES
  /\ cap_task \in [Procs -> DomIds \cup {Unbound}]
  /\ DOMAIN cap_state \subseteq DomIds
  /\ \A d \in DOMAIN cap_state : cap_state[d] \in DomIds \cup {Unbound}
  /\ cap_policy \in [DomIds -> SUBSET (0 .. MAX_RULES - 1)]
  /\ catalog \in Seq([d : AllDeltas, k : Nat])
  /\ accepted \subseteq AllDeltas /\ failed \subseteq AllDeltas
  /\ late \in BOOLEAN

----------------------------------------------------------------------------
(* What the engine enforces: rules below the count that are bound to their *)
(* domain (te_rule_effect), updates below the count.                       *)
LiveRules ==
  {ts_rules[i] : i \in {j \in 0 .. ts_counts["rule"] - 1 :
                          j \in cap_policy[ts_rules[j].target]}}
LiveUpdates == {ts_updates[i] : i \in 0 .. ts_counts["update"] - 1}
Live == LiveRules \cup LiveUpdates
LiveOf(d) == {<<e.d, e.k>> : e \in {x \in Live : x.d = d /\ x.gen = gen}}

Whole(d) == {<<d, k>> : k \in 1 .. Size(d)}

(* While no request outlives its transaction, a delta is installed wholly  *)
(* or not at all: what submit_expect_count reports as admitted is live,    *)
(* every entry of it, and what was rolled back is gone, whoever drained    *)
(* the requests and with whatever authority.                               *)
TxAtomic ==
  ~late /\ rt \in {"install", "up"} /\ tx = Idle =>
    /\ \A d \in accepted : LiveOf(d) = Whole(d)
    /\ \A d \in failed : LiveOf(d) = {}

(* Under the same condition a live rule's id leads to its own metadata.    *)
CatalogAligned ==
  ~late /\ rt \in {"install", "up"} /\ tx = Idle =>
    \A r \in LiveRules :
      r.gen = gen =>
        r.id \in 1 .. Len(catalog) /\ catalog[r.id] = [d |-> r.d, k |-> r.k]

(* A delta the runtime reported as rolled back is not in force later.      *)
FailedGone ==
  rt \in {"install", "up"} /\ tx = Idle => \A d \in failed : LiveOf(d) = {}

(* The policy of a runtime's own domain comes from that runtime: whatever  *)
(* requests an earlier, crashed one left in the ring or in a drain, none   *)
(* of them is ever enforced on the agent (clear_runtime_state,             *)
(* fresh_runtime_domain_id).                                               *)
OwnPolicyOnly ==
  cap_task[Agent] # Unbound /\ rt \in {"install", "up"} =>
    \A e \in Live : e.target = cap_task[Agent] => e.gen = gen

(* Refinement.  At every step, not only between transactions, the channel  *)
(* keeps the promise of AtomicPolicy: a transaction, its rollback and      *)
(* whoever drains for it touch the entries of its own delta only, and the  *)
(* answer a caller gets is true when it is given.                          *)
Promise == INSTANCE AtomicPolicy WITH
  Entries <- [d \in AllDeltas |-> Whole(d)],
  NoDelta <- None,
  up <- rt \in {"install", "up"},
  busy <- IF tx = Idle THEN None ELSE tx.d,
  live <- UNION {LiveOf(d) : d \in AllDeltas},
  refused <- failed,
  lapsed <- late
Implements == Promise!Spec

(* Every transaction ends: in a success, in an error, or with its runtime. *)
TxEnds == (tx # Idle) ~> (tx = Idle)
=============================================================================
