------------------------- MODULE HookProfile_proofs -------------------------
(***************************************************************************)
(* Theorems about HookProfile, for every set of entries, every policy made *)
(* of them, every environment and any number of appended entries.          *)
(*                                                                         *)
(* The inductive invariant says where the loader's results come from: the  *)
(* features and programs are those of the policy it was given, and every   *)
(* entry of the table, loaded or appended, asks for features it has.       *)
(***************************************************************************)
EXTENDS HookProfile, FiniteSetTheorems, TLAPS

OptType == [lsm : BOOLEAN, full : BOOLEAN, advanced : BOOLEAN, reserve : BOOLEAN,
            rust : BOOLEAN, pinned : BOOLEAN]
PolicyType == [updates : SUBSET Updates, rules : SUBSET Rules]

RuleFeatures(r) == BlockFeatures(r) \cup OpFeatures(r) \cup MatchFeatures(r)

(* The loader works on a policy of the declared entries.                   *)
Typed ==
    /\ opts \in OptType /\ (opts.pinned => opts.rust)
    /\ cfg \in PolicyType
    /\ table \in PolicyType
    /\ phase \in {"start", "opened", "loaded", "ready", "ended"}

(* What the loader has decided follows from the policy and the environment.*)
Decided ==
    /\ phase \in {"opened", "loaded", "ready"} => features = Budget(cfg, opts).features
    /\ progs = IF phase # "ready" THEN {}
               ELSE IF opts.rust THEN RustPrograms(cfg, opts)
               ELSE CPrograms(cfg, opts)

(* Nothing is in the table whose features were not provided for.           *)
Provided ==
    phase \in {"loaded", "ready"} =>
        /\ \A u \in table.updates : UpdateFeatures(u) \subseteq features
        /\ \A r \in table.rules : RuleFeatures(r) \subseteq features

IInv == Typed /\ Decided /\ Provided

----------------------------------------------------------------------------
(* Operators.                                                              *)

(* The features of a policy are those of its entries.                      *)
LEMMA ConfigFeatures ==
  ASSUME NEW c, NEW f
  PROVE  f \in config_features(c) <=>
           \/ \E u \in c.updates : f \in UpdateFeatures(u)
           \/ \E r \in c.rules : f \in RuleFeatures(r)
  BY DEF config_features, RuleFeatures

(* A delta of one entry asks for the features of that entry.               *)
LEMMA DeltaFeatures ==
  /\ \A r : config_features([updates |-> {}, rules |-> {r}]) = RuleFeatures(r)
  /\ \A u : config_features([updates |-> {u}, rules |-> {}]) = UpdateFeatures(u)
<1>1. ASSUME NEW r
      PROVE  config_features([updates |-> {}, rules |-> {r}]) = RuleFeatures(r)
  BY DEF config_features, RuleFeatures
<1>2. ASSUME NEW u
      PROVE  config_features([updates |-> {u}, rules |-> {}]) = UpdateFeatures(u)
  BY DEF config_features
<1>. QED
  BY <1>1, <1>2

(* What an entry of each operation asks for.                               *)
LEMMA RuleAsks ==
  ASSUME NEW r \in Rules
  PROVE  /\ "FILE_FLOW" \in RuleFeatures(r) <=> r.op = "write"
         /\ "OPEN_RULES" \in RuleFeatures(r) <=> r.op = "open"
         /\ "WRITE_RULES" \in RuleFeatures(r) <=> r.op = "write"
         /\ "CONNECT" \in RuleFeatures(r) <=> r.op = "connect"
         /\ "RECV" \in RuleFeatures(r) <=> r.op = "recv"
         /\ "BLOCK_EXEC" \in RuleFeatures(r) <=>
              r.effect = "block" /\ r.op = "exec" /\ ~r.arg
         /\ "BLOCK_FILE" \in RuleFeatures(r) <=>
              r.effect = "block" /\ r.op \in {"open", "write"}
         /\ "BLOCK_CONNECT" \in RuleFeatures(r) <=>
              r.effect = "block" /\ r.op = "connect"
         /\ MatchFeatures(r) \subseteq RuleFeatures(r)
<1>. r \in RuleType
  BY EntryAssumption
<1>1. \A m : path_match_features(m) \subseteq {"PATH_CONTAINS", "PATH_SUFFIX"}
  BY DEF path_match_features
<1>2. MatchFeatures(r) \subseteq {"PATH_CONTAINS", "PATH_SUFFIX"}
  BY <1>1 DEF MatchFeatures
<1>3. /\ "BLOCK_EXEC" \in BlockFeatures(r) <=>
           r.effect = "block" /\ r.op = "exec" /\ ~r.arg
      /\ "BLOCK_FILE" \in BlockFeatures(r) <=>
           r.effect = "block" /\ r.op \in {"open", "write"}
      /\ "BLOCK_CONNECT" \in BlockFeatures(r) <=>
           r.effect = "block" /\ r.op = "connect"
      /\ BlockFeatures(r) \subseteq {"BLOCK_EXEC", "BLOCK_FILE", "BLOCK_CONNECT"}
  <2>1. CASE r.effect # "block"
    BY <2>1 DEF BlockFeatures
  <2>2. CASE r.effect = "block" /\ r.op = "exec" /\ ~r.arg
    BY <2>2 DEF BlockFeatures
  <2>3. CASE r.effect = "block" /\ r.op = "exec" /\ r.arg
    BY <2>3 DEF BlockFeatures
  <2>4. CASE r.effect = "block" /\ r.op # "exec"
    BY <2>4 DEF BlockFeatures
  <2>. QED
    BY <2>1, <2>2, <2>3, <2>4
<1>4. /\ "FILE_FLOW" \in OpFeatures(r) <=> r.op = "write"
      /\ "OPEN_RULES" \in OpFeatures(r) <=> r.op = "open"
      /\ "WRITE_RULES" \in OpFeatures(r) <=> r.op = "write"
      /\ "CONNECT" \in OpFeatures(r) <=> r.op = "connect"
      /\ "RECV" \in OpFeatures(r) <=> r.op = "recv"
      /\ OpFeatures(r) \subseteq
           {"FILE_FLOW", "OPEN_RULES", "WRITE_RULES", "CONNECT", "RECV"}
  BY DEF OpFeatures, RuleType, Ops
<1>. QED
  BY <1>2, <1>3, <1>4 DEF RuleFeatures

(* The same for updates, which never ask for what rules need.              *)
LEMMA UpdateAsks ==
  ASSUME NEW u \in Updates
  PROVE  /\ "FILE_FLOW" \in UpdateFeatures(u) <=> u.op \in {"open", "write"}
         /\ "CONNECT" \in UpdateFeatures(u) <=> u.op = "connect"
         /\ "RECV" \in UpdateFeatures(u) <=> u.op = "recv"
         /\ \A f \in {"OPEN_RULES", "WRITE_RULES", "BLOCK_EXEC", "BLOCK_FILE",
                      "BLOCK_CONNECT"} : f \notin UpdateFeatures(u)
         /\ u.op \in {"open", "write"} =>
              path_match_features(u.match) \subseteq UpdateFeatures(u)
<1>. u \in UpdateType
  BY EntryAssumption
<1>1. path_match_features(u.match) \subseteq {"PATH_CONTAINS", "PATH_SUFFIX"}
  BY DEF path_match_features
<1>. QED
  BY <1>1 DEF UpdateFeatures, UpdateType, Ops

(* The features the loader provides for policy c in environment o.         *)
LEMMA BudgetFeatures ==
  ASSUME NEW c \in PolicyType, NEW o \in OptType
  PROVE  /\ config_features(c) \subseteq Budget(c, o).features
         /\ Wide(o) => all_hook_features \subseteq Budget(c, o).features
         /\ \A f \in Budget(c, o).features :
              f \in config_features(c) \/ (Wide(o) /\ f \in all_hook_features)
                \/ f = "FILE_FLOW"
         /\ Budget(c, o).file_write <=> Wide(o) \/ HasOp(c, "write")
         /\ Budget(c, o).advanced <=> Wide(o) \/ o.advanced
  BY DEF Budget

(* write entries always come with file flow.                               *)
LEMMA WriteFlow ==
  ASSUME NEW c \in PolicyType, NEW o \in OptType, Budget(c, o).file_write
  PROVE  "FILE_FLOW" \in Budget(c, o).features
<1>1. CASE Wide(o)
  BY <1>1, BudgetFeatures DEF all_hook_features
<1>2. CASE HasOp(c, "write")
  <2>1. "FILE_FLOW" \in config_features(c)
    BY <1>2, ConfigFeatures, RuleAsks, UpdateAsks DEF HasOp, PolicyType
  <2>. QED
    BY <2>1, BudgetFeatures
<1>. QED
  BY <1>1, <1>2, BudgetFeatures

----------------------------------------------------------------------------
(* The two loaders.                                                        *)

(* Feature by feature, the Rust loader's budget says what the C loader     *)
(* finds in the policy.                                                    *)
LEMMA TwinTests ==
  ASSUME NEW c \in PolicyType, NEW o \in OptType, ~o.pinned
  PROVE  LET F == Budget(c, o).features IN
         /\ "BLOCK_EXEC" \in F <=> o.full \/ config_has_block_op(c, "exec")
         /\ "BLOCK_CONNECT" \in F <=> o.full \/ config_has_block_op(c, "connect")
         /\ "BLOCK_FILE" \in F <=>
              o.full \/ config_has_block_op(c, "open") \/ config_has_block_op(c, "write")
         /\ "RECV" \in F <=> o.full \/ HasOp(c, "recv")
<1>. DEFINE F == Budget(c, o).features
<1>1. Wide(o) <=> o.full
  BY DEF Wide
<1>2. \A f \in all_hook_features \ {"FILE_FLOW"} :
        f \in F <=> o.full \/ f \in config_features(c)
  BY <1>1, BudgetFeatures
<1>3. {"BLOCK_EXEC", "BLOCK_CONNECT", "BLOCK_FILE", "RECV"}
        \subseteq all_hook_features \ {"FILE_FLOW"}
  BY DEF all_hook_features
<1>4. c.rules \subseteq Rules /\ c.updates \subseteq Updates
  BY DEF PolicyType
<1>5. "BLOCK_EXEC" \in config_features(c) <=> config_has_block_op(c, "exec")
  BY <1>4, ConfigFeatures, RuleAsks, UpdateAsks DEF config_has_block_op
<1>6. "BLOCK_CONNECT" \in config_features(c) <=> config_has_block_op(c, "connect")
  BY <1>4, ConfigFeatures, RuleAsks, UpdateAsks DEF config_has_block_op
<1>7. "BLOCK_FILE" \in config_features(c) <=>
        config_has_block_op(c, "open") \/ config_has_block_op(c, "write")
  BY <1>4, ConfigFeatures, RuleAsks, UpdateAsks DEF config_has_block_op
<1>8. "RECV" \in config_features(c) <=> HasOp(c, "recv")
  BY <1>4, ConfigFeatures, RuleAsks, UpdateAsks DEF HasOp
<1>. QED
  BY <1>2, <1>3, <1>5, <1>6, <1>7, <1>8

(* Hence both loaders attach the same programs.                            *)
LEMMA SamePrograms ==
  ASSUME NEW c \in PolicyType, NEW o \in OptType, ~o.pinned
  PROVE  CPrograms(c, o) = RustPrograms(c, o)
<1>1. Budget(c, o).advanced <=> o.full \/ o.advanced
  BY BudgetFeatures DEF Wide
<1>2. ASSUME NEW n \in LsmHooks
      PROVE  LsmAutoload(n, c, o) <=> o.lsm /\ lsm_needed(n, Budget(c, o))
  BY <1>1, TwinTests DEF LsmAutoload, lsm_needed, LsmHooks
<1>. QED
  BY <1>2 DEF CPrograms, RustPrograms

----------------------------------------------------------------------------
(* The invariant.                                                          *)

(* The loader starts with nothing decided.                                 *)
LEMMA InitIInv == Init => IInv
<1>. SUFFICES ASSUME Init PROVE IInv
  OBVIOUS
<1>1. Empty \in PolicyType
  BY DEF Empty, PolicyType
<1>2. Typed
  BY <1>1, PolicyAssumption DEF Init, Typed, OptType, PolicyType
<1>. QED
  BY <1>2 DEF Init, IInv, Decided, Provided

(* A policy that is loaded has its features provided.                      *)
LEMMA LoadedProvided ==
  ASSUME NEW c \in PolicyType, NEW o \in OptType
  PROVE  /\ \A u \in c.updates : UpdateFeatures(u) \subseteq Budget(c, o).features
         /\ \A r \in c.rules : RuleFeatures(r) \subseteq Budget(c, o).features
  BY ConfigFeatures, BudgetFeatures

(* What the append check lets through is provided for: it tests the very   *)
(* features, or, for a pinned engine, features that are all reserved.      *)
LEMMA CheckedProvided ==
  ASSUME IInv, phase = "ready", NEW c, validate_supported_features(c)
  PROVE  config_features(c) \subseteq features
<1>1. CASE ~opts.pinned
  BY <1>1 DEF validate_supported_features, HandleFeatures
<1>2. CASE opts.pinned
  <2>1. Wide(opts) /\ features = Budget(cfg, opts).features
    BY <1>2 DEF Wide, IInv, Decided
  <2>2. all_hook_features \subseteq features
    BY <2>1, BudgetFeatures DEF IInv, Typed
  <2>. QED
    BY <1>2, <2>2 DEF validate_supported_features, HandleFeatures
<1>. QED
  BY <1>1, <1>2

(* Every error path leaves nothing behind.                                 *)
LEMMA CleanupIInv == IInv /\ Cleanup => IInv'
<1>1. Empty \in PolicyType
  BY DEF Empty, PolicyType
<1>. QED
  BY <1>1 DEF IInv, Typed, Decided, Provided, Cleanup

(* Appending entries that are provided for keeps the invariant.            *)
LEMMA AppendIInv ==
  ASSUME IInv, NEW t \in PolicyType, phase = "ready",
         table' = t, UNCHANGED <<opts, cfg, phase, features, progs>>,
         \A u \in t.updates : u \in table.updates \/ UpdateFeatures(u) \subseteq features,
         \A r \in t.rules : r \in table.rules \/ RuleFeatures(r) \subseteq features
  PROVE  IInv'
<1>1. Typed'
  BY DEF IInv, Typed
<1>2. Decided'
  BY DEF IInv, Decided
<1>3. Provided'
  BY DEF IInv, Provided
<1>. QED
  BY <1>1, <1>2, <1>3 DEF IInv

(* Every step of the loader and every append keeps the invariant.          *)
LEMMA NextIInv == IInv /\ [Next]_vars => IInv'
<1>. SUFFICES ASSUME IInv, [Next]_vars PROVE IInv'
  OBVIOUS
<1>1. CASE UNCHANGED vars
  BY <1>1 DEF IInv, Typed, Decided, Provided, vars
<1>2. CASE Open
  BY <1>2, CleanupIInv DEF Open, IInv, Typed, Decided, Provided
<1>3. CASE Load
  <2>1. CASE Cleanup
    BY <2>1, CleanupIInv
  <2>2. CASE /\ phase = "opened" /\ phase' = "loaded" /\ table' = cfg
             /\ UNCHANGED <<opts, cfg, features, progs>>
    <3>1. features = Budget(cfg, opts).features /\ cfg \in PolicyType /\ opts \in OptType
      BY <2>2 DEF IInv, Decided, Typed
    <3>2. Provided'
      BY <2>2, <3>1, LoadedProvided DEF Provided
    <3>. QED
      BY <2>2, <3>2 DEF IInv, Typed, Decided
  <2>. QED
    BY <1>3, <2>1, <2>2 DEF Load
<1>4. CASE Attach
  BY <1>4, CleanupIInv DEF Attach, IInv, Typed, Decided, Provided
<1>5. CASE Stop
  BY <1>5, CleanupIInv DEF Stop
<1>6. ASSUME NEW r \in Rules, AppendRule(r) PROVE IInv'
  <2>1. RuleFeatures(r) \subseteq features
    BY <1>6, CheckedProvided, DeltaFeatures DEF AppendRule
  <2>2. [table EXCEPT !.rules = @ \cup {r}] \in PolicyType
    BY DEF IInv, Typed, PolicyType
  <2>3. table \in PolicyType
    BY DEF IInv, Typed
  <2>. QED
    BY <1>6, <2>1, <2>2, <2>3, AppendIInv DEF AppendRule, PolicyType
<1>7. ASSUME NEW u \in Updates, AppendUpdate(u) PROVE IInv'
  <2>1. UpdateFeatures(u) \subseteq features
    BY <1>7, CheckedProvided, DeltaFeatures DEF AppendUpdate
  <2>2. [table EXCEPT !.updates = @ \cup {u}] \in PolicyType
    BY DEF IInv, Typed, PolicyType
  <2>3. table \in PolicyType
    BY DEF IInv, Typed
  <2>. QED
    BY <1>7, <2>1, <2>2, <2>3, AppendIInv DEF AppendUpdate, PolicyType
<1>. QED
  BY <1>1, <1>2, <1>3, <1>4, <1>5, <1>6, <1>7 DEF Next

(* The loader, in either language, and the append path keep features,      *)
(* programs and table in step.                                             *)
THEOREM InductiveInvariant == Spec => []IInv
  BY InitIInv, NextIInv, PTL DEF Spec

----------------------------------------------------------------------------
(* What follows from it.                                                   *)

(* Whichever loader ran, the attached programs are the Rust loader's.      *)
LEMMA ReadyPrograms ==
  ASSUME IInv, phase = "ready"
  PROVE  /\ progs = RustPrograms(cfg, opts)
         /\ \A n \in Tracepoints :
              n \in progs <=> tracepoint_autoload_needed(n, Budget(cfg, opts))
         /\ \A n \in LsmHooks :
              n \in progs <=> opts.lsm /\ lsm_needed(n, Budget(cfg, opts))
         /\ features = Budget(cfg, opts).features
         /\ "none" \notin progs
<1>1. cfg \in PolicyType /\ opts \in OptType
  BY DEF IInv, Typed
<1>2. progs = RustPrograms(cfg, opts)
  BY <1>1, SamePrograms DEF IInv, Typed, Decided
<1>3. Tracepoints \cap LsmHooks = {} /\ "none" \notin Tracepoints \cup LsmHooks
  BY DEF Tracepoints, LsmHooks
<1>. QED
  BY <1>2, <1>3 DEF RustPrograms, IInv, Decided

(* The tracepoint programs, by the features that switch them on.           *)
LEMMA ReadyTracepoints ==
  ASSUME IInv, phase = "ready"
  PROVE  /\ "exec_args" \in progs
         /\ "FILE_FLOW" \in features =>
              {"file_open", "file_write_path", "fd_flow"} \subseteq progs
         /\ "OPEN_RULES" \in features => "file_open" \in progs
         /\ "rename_rule_exit" \in progs <=> "WRITE_RULES" \in features
         /\ "rename_flow_exit" \in progs <=>
              "FILE_FLOW" \in features /\ "WRITE_RULES" \notin features
         /\ "CONNECT" \in features => {"connect_or_recv", "send_addr"} \subseteq progs
         /\ "file_advanced" \in progs <=> "FILE_FLOW" \in features /\ Advanced
         /\ "RECV" \in features => {"recv_addr", "fd_flow"} \subseteq progs
         /\ "file_write_path" \in progs => "FILE_FLOW" \in features
<1>. DEFINE b == Budget(cfg, opts)
<1>1. cfg \in PolicyType /\ opts \in OptType
  BY DEF IInv, Typed
<1>2. b.file_write => "FILE_FLOW" \in b.features
  BY <1>1, WriteFlow
<1>3. features = b.features
  BY ReadyPrograms
<1>4. \A n \in Tracepoints : n \in progs <=> tracepoint_autoload_needed(n, b)
  BY ReadyPrograms
<1>5. b.advanced <=> Advanced
  BY DEF Budget, Advanced
<1>. HIDE DEF b
<1>. QED
  BY <1>2, <1>3, <1>4, <1>5 DEF Tracepoints, tracepoint_autoload_needed

(* TwinLoaders holds for every policy: the C loader's tests of the rules   *)
(* and the Rust loader's tests of the features never differ, so which of   *)
(* the two loads the engine cannot matter.                                 *)
THEOREM LoadersAgree == Spec => []TwinLoaders
<1>1. IInv => TwinLoaders
  BY ReadyPrograms, SamePrograms DEF TwinLoaders, IInv, Typed
<1>. QED
  BY <1>1, InductiveInvariant, PTL

(* RenamePaired: one, and only one, of the two rename exits is attached    *)
(* when the program that fills ts_renamepend is.                           *)
THEOREM RenamesPaired == Spec => []RenamePaired
<1>1. IInv => RenamePaired
  <2>. SUFFICES ASSUME IInv, "file_write_path" \in progs
                PROVE  Cardinality(progs \cap {"rename_rule_exit", "rename_flow_exit"}) = 1
    BY DEF RenamePaired
  <2>1. phase = "ready"
    BY DEF IInv, Decided
  <2>2. \E n : progs \cap {"rename_rule_exit", "rename_flow_exit"} = {n}
    <3>1. CASE "WRITE_RULES" \in features
      BY <2>1, <3>1, ReadyTracepoints
    <3>2. CASE "WRITE_RULES" \notin features
      BY <2>1, <3>2, ReadyTracepoints
    <3>. QED
      BY <3>1, <3>2
  <2>. QED
    BY <2>2, FS_Singleton
<1>. QED
  BY <1>1, InductiveInvariant, PTL

(* CheckAgrees: the kernel admits whatever the check in user space passed, *)
(* so an append never fails half way for want of a feature.                *)
THEOREM ChecksAgree == Spec => []CheckAgrees
<1>1. IInv => CheckAgrees
  <2>. SUFFICES ASSUME IInv, phase = "ready"
                PROVE  CheckAgrees
    BY DEF CheckAgrees
  <2>1. ASSUME NEW r \in Rules,
               validate_supported_features([updates |-> {}, rules |-> {r}])
        PROVE  cap_rule_supported(r)
    <3>1. RuleFeatures(r) \subseteq features
      BY <2>1, CheckedProvided, DeltaFeatures
    <3>2. r.op \in {"open", "write"} =>
            path_match_features(r.match) \cup path_match_features(r.cond) \subseteq features
      BY <3>1, RuleAsks DEF MatchFeatures
    <3>. QED
      BY <3>1, <3>2, RuleAsks DEF cap_rule_supported, cap_path_match_supported
  <2>2. ASSUME NEW u \in Updates,
               validate_supported_features([updates |-> {u}, rules |-> {}])
        PROVE  cap_update_supported(u)
    <3>1. UpdateFeatures(u) \subseteq features
      BY <2>2, CheckedProvided, DeltaFeatures
    <3>. QED
      BY <3>1, UpdateAsks DEF cap_update_supported, cap_path_match_supported
  <2>. QED
    BY <2>1, <2>2 DEF CheckAgrees
<1>. QED
  BY <1>1, InductiveInvariant, PTL

(* The LSM hooks, by the features that switch them on.                     *)
LEMMA ReadyHooks ==
  ASSUME IInv, phase = "ready", opts.lsm
  PROVE  /\ "bprm_check" \in progs <=> "BLOCK_EXEC" \in features
         /\ "socket_connect" \in progs <=> "BLOCK_CONNECT" \in features
         /\ "socket_recvmsg" \in progs <=> "RECV" \in features
         /\ "file_permission" \in progs <=> "BLOCK_FILE" \in features
         /\ "file_paths" \in progs <=> "BLOCK_FILE" \in features
         /\ "mmap_hooks" \in progs <=> Advanced /\ "BLOCK_FILE" \in features
<1>. DEFINE b == Budget(cfg, opts)
<1>1. \A n \in LsmHooks : n \in progs <=> lsm_needed(n, b)
  BY ReadyPrograms
<1>2. features = b.features
  BY ReadyPrograms
<1>3. b.advanced <=> Advanced
  BY DEF Budget, Advanced
<1>. HIDE DEF b
<1>. QED
  BY <1>1, <1>2, <1>3 DEF LsmHooks, lsm_needed

(* A block rule with its features provided is evaluated by a hook on every *)
(* call but those of RuleGap.                                              *)
LEMMA BlockRuleCovered ==
  ASSUME IInv, phase = "ready", NEW r \in Rules, RuleFeatures(r) \subseteq features,
         r.effect = "block", NEW w \in Ways(r.op)
  PROVE  Fires(w, r) <=> ~RuleGap(w, r)
<1>. r \in RuleType /\ opts \in OptType
  BY EntryAssumption DEF IInv, Typed
<1>1. Matchable(r)
  BY RuleAsks DEF Matchable
<1>2. Fires(w, r) <=> opts.lsm /\ PreProgram(w) \in progs /\ (r.op = "exec" => ~r.arg)
  BY <1>1 DEF Fires
<1>3. RuleGap(w, r) <=> \/ ~opts.lsm
                        \/ r.op = "exec" /\ r.arg
                        \/ w \in {"send_addr", "recv_addr"}
                        \/ w = "mmap" /\ ~Advanced
  BY DEF RuleGap
<1>4. CASE ~opts.lsm
  BY <1>2, <1>3, <1>4
<1>5. CASE opts.lsm /\ r.op = "exec"
  <2>1. w = "execve" /\ PreProgram(w) = "bprm_check"
    BY <1>5 DEF Ways, PreProgram
  <2>2. ~r.arg => "bprm_check" \in progs
    BY <1>5, RuleAsks, ReadyHooks
  <2>. QED
    BY <1>2, <1>3, <1>5, <2>1, <2>2
<1>6. CASE opts.lsm /\ r.op \in {"open", "write"}
  <2>1. w \notin {"send_addr", "recv_addr"}
    BY <1>6 DEF Ways
  <2>2. PreProgram(w) = IF w = "mmap" THEN "mmap_hooks"
                        ELSE IF w \in {"read_fd", "write_fd", "copy_fd"}
                             THEN "file_permission" ELSE "file_paths"
    BY <1>6 DEF Ways, PreProgram
  <2>3. PreProgram(w) \in progs <=> (w = "mmap" => Advanced)
    BY <1>6, <2>2, RuleAsks, ReadyHooks
  <2>. QED
    BY <1>2, <1>3, <1>6, <2>1, <2>3
<1>7. CASE opts.lsm /\ r.op = "connect"
  <2>1. \/ w = "connect" /\ PreProgram(w) = "socket_connect"
        \/ w = "send_addr" /\ PreProgram(w) = "none"
    BY <1>7 DEF Ways, PreProgram
  <2>2. "socket_connect" \in progs /\ "none" \notin progs
    BY <1>7, RuleAsks, ReadyHooks, ReadyPrograms
  <2>. QED
    BY <1>2, <1>3, <1>7, <2>1, <2>2
<1>8. CASE opts.lsm /\ r.op = "recv"
  <2>1. \/ w \in {"recv_peer", "read_socket"} /\ PreProgram(w) = "socket_recvmsg"
        \/ w = "recv_addr" /\ PreProgram(w) = "none"
    BY <1>8 DEF Ways, PreProgram
  <2>2. "socket_recvmsg" \in progs /\ "none" \notin progs
    BY <1>8, RuleAsks, ReadyHooks, ReadyPrograms
  <2>. QED
    BY <1>2, <1>3, <1>8, <2>1, <2>2
<1>. QED
  BY <1>4, <1>5, <1>6, <1>7, <1>8 DEF RuleType, Ops

(* The same for a notify or kill rule, evaluated after the event.          *)
LEMMA LaterRuleCovered ==
  ASSUME IInv, phase = "ready", NEW r \in Rules, RuleFeatures(r) \subseteq features,
         r.effect # "block", NEW w \in Ways(r.op)
  PROVE  Fires(w, r) <=> ~RuleGap(w, r)
<1>. r \in RuleType /\ opts \in OptType
  BY EntryAssumption DEF IInv, Typed
<1>1. Matchable(r)
  BY RuleAsks DEF Matchable
<1>2. Fires(w, r) <=> /\ PostProgram(w) \in progs
                      /\ w \notin FlowOnly
                      /\ opts.lsm => w \notin LeftToHook
  BY <1>1 DEF Fires
<1>3. RuleGap(w, r) <=> \/ w \in FlowOnly \cup {"ftruncate"}
                        \/ opts.lsm /\ w \in LeftToHook
  BY DEF RuleGap
<1>4. CASE w \in FlowOnly
  BY <1>2, <1>3, <1>4
<1>5. CASE w = "ftruncate"
  <2>1. PostProgram(w) \notin progs
    BY <1>5, ReadyPrograms DEF PostProgram
  <2>. QED
    BY <1>2, <1>3, <1>5, <2>1
<1>6. CASE w \notin FlowOnly \cup {"ftruncate"}
  <2>1. PostProgram(w) \in progs
    BY <1>6, RuleAsks, ReadyTracepoints DEF Ways, PostProgram, FlowOnly, RuleType, Ops
  <2>. QED
    BY <1>2, <1>3, <1>6, <2>1
<1>. QED
  BY <1>4, <1>5, <1>6

(* An update with its features provided is applied on every call but those *)
(* of UpdateGap.                                                           *)
LEMMA UpdateCovered ==
  ASSUME IInv, phase = "ready", NEW u \in Updates, UpdateFeatures(u) \subseteq features,
         NEW w \in Ways(u.op)
  PROVE  Applies(w, u) <=> ~UpdateGap(w)
<1>. u \in UpdateType /\ opts \in OptType
  BY EntryAssumption DEF IInv, Typed
<1>1. CASE w = "rename"
  <2>1. u.op = "write"
    BY <1>1 DEF Ways, UpdateType, Ops
  <2>2. Applies(w, u)
    BY <1>1, <2>1, UpdateAsks, ReadyTracepoints DEF Applies, LeftToHook, FlowOnly
  <2>3. ~UpdateGap(w)
    BY <1>1 DEF UpdateGap, FlowOnly
  <2>. QED
    BY <2>2, <2>3
<1>2. CASE opts.lsm /\ w \in LeftToHook \cup {"ftruncate"}
  <2>1. Applies(w, u) <=> PreProgram(w) \in progs
    BY <1>2 DEF Applies, LeftToHook, FlowOnly
  <2>2. CASE w \in {"send_addr", "recv_addr"}
    BY <1>2, <2>1, <2>2, ReadyPrograms DEF PreProgram, UpdateGap
  <2>3. CASE w \in {"recv_peer", "read_socket"}
    <3>1. u.op = "recv"
      BY <2>3 DEF Ways, UpdateType, Ops
    <3>2. PreProgram(w) = "socket_recvmsg" /\ "socket_recvmsg" \in progs
      BY <1>2, <2>3, <3>1, UpdateAsks, ReadyHooks DEF PreProgram
    <3>. QED
      BY <1>2, <2>1, <2>3, <3>2 DEF UpdateGap, FlowOnly
  <2>4. CASE w \in {"read_fd", "write_fd", "copy_fd", "ftruncate"}
    <3>1. PreProgram(w) \in {"file_permission", "file_paths"}
      BY <2>4 DEF PreProgram
    <3>2. PreProgram(w) \in progs <=> "BLOCK_FILE" \in features
      BY <1>2, <3>1, ReadyHooks
    <3>. QED
      BY <1>2, <2>1, <2>4, <3>2 DEF UpdateGap, FlowOnly
  <2>5. CASE w = "mmap"
    <3>1. PreProgram(w) \in progs <=> Advanced /\ "BLOCK_FILE" \in features
      BY <1>2, <2>5, ReadyHooks DEF PreProgram
    <3>. QED
      BY <1>2, <2>1, <2>5, <3>1 DEF UpdateGap, FlowOnly
  <2>. QED
    BY <1>2, <2>2, <2>3, <2>4, <2>5 DEF LeftToHook, FlowOnly
<1>3. CASE w # "rename" /\ ~(opts.lsm /\ w \in LeftToHook \cup {"ftruncate"})
  <2>1. Applies(w, u) <=> PostProgram(w) \in progs
    BY <1>3 DEF Applies
  <2>2. CASE w = "ftruncate"
    <3>1. ~opts.lsm /\ PostProgram(w) \notin progs
      BY <1>3, <2>2, ReadyPrograms DEF PostProgram
    <3>. QED
      BY <2>1, <2>2, <3>1 DEF UpdateGap
  <2>3. CASE w \in {"copy_fd", "mmap"}
    <3>1. u.op \in {"open", "write"} /\ PostProgram(w) = "file_advanced"
      BY <2>3 DEF Ways, PostProgram, UpdateType, Ops
    <3>2. PostProgram(w) \in progs <=> Advanced
      BY <3>1, UpdateAsks, ReadyTracepoints
    <3>3. ~opts.lsm
      BY <1>3, <2>3 DEF LeftToHook, FlowOnly
    <3>. QED
      BY <2>1, <2>3, <3>2, <3>3 DEF UpdateGap
  <2>4. CASE w \notin {"copy_fd", "mmap", "ftruncate"}
    <3>1. PostProgram(w) \in progs
      BY <1>3, <2>4, UpdateAsks, ReadyTracepoints DEF Ways, PostProgram, UpdateType, Ops
    <3>2. ~UpdateGap(w)
      BY <1>3, <2>4 DEF UpdateGap, LeftToHook, FlowOnly
    <3>. QED
      BY <2>1, <3>1, <3>2
  <2>. QED
    BY <2>2, <2>3, <2>4
<1>. QED
  BY <1>1, <1>2, <1>3

(* EntriesCovered: rules are evaluated and updates applied on every call   *)
(* of Ways except those of RuleGap and UpdateGap, whatever the policy, the *)
(* environment and the entries appended later.                             *)
THEOREM EntriesAreCovered == Spec => []EntriesCovered
<1>1. IInv => EntriesCovered
  <2>. SUFFICES ASSUME IInv, phase = "ready"
                PROVE  EntriesCovered
    BY DEF EntriesCovered
  <2>1. table.rules \subseteq Rules /\ table.updates \subseteq Updates
    BY DEF IInv, Typed, PolicyType
  <2>2. \A r \in table.rules : RuleFeatures(r) \subseteq features
    BY DEF IInv, Provided
  <2>3. \A u \in table.updates : UpdateFeatures(u) \subseteq features
    BY DEF IInv, Provided
  <2>4. ASSUME NEW r \in table.rules, NEW w \in Ways(r.op)
        PROVE  Fires(w, r) <=> ~RuleGap(w, r)
    BY <2>1, <2>2, BlockRuleCovered, LaterRuleCovered
  <2>. QED
    BY <2>1, <2>3, <2>4, UpdateCovered DEF EntriesCovered
<1>. QED
  BY <1>1, InductiveInvariant, PTL
=============================================================================
