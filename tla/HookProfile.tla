---------------------------- MODULE HookProfile ----------------------------
(***************************************************************************)
(* Which BPF programs are loaded for a policy, and what they can evaluate. *)
(*                                                                         *)
(* Three places must agree, in two languages and the kernel: the loader    *)
(* (src/bpf/process.c, and src/bpf/src/lib.rs for the Rust runtime) turns  *)
(* a policy and the ACTPLANE_* environment into policy_features and a set  *)
(* of programs; the append path and the kernel admit later entries only    *)
(* against policy_features (lib.rs, capability.bpf.h); and the programs    *)
(* look at policy_features and enforce_mode to decide what to evaluate     *)
(* (process.bpf.c).  An entry admitted without a program that evaluates it *)
(* is a rule that silently never fires.                                    *)
(*                                                                         *)
(* Matches: "exact" stands for the exact, prefix and any matches, which    *)
(* need no feature.  A rule's cond is the match kind of its TCOND_TARGET   *)
(* exception, "none" when it has another condition or none.                *)
(***************************************************************************)
EXTENDS FiniteSets

CONSTANTS
    Updates,   \* the updates policies and deltas are made of
    Rules,     \* the rules policies and deltas are made of
    Policies,  \* the policies the loader may be given
    OneDelta   \* bound: at most one entry is appended after load

Ops == {"exec", "open", "write", "connect", "recv"}
Matches == {"exact", "suffix", "contains"}
UpdateType == [op : Ops, match : Matches]
RuleType == [op : Ops, match : Matches, arg : BOOLEAN, cond : Matches \cup {"none"},
             effect : {"notify", "kill", "block"}]

ASSUME EntryAssumption == Updates \subseteq UpdateType /\ Rules \subseteq RuleType
ASSUME PolicyAssumption ==
    \A c \in Policies : c \in [updates : SUBSET Updates, rules : SUBSET Rules]
ASSUME BoundAssumption == OneDelta \in BOOLEAN

VARIABLES
    opts,      \* the machine and the environment the loader starts in
    cfg,       \* the policy it was given
    phase,     \* how far the loader has come
    features,  \* policy_features, read-only in the loaded object
    progs,     \* the programs that are loaded and attached
    table      \* the entries in ts_updates and ts_rules

vars == <<opts, cfg, phase, features, progs, table>>

---------------------------------------------------------------------------
(* Features of a policy. *)

path_match_features(m) ==
    CASE m = "contains" -> {"PATH_CONTAINS"}
      [] m = "suffix"   -> {"PATH_SUFFIX"}
      [] OTHER          -> {}

\* Mutant: an update on write alone does not ask for the file hooks.
MutUpdateFeatures(u) ==
    CASE u.op = "open"    -> {"FILE_FLOW"} \cup path_match_features(u.match)
      [] u.op = "connect" -> {"CONNECT"}
      [] u.op = "recv"    -> {"RECV"}
      [] OTHER            -> {}

UpdateFeatures(u) ==
    CASE u.op \in {"open", "write"} -> {"FILE_FLOW"} \cup path_match_features(u.match)
      [] u.op = "connect"           -> {"CONNECT"}
      [] u.op = "recv"              -> {"RECV"}
      [] OTHER                      -> {}

BlockFeatures(r) ==
    IF r.effect # "block" THEN {}
    ELSE CASE r.op = "exec"              -> IF r.arg THEN {} ELSE {"BLOCK_EXEC"}
           [] r.op \in {"open", "write"} -> {"BLOCK_FILE"}
           [] r.op = "connect"           -> {"BLOCK_CONNECT"}
           [] OTHER                      -> {}

\* Mutant: rules on open ask for the flow hooks only.
MutOpFeatures(r) ==
    CASE r.op = "open"    -> {"FILE_FLOW"}
      [] r.op = "write"   -> {"FILE_FLOW", "WRITE_RULES"}
      [] r.op = "connect" -> {"CONNECT"}
      [] r.op = "recv"    -> {"RECV"}
      [] OTHER            -> {}

OpFeatures(r) ==
    CASE r.op = "open"    -> {"OPEN_RULES"}
      [] r.op = "write"   -> {"FILE_FLOW", "WRITE_RULES"}
      [] r.op = "connect" -> {"CONNECT"}
      [] r.op = "recv"    -> {"RECV"}
      [] OTHER            -> {}

MatchFeatures(r) ==
    IF r.op \in {"open", "write"}
    THEN path_match_features(r.match) \cup path_match_features(r.cond)
    ELSE {}

config_features(c) ==
    UNION ({UpdateFeatures(u) : u \in c.updates}
           \cup {BlockFeatures(r) \cup OpFeatures(r) \cup MatchFeatures(r) : r \in c.rules})

all_hook_features ==
    {"CONNECT", "RECV", "FILE_FLOW", "BLOCK_EXEC", "BLOCK_FILE", "BLOCK_CONNECT"}

validate_config(c) ==
    /\ \A u \in c.updates : ~(u.op = "exec" /\ u.match = "suffix")
    /\ \A r \in c.rules : r.op = "exec" => r.match # "suffix" /\ r.cond # "suffix"

---------------------------------------------------------------------------
(* What the loader decides before the object is loaded. *)

HasOp(c, op) == (\E u \in c.updates : u.op = op) \/ (\E r \in c.rules : r.op = op)

\* Mutant: argv-sensitive block rules count, although no LSM hook evaluates them.
MutConfig_has_block_op(c, op) == \E r \in c.rules : r.effect = "block" /\ r.op = op

\* The C loader tests the policy, the full profile turns everything on.
config_has_block_op(c, op) ==
    \E r \in c.rules : r.effect = "block" /\ r.op = op /\ (op = "exec" => ~r.arg)

\* Mutant: the pinned engine is installed without the reserve.
MutWide(o) == o.full

\* ACTPLANE_HOOK_PROFILE=full or, for the pinned engine, HookReserve::full_profile.
Wide(o) == o.full \/ o.pinned

Budget(c, o) ==
    [features   |-> config_features(c)
                    \cup (IF Wide(o) THEN all_hook_features ELSE {})
                    \cup (IF o.reserve THEN {"FILE_FLOW"} ELSE {}),
     file_write |-> Wide(o) \/ HasOp(c, "write"),
     advanced   |-> Wide(o) \/ o.advanced]

\* The tracepoint programs, one name per group the loader switches together.
Tracepoints == {"core", "exec_args", "file_open", "file_write_path", "rename_rule_exit",
                "rename_flow_exit", "fd_flow", "connect_or_recv", "send_addr",
                "recv_addr", "file_advanced"}

tracepoint_autoload_needed(name, b) ==
    LET file_flow   == "FILE_FLOW" \in b.features
        write_rules == "WRITE_RULES" \in b.features
        connect     == "CONNECT" \in b.features
        recv        == "RECV" \in b.features
        far_flow    == file_flow /\ b.advanced
    IN  CASE name \in {"core", "exec_args"}  -> TRUE
          [] name = "file_open"              -> file_flow \/ "OPEN_RULES" \in b.features
          [] name = "rename_rule_exit"       -> write_rules
          [] name = "rename_flow_exit"       -> file_flow /\ ~write_rules
          [] name = "file_write_path"        -> b.file_write \/ file_flow
          [] name = "fd_flow"                -> file_flow \/ connect \/ recv
          [] name = "connect_or_recv"        -> connect \/ recv \/ far_flow
          [] name = "send_addr"              -> connect \/ far_flow
          [] name = "recv_addr"              -> recv \/ far_flow
          [] name = "file_advanced"          -> far_flow

LsmHooks == {"bprm_check", "file_permission", "mmap_hooks", "file_paths", "socket_connect",
             "socket_recvmsg", "self_protect"}

\* main(): the LSM programs the C loader leaves on.
LsmAutoload(name, c, o) ==
    LET advanced   == o.full \/ o.advanced
        block_file == o.full \/ config_has_block_op(c, "open") \/ config_has_block_op(c, "write")
    IN  /\ o.lsm
        /\ CASE name = "bprm_check"      -> o.full \/ config_has_block_op(c, "exec")
             [] name = "mmap_hooks"      -> block_file /\ advanced
             [] name = "socket_connect"  -> o.full \/ config_has_block_op(c, "connect")
             [] name = "socket_recvmsg"  -> o.full \/ HasOp(c, "recv")
             [] name = "self_protect"    -> TRUE
             [] OTHER                    -> block_file

\* lib.rs: the Rust loader decides from the features instead.
lsm_needed(name, b) ==
    CASE name = "self_protect"   -> TRUE
      [] name = "bprm_check"     -> "BLOCK_EXEC" \in b.features
      [] name = "socket_connect" -> "BLOCK_CONNECT" \in b.features
      [] name = "socket_recvmsg" -> "RECV" \in b.features
      [] name = "mmap_hooks"     -> b.advanced /\ "BLOCK_FILE" \in b.features
      [] OTHER                   -> "BLOCK_FILE" \in b.features

CPrograms(c, o) ==
    {n \in Tracepoints : tracepoint_autoload_needed(n, Budget(c, o))}
    \cup {n \in LsmHooks : LsmAutoload(n, c, o)}

RustPrograms(c, o) ==
    {n \in Tracepoints : tracepoint_autoload_needed(n, Budget(c, o))}
    \cup {n \in LsmHooks : o.lsm /\ lsm_needed(n, Budget(c, o))}

---------------------------------------------------------------------------
(* The kernel's admission of one appended entry. *)

cap_path_match_supported(m) == path_match_features(m) \subseteq features

cap_update_supported(u) ==
    /\ u.op \in {"open", "write"} =>
            "FILE_FLOW" \in features /\ cap_path_match_supported(u.match)
    /\ u.op = "connect" => "CONNECT" \in features
    /\ u.op = "recv" => "RECV" \in features

cap_rule_supported(r) ==
    /\ r.effect = "block" =>
            /\ r.op = "exec" /\ ~r.arg => "BLOCK_EXEC" \in features
            /\ r.op \in {"open", "write"} => "BLOCK_FILE" \in features
            /\ r.op = "connect" => "BLOCK_CONNECT" \in features
    /\ r.op = "open" => "OPEN_RULES" \in features
    /\ r.op = "write" => "WRITE_RULES" \in features
    /\ r.op \in {"open", "write"} =>
            cap_path_match_supported(r.match) /\ cap_path_match_supported(r.cond)
    /\ r.op = "connect" => "CONNECT" \in features
    /\ r.op = "recv" => "RECV" \in features

\* The features a ReloadHandle believes in: the loader's own, or a constant when
\* the engine was pinned by an earlier process.
HandleFeatures == IF opts.pinned THEN all_hook_features ELSE features

\* What append_policy_delta_with_rule_id_base refuses before it sends anything.
validate_supported_features(c) == config_features(c) \subseteq HandleFeatures

---------------------------------------------------------------------------
(* What the loaded programs do with an event. *)

(***************************************************************************)
(* Ways(op): how an operation is performed, by the system calls the        *)
(* repository attaches a program to.  The *_fd ways act on a descriptor    *)
(* that is open already: read(2) and write(2), copy_fd for sendfile,       *)
(* copy_file_range and splice, mmap with mprotect, ftruncate.              *)
(* "unlink_truncate" has creat too.  The _addr ways name the peer in the   *)
(* call, on a socket that has none recorded; recv_peer and read_socket     *)
(* rely on the socket's own peer.                                          *)
(***************************************************************************)
Ways(op) ==
    CASE op = "exec"    -> {"execve"}
      [] op = "open"    -> {"open_read", "read_fd", "copy_fd", "mmap"}
      [] op = "write"   -> {"open_write", "unlink_truncate", "rename",
                            "write_fd", "copy_fd", "mmap", "ftruncate"}
      [] op = "connect" -> {"connect", "send_addr"}
      [] op = "recv"    -> {"recv_addr", "recv_peer", "read_socket"}

\* The program that sees the event when it has happened.
PostProgram(way) ==
    CASE way = "execve"                               -> "exec_args"
      [] way \in {"open_read", "open_write"}          -> "file_open"
      [] way = "unlink_truncate"                      -> "file_write_path"
      [] way = "rename"                               -> "rename_rule_exit"
      [] way \in {"read_fd", "write_fd", "read_socket"} -> "fd_flow"
      [] way \in {"copy_fd", "mmap"}                  -> "file_advanced"
      [] way = "connect"                              -> "connect_or_recv"
      [] way = "send_addr"                            -> "send_addr"
      [] way \in {"recv_addr", "recv_peer"}           -> "recv_addr"
      [] way = "ftruncate"                            -> "none"

\* The LSM hook that sees it before.  socket_recvmsg knows the peer of a connected
\* socket only, and no hook judges a send.
PreProgram(way) ==
    CASE way = "execve"                             -> "bprm_check"
      [] way = "connect"                            -> "socket_connect"
      [] way \in {"recv_peer", "read_socket"}       -> "socket_recvmsg"
      [] way \in {"send_addr", "recv_addr"}         -> "none"
      [] way \in {"read_fd", "write_fd", "copy_fd"} -> "file_permission"
      [] way = "mmap"                               -> "mmap_hooks"
      [] OTHER                                      -> "file_paths"

\* Their sys_exit programs move labels and evaluate no rule.
FlowOnly == {"read_fd", "write_fd", "copy_fd", "mmap"}

\* Their sys_exit programs do nothing in enforce mode.
LeftToHook == FlowOnly \cup {"send_addr", "recv_addr", "recv_peer", "read_socket"}

\* te_path_match and the OPEN_RULES and WRITE_RULES tests of te_handle_file_event.
Matchable(r) ==
    /\ r.op = "open" => "OPEN_RULES" \in features
    /\ r.op = "write" => "WRITE_RULES" \in features
    /\ MatchFeatures(r) \subseteq features

\* Block rules are evaluated by the hook, notify and kill rules after the event.
Fires(way, r) ==
    /\ Matchable(r)
    /\ IF r.effect = "block"
       THEN opts.lsm /\ PreProgram(way) \in progs /\ (r.op = "exec" => ~r.arg)
       ELSE /\ PostProgram(way) \in progs
            /\ way \notin FlowOnly
            /\ opts.lsm => way \notin LeftToHook

\* An update is applied where the event is seen: by a hook only where no program
\* sees it afterwards, and at a rename by the one exit program that is loaded.
Applies(way, u) ==
    /\ u.op \in {"open", "write"} => UpdateFeatures(u) \subseteq features
    /\ CASE way = "rename" -> progs \cap {"rename_rule_exit", "rename_flow_exit"} # {}
         [] way \in LeftToHook \cup {"ftruncate"} /\ opts.lsm -> PreProgram(way) \in progs
         [] OTHER -> PostProgram(way) \in progs

\* Where a read or a write of an open descriptor carries labels: the sys_exit
\* programs give up in enforce mode and leave it to file_permission.
FdFlowCarried ==
    IF opts.lsm THEN "file_permission" \in progs ELSE "fd_flow" \in progs

---------------------------------------------------------------------------

Empty == [updates |-> {}, rules |-> {}]

Init ==
    /\ opts \in [lsm : BOOLEAN, full : BOOLEAN, advanced : BOOLEAN, reserve : BOOLEAN,
                 rust : BOOLEAN, pinned : BOOLEAN]
    /\ opts.pinned => opts.rust
    /\ cfg \in IF opts.pinned THEN {Empty} ELSE Policies
    /\ phase = "start"
    /\ features = {}
    /\ progs = {}
    /\ table = Empty

\* Every error path of the loader frees the object: nothing stays attached.
Cleanup ==
    /\ phase' = "ended"
    /\ progs' = {}
    /\ table' = Empty
    /\ UNCHANGED <<opts, cfg, features>>

Open ==
    /\ phase = "start"
    /\ IF validate_config(cfg)
       THEN /\ phase' = "opened"
            /\ features' = Budget(cfg, opts).features
            /\ UNCHANGED <<opts, cfg, progs, table>>
       ELSE Cleanup

Load ==
    /\ phase = "opened"
    /\ \/ /\ phase' = "loaded"
          /\ table' = cfg
          /\ UNCHANGED <<opts, cfg, features, progs>>
       \/ Cleanup

Attach ==
    /\ phase = "loaded"
    /\ \/ /\ phase' = "ready"
          /\ progs' = IF opts.rust THEN RustPrograms(cfg, opts) ELSE CPrograms(cfg, opts)
          /\ UNCHANGED <<opts, cfg, features, table>>
       \/ Cleanup

\* A delta of one entry: user space checks it, then the kernel admits it.
AppendRule(r) ==
    LET delta == [updates |-> {}, rules |-> {r}] IN
    /\ phase = "ready" /\ opts.rust
    /\ OneDelta => table = cfg
    /\ validate_config(delta) /\ validate_supported_features(delta)
    /\ cap_rule_supported(r)
    /\ table' = [table EXCEPT !.rules = @ \cup {r}]
    /\ UNCHANGED <<opts, cfg, phase, features, progs>>

AppendUpdate(u) ==
    LET delta == [updates |-> {u}, rules |-> {}] IN
    /\ phase = "ready" /\ opts.rust
    /\ OneDelta => table = cfg
    /\ validate_config(delta) /\ validate_supported_features(delta)
    /\ cap_update_supported(u)
    /\ table' = [table EXCEPT !.updates = @ \cup {u}]
    /\ UNCHANGED <<opts, cfg, phase, features, progs>>

\* A pinned engine outlives the process that loaded it.
Stop == phase = "ready" /\ ~opts.pinned /\ Cleanup

Next ==
    \/ Open \/ Load \/ Attach \/ Stop
    \/ \E r \in Rules : AppendRule(r)
    \/ \E u \in Updates : AppendUpdate(u)

Spec == Init /\ [][Next]_vars

---------------------------------------------------------------------------
(* Properties *)

Advanced == Wide(opts) \/ opts.advanced

(***************************************************************************)
(* The calls a rule is not evaluated on, told by the policy and the        *)
(* machine alone.  Block rules need BPF LSM, and no hook sees the argument *)
(* vector or the address of a datagram; mmap is hooked in the advanced     *)
(* profile. Notify and kill rules are not evaluated on an open descriptor, *)
(* nor, in enforce mode, by the programs that leave the event to the       *)
(* hooks.                                                                  *)
(***************************************************************************)
RuleGap(way, r) ==
    IF r.effect = "block"
    THEN \/ ~opts.lsm
         \/ r.op = "exec" /\ r.arg
         \/ way \in {"send_addr", "recv_addr"}
         \/ way = "mmap" /\ ~Advanced
    ELSE \/ way \in FlowOnly \cup {"ftruncate"}
         \/ opts.lsm /\ way \in LeftToHook

\* The calls an update is not applied on.  In enforce mode open descriptors are left
\* to hooks that are loaded for policies with a block rule on files.
UpdateGap(way) ==
    IF opts.lsm
    THEN \/ way \in {"send_addr", "recv_addr"}
         \/ way \in FlowOnly \cup {"ftruncate"} /\ "BLOCK_FILE" \notin features
         \/ way = "mmap" /\ ~Advanced
    ELSE \/ way = "ftruncate"
         \/ way \in {"copy_fd", "mmap"} /\ ~Advanced

(***************************************************************************)
(* Every rule in the table, installed at load or admitted later, is        *)
(* evaluated on every system call of Ways that performs its operation, by  *)
(* a program that is attached and supports its effect and its matcher,     *)
(* except exactly on the calls of RuleGap; and every update is applied     *)
(* except exactly on those of UpdateGap.  The loader, the append check,    *)
(* the kernel's admission and the tests inside the programs must agree:    *)
(* no further call is missed, and none of the gaps is closed elsewhere.    *)
(***************************************************************************)
EntriesCovered ==
    phase = "ready" =>
        /\ \A r \in table.rules : \A w \in Ways(r.op) : Fires(w, r) <=> ~RuleGap(w, r)
        /\ \A u \in table.updates : \A w \in Ways(u.op) : Applies(w, u) <=> ~UpdateGap(w)

(***************************************************************************)
(* What append_policy_delta accepts, cap_rule_supported and                *)
(* cap_update_supported admit: a delta that passes the check in user space *)
(* never stops half way in the kernel, where a refused entry can only be   *)
(* noticed by a timeout and undone by a rollback.                          *)
(***************************************************************************)
CheckAgrees ==
    phase = "ready" /\ opts.rust =>
        /\ \A r \in Rules :
              validate_supported_features([updates |-> {}, rules |-> {r}]) => cap_rule_supported(r)
        /\ \A u \in Updates :
              validate_supported_features([updates |-> {u}, rules |-> {}]) => cap_update_supported(u)

(***************************************************************************)
(* The C loader and the Rust loader, which decide about the LSM programs   *)
(* in different ways, attach the same programs for the same policy.        *)
(***************************************************************************)
TwinLoaders ==
    phase = "ready" /\ ~opts.pinned => progs = CPrograms(cfg, opts) /\ progs = RustPrograms(cfg, opts)

(***************************************************************************)
(* trace_rename leaves an entry in ts_renamepend that one of two programs  *)
(* on the same sys_exit takes away: exactly one of them is attached        *)
(* whenever the first is.  With none, renames move no labels; with both,   *)
(* only the first to run finds the entry.                                  *)
(***************************************************************************)
RenamePaired ==
    "file_write_path" \in progs =>
        Cardinality(progs \cap {"rename_rule_exit", "rename_flow_exit"}) = 1

(***************************************************************************)
(* docs/support-matrix.md: "Labels propagate across: [...] file reads and  *)
(* writes".  With file flow enabled, a read or write of an open descriptor *)
(* reaches a program that moves labels.                                    *)
(***************************************************************************)
FdFlowFollowed ==
    phase = "ready" /\ "FILE_FLOW" \in features => FdFlowCarried
============================================================================
