# ActPlane in TLA+

A verification development for ActPlane: an eBPF policy engine that labels the
processes of an AI agent, follows information through processes, files and
endpoints, and kills or reports what a rule forbids, together with the runtime
that installs and changes policies while the engine enforces them.

The modules are translated from `src/bpf/` and `src/crates/`. `PROJECT.json`
maps each definition to the lines it stands for.

## The system

| part | state | operations | how it meets the others |
|---|---|---|---|
| taint engine, tracepoint mode (`bpf/taint_engine.bpf.h`, `bpf/process.bpf.c`) | BPF maps `cap_task`, `ts_proc(_domains)`, `ts_root`, `ts_exit_gates`, `ts_sess`, `ts_file`, `ts_endp` | one program per tracepoint: fork, exec (three tail calls), exit, open, truncate, unlink, rename, connect, send, receive | reads the policy tables and the domain tree; sends SIGKILL |
| policy tables | `ts_updates`, `ts_rules`, `ts_counts`, `cap_policy` | filled by append requests | read by every handler |
| policy channel (`bpf/capability.bpf.h`) | ring `cap_req`, `cap_state`, `cap_task` | drained at `getpid` of any process; each request is admitted with the drainer's and the caller's authority | between runtime and tables |
| append transaction (`bpf/src/lib.rs`, `ReloadHandle`) | locks, counts and mask before the delta | precheck, submit, poll, roll back, clear | runtime calls it; shares the maps with the kernel |
| runtime (`crates/actplane-runtime/src/runtime.rs`) | catalog of rule metadata, domain ids | start, seed, install, delta, stop | one at a time per host (flock); the maps are pinned and outlive it |
| MCP and control server | child records | bind, launch, restart, terminate | call the runtime |
| LSM mode (`bpf/process.bpf.c`) | as the engine, with `enforce_mode` set | hooks on open, read, write, rename, unlink, connect that refuse an operation | same rule tables; the tracepoints of the same calls still run |
| descriptor flow (`bpf/process.bpf.c`) | `ts_fd`, `ts_sockfd`, `ts_fileptr`, one pending call per thread | open, pipe, dup, close, bind, accept, connect, read, write, send, receive, copy, fork | tells the engine which file or endpoint a descriptor stands for |
| loaders (`bpf/process.c`, `bpf/src/lib.rs`) | `policy_features`, `enforce_mode`, the loaded programs | open, load, attach, stop; admit a later entry | decide what the engine can evaluate at all |
| compiler (`crates/actplane-ifc-compiler`) | none | parse, check, lower | produces the tables |
| CLI, doctor, templates, feedback files | files | text | around the runtime |

What is hard here, and what correctness means:

* **Gates.** `unless after X since Y` compares epochs that different processes
  of a session stamp in different orders, some of them when a process ends long
  after it started. Correct: a stale gate never relaxes a rule (`SinceSound`),
  and a fresh one keeps its process from being killed (`KillJustified`).
* **Pids.** All state is keyed by pid, threads and processes share the key
  space, pids are reused, and the binding table can be full. Correct: every
  descendant is tracked (`ManagedTracked`, `ForkTracked`), nothing is inherited
  from an earlier owner of a pid (`FreeClean`, `PendingOwned`, `NoStray`).
* **File identity.** Some events know a path, some an inode. Correct: a label
  reaches whoever the information reaches (`LabelSound`), and does not reach a
  sink without the rule being applied (`SinkGuarded`).
* **Changing a policy in force.** The channel is asynchronous, anyone drains
  it, the verdict is inferred from a counter with a timeout, and the runtime
  may die at any step. Correct: a delta is installed wholly or not at all
  (`TxAtomic`, `FailedGone`), its rules keep their meaning (`CatalogAligned`),
  a dead runtime's requests are not enforced (`OwnPolicyOnly`), nobody waits
  for ever (`TxEnds`), and a caller cannot tell the channel from a store that
  applies or refuses a delta in one piece (`Implements`).
* **Descriptors.** A call does its work, and a program accounts for it when the
  call returns; in between other threads and processes read, write, fork and
  close. Correct: the maps say of a descriptor what it really is (`FdAligned`),
  and labels follow the data (`FlowSound`).
* **Hooks before data.** In enforce mode labels move before the data does.
  Correct: they stay ahead (`LabelsFollow`), and nothing that must not commit is
  let through (`BlockHolds`).
* **Agreement.** Two loaders, the append check, the kernel's admission and the
  programs decide separately what a policy needs. Correct: an entry in force is
  evaluated wherever it applies, but for named gaps (`EntriesCovered`), checks
  agree (`CheckAgrees`), so do the loaders (`TwinLoaders`, `RenamePaired`).

## Modules

| module | what it is |
|---|---|
| `TaintPolicy` | The tables as constants and the engine's operators: update collection, `te_tick`, `te_stamp`, `te_after_satisfied`, `te_cond_satisfied`, rule firing, domain chains. No state. |
| `TaintEngine` | The engine's maps and one action per handler that changes them, plus the two userspace calls that put a process under policy. |
| `MCTaintEngine` | Policies and small sets for TLC. |
| `TaintEngine_proofs` | Theorems about `TaintEngine`: types, gates, pending gates. |
| `TaintLife_proofs` | More of them: pids and bindings, labels, sinks, kills. Extends `TaintEngine_proofs`. |
| `DeltaChannel` | The policy channel, the append transaction and the runtime's life cycle. |
| `AtomicPolicy` | What the channel promises: deltas one at a time, each accepted whole or refused whole. `DeltaChannel` instantiates it with a refinement mapping. |
| `FdFlow` | The descriptor maps and one action for each half of a system call, tracepoint mode. |
| `HookProfile` | From a policy and an environment to features and programs, and what those evaluate. |
| `LsmEngine` | The blocking hooks on files and connect, and the data that moves after them. |
| `DeltaChannel_proofs` | Theorems about the channel at all times: types, nothing of a dead runtime is enforced. |
| `DeltaAtomic_proofs` | Theorems about transactions: atomic, aligned, an implementation of `AtomicPolicy`. Extends `DeltaChannel_proofs`. |
| `FdFlow_proofs`, `HookProfile_proofs`, `LsmEngine_proofs` | Theorems about these modules. |
| `MCDeltaChannel`, `MCFdFlow`, `MCHookProfile`, `MCLsmEngine` | Small sets for TLC. |

### TaintPolicy and TaintEngine

A bit mask is the set of its bits. A pattern (path, argument, prefix) is the
set of targets it matches, so string matching does not appear; a program stands
for one pair of command and arguments. A missing map entry is the value its
readers use for it: an absent root is the pid itself, an absent session has
epoch 0; only in `ts_proc` is presence a field, because `te_fork` tests it.

`ts_proc[p][d]`, `ts_sess[r][d]` and the like hold the global map at
`d = Global` and the `_domains` map elsewhere. `te_domains[d]` is what
`te_domain_for_depth` enumerates. The tables do not change during a behaviour;
`DeltaChannel` is about their change.

| action | code |
|---|---|
| `Seed`, `bind_child_domain` | `seed_label_in_domain`, `bind_state`, `DomainHandle::bind_child_domain` |
| `Fork`, `CloneThread` | `handle_fork`, `te_fork`, `cap_fork` (the same program for a process and for a thread) |
| `Exit`, `ThreadExit`, `LeaderExit` | `handle_exit`, `te_exit`: of a whole process, of a thread, of a leader that leaves its threads |
| `Exec` | `handle_exec_args` and its tail calls: both update passes, apply, both rule passes |
| `Open`, `Truncate`, `Unlink`, `Rename` | `handle_open_exit`, `trace_truncate_exit`, `trace_unlink`, `te_handle_rename_exit` |
| `Connect`, `Recv` | `trace_connect` and `te_connect_flow`, `te_handle_net_ip` |

Only a `kill` effect changes state in tracepoint mode: `dying` has, for each
process, the kill rules that fired on it, and a process with any can only end.
Which of several rules the kernel reports is not modelled. A handler is one step:
it runs to its end on one CPU, and the model does not interleave two handlers
(the race inside `te_tick` is listed as a hazard and left for a module of its
own).

`os`, `tg`, `at` and `dying` are the operating system: which pids are processes,
husks (a process whose leader left) or threads, and which inode a path names.
`managed`, `know`, `held`, `clean` and `pclean` are history variables. They
record what the engine should know (who descends from a watched process, which
information reached whom, which invalidators have fired since a gate's run
started) and guard nothing.

### DeltaChannel

A transaction pushes one request per entry, enters `getpid` and polls the
count. A drain is split into its steps (`DrainTake`, `DrainWrite`, `DrainCount`,
`DrainEmpty`, `DrainRelease`) because `bpf_user_ringbuf_drain` refuses a second
drain until the first is released, even when the first has already found the
ring empty: a kick can be lost. The rollback and `clear_runtime_state` are one
step per map. `Crash` may happen at any step of the runtime; a drain goes on.

Authority is reduced to what the code gives out: a runtime's domain has every
authority, `AUTH_DELEGATE` included (`seed_label_in_domain` and
`control_plane_cap_state`, merged), so anyone in it may submit for anyone; a
child domain may bind rules to itself. A runtime's domain id is fresh
(`fresh_runtime_domain_id` mixes in the time; the model takes collisions to be
impossible), a child's is its pid and comes back under the next runtime.
Checks that fail before anything is submitted leave no trace and are guards of
`Begin`. The channel is that of watch and MCP mode; in run mode the runtime
unbinds itself after the first policy and submits no delta.

`late` is a history variable: a request was still in the ring or in a drain
when its transaction gave up or its runtime died.

`AtomicPolicy` has five variables and no mechanism. The mapping reads `live`
off the tables up to their counts, `busy`, `accepted` and `refused` off the
transaction, and `lapsed` off `late`: from a late request on the promise is
void, which is what `DeltaLate` shows. Until then every step of the channel,
drains by strangers, rollback and crash included, is a step of `AtomicPolicy`
or changes nothing a caller can see.

### FdFlow

Tracepoint mode (`enforce_mode` 0), file flow and advanced hooks on. Each call
is two actions: `XCall` is the enter program and the kernel's work, `XRet` the
exit program. `fdt` and `peer` are the operating system's tables; `ts_fd`,
`ts_sockfd` and `ts_fileptr` are the engine's; `know` and `held` record who and
what really has the secret. The run's only source is a file.

`Gaps` names two histories that the code does not handle, which the run leaves
out and which break its invariants when they are let in: `"overlap"`, two
threads of a process in calls on one descriptor, one of which changes what the
descriptor stands for (or a fork beside such a call), and `"stale"`, a socket
created under a number whose last file was closed by an exec or an exit, of
which `ts_fd` still has the reference. Both are hazards in `PROJECT.json`.

### HookProfile

A policy is a set of updates and rules, each reduced to what features depend on:
operation, matcher class, effect, whether it tests an argument, and the matcher
of its exception. `opts` is the machine (BPF LSM or not), the environment
variables and who loads: the C loader, the Rust loader, or a pinned engine that
an earlier process installed with the full reserve and an empty policy. `Ways`
lists the system calls that perform an operation, as far as the repository
attaches a program to them: paths, open descriptors, datagrams sent to or
received from an address, connected sockets. `Fires` and `Applies` say whether a
loaded program evaluates an entry there. Calls that no program is attached to
perform operations unseen in every configuration and are outside: `writev`,
`pwrite`, `sendmmsg`, `recvmmsg`, `io_uring`, `mkdir`, `link`. So are what the
patterns match (`LsmEngine`), a descriptor or peer the maps do not know
(`FdFlow`), an address given to `sendto` on a connected socket, for which the
code takes the recorded peer, and the legacy-kernel build.

### LsmEngine

One label, one source path, one sink path with a block rule on write, and a
block rule on connect; `TaintPolicy` has the rest of the rule algebra. A hook
(`OpenCheck`, `IoCheck`, `Rename`) decides and moves labels, and the matching
return moves data or, for open and rename, runs the sys_exit program.
`file_permission` knows a file's inode and last path component only:
`BaseMatch` says whether the patterns match that. The path a program passes is
taken to be absolute.

`Gaps` here: `"late"`, a read gets data that arrived after its hook (it blocked
on a pipe, or raced a write), and `"overlap"`, a path is opened between the two
halves of a rename of it, or renamed between the two halves of an open. With
either, `LabelsFollow` fails within a dozen steps; they are hazards.

## Runs

Passing:

| run | shows | bounds |
|---|---|---|
| `TaintGates` | `TypeOK`, `SinceSound`, `KillJustified`: an exit gate, an immediate gate, a program that is a gate and an invalidator, two kill rules on one event, threads and leaders that leave first | 2 ids, one of which may be a process or a thread of the other: two runs of the gate and two edits in every order, with a reused id |
| `TaintFlow` | `LabelSound`, `SinkGuarded`: files and a sink | 2 processes, 2 paths, 2 inodes, 1 endpoint: every rename, exchange, unlink and re-creation over two names |
| `TaintLifecycle` | `FreeClean`, `PendingOwned`, `NoStray`, `ForkTracked` | 3 pids, 2 slots in `cap_task`, a child domain; global and child domain have an exit gate |
| `DeltaTx` | `TypeOK`, `TxAtomic`, `CatalogAligned`, `OwnPolicyOnly`, `TxEnds`, `Implements` | 2 runtimes, a first policy and 2 deltas (one of two entries, one of the child's own), 4 drainers, ring of 2, tables of 3 and 2 |
| `FdFlow` | `TypeOK`, `FdAligned`, `FlowSound` | 2 processes, one with 2 threads, 3 descriptors each, a file, a pipe, 2 sockets, a unix address, an endpoint; 3 calls that make or unmake a descriptor, any number that move data |
| `HookProfile` | `EntriesCovered`, `CheckAgrees`, `TwinLoaders`, `RenamePaired` | every policy of at most one update and one rule out of every combination, every environment, one entry appended; features and programs are unions over the entries, so larger policies only add |
| `LsmEngine` | `LabelsFollow`, `BlockHolds` | 2 processes with 2 descriptors each, a source, a sink and a pipe, 3 paths, one rename or unlink; any number of opens, reads, writes, forks and exits |

`EntriesCovered` is an equivalence: every call of `Ways` outside `RuleGap` and
`UpdateGap` is covered, and every call inside is missed. The gaps of a rule are

* block rules without BPF LSM, and exec blocks that test an argument (the loaders
  warn of both);
* block rules on a datagram sent to or received from an address: no LSM hook
  judges a send, and `socket_recvmsg` knows connected peers only;
* block rules at `mmap` and `mprotect` outside the advanced profile;
* notify and kill rules at `read`, `write`, `sendfile`, `copy_file_range`,
  `splice`, `mmap` and `ftruncate` of an open descriptor: the exit programs move
  labels and evaluate no rule, so such a rule acts when a file is opened and
  not when it is read or written;
* in enforce mode, notify and kill rules on recv and on a datagram sent to an
  address: the exit programs return at once and the hooks support block only.

The gaps of an update are, in enforce mode, datagrams with an address and, unless
a block rule on files loads the file hooks, open descriptors (`HookFlow`);
without BPF LSM, `ftruncate`; and copies and mappings outside the advanced
profile. A pinned engine reserves `BLOCK_FILE` but neither `OPEN_RULES` nor
`WRITE_RULES`, so every file rule is refused there, by both checks.

The epoch bound stops a handler before a counter would pass it; it cuts long
histories and no short ones. Two domains suffice for the chain walk, because
every deeper chain is walked by the same loop. A table of 3 rules is exactly
full when everything is installed, so the boundary is reached, and a late
request can overfill it.

Processes may stop and a loader may end, so most runs do not check deadlock;
`DeltaTx` and `LsmEngine` do.

`TxEnds` needs weak fairness of two things: the runtime's thread inside a
transaction (it polls a bounded number of times and then returns) and a drain
that has begun (a BPF program runs to its end). No fairness is assumed of
processes entering `getpid`, of starts, stops or deltas.

Runs that end in a violation, each a statement of the repository that the code
does not keep (quoted in `PROJECT.json`):

| run | statement | what happens |
|---|---|---|
| `TaintConfirm` | a fresh confirmation authorises one push (E11) | the push stamps the invalidator before its own rule is scanned and is killed |
| `TaintLeaderExit` | descendants carry the labels of their parents | a process whose leader called `pthread_exit` is forgotten while it runs |
| `DeltaLate` | "rolled back partial runtime policy delta" | the request is admitted after the rollback and stays in force |
| `HookFlow` | "Labels propagate across: [...] file reads and writes" | with BPF LSM active and no file block rule, the exit programs defer to a hook that is not loaded |
| `LsmBlock` | block is a denial of what "must not commit" | a write through a descriptor opened earlier is judged by the bare file name, which a path pattern does not match |

More divergences appear under other instances and are kept as hazards or here:
`docs/support-matrix.md:43` says Yes for connect, but in enforce mode no connect
rule sees a datagram sent to an address; line 41 says that a write rule covers
writes, but a notify or kill rule is not evaluated on `write` to an open
descriptor; `docs/rule-language.md:101` says that with BPF LSM active a kill rule
denies at the hook, but `te_supported_effects` gives hooks block rules only; a
late exit of an older run moves a gate's epoch back, so that a fresh gate goes
stale with no input changed; the entries of ended threads stay in `cap_task` and,
once it is full, a fork is lost (`ForkTracked` fails when threads are allowed);
executing a labelled file does not label the process, although
`docs/rule-language.md:61` lists file labels (`exec_pipe_apply_updates` looks at
exec sources only); path-keyed labels of one root domain do not move when a
process of another renames the file; a connect source of an intermediate ancestor
is recorded at the endpoint without that ancestor's rules seeing it.

## Proofs

Each theorem holds for every value of the constants that meets the named
assumptions, so for any number of processes, files, descriptors, domains and
deltas, any policy table, and histories of any length (the bounds that stop TLC,
`MaxEpoch`, `MaxNames`, `MaxMoves`, `MaxGen`, are constants too). All of it is
safety. Every invariant that a passing run checks is proved, some under a
hypothesis that the theorem names; so are the three action properties and the
refinement.

| module | theorem | states | hypothesis |
|---|---|---|---|
| `TaintEngine_proofs` | `TypeCorrect`, `SinceSoundness`, `PendingOwnership` | `TypeOK`, `SinceSound`, `PendingOwned` | none |
| `TaintLife_proofs` | `FreePidsAreClean`, `NobodyStrays` | `FreeClean`, `NoStray` | no threads |
| | `ChildrenAreTracked` | `ForkTracked` | no threads, finitely many pids |
| | `DescendantsAreTracked` | `ManagedTracked` | no threads, `cap_task` has an entry for every pid |
| | `LabelsAreKept` | `LabelSound` | the same, and `OneChain` |
| | `SinksAreGuarded` | `SinkGuarded` | `OneLabelSinks`, `NearSources` |
| | `KillsAreJustified` | `KillJustified` | `NoSelfInvalidation` |
| `DeltaChannel_proofs` | `TypeCorrect`, `OwnPolicy` | `TypeOK`, `OwnPolicyOnly` | none |
| `DeltaAtomic_proofs` | `TransactionsAtomic`, `CatalogIsAligned`, `ChannelImplements` | `TxAtomic`, `CatalogAligned`, `Implements` | none (the properties speak of the time before a request is late) |
| `FdFlow_proofs` | `TypeCorrect`, `DescriptorsAligned`, `LabelsFollowFlow` | `TypeOK`, `FdAligned`, `FlowSound` | `Gaps = {}` |
| `HookProfile_proofs` | `EntriesAreCovered`, `ChecksAgree`, `LoadersAgree`, `RenamesPaired` | `EntriesCovered`, `CheckAgrees`, `TwinLoaders`, `RenamePaired` | none |
| `LsmEngine_proofs` | `LabelsFollowData` | `LabelsFollow` | `Gaps = {}` |
| | `BlocksHold` | `BlockHolds` | `Gaps = {}`, `BaseMatch` |

### Assumptions on constants

`DomainAssumption` (the global domain is no other domain's id, every domain has
a parent), `TableAssumption` (tables have their types; exit codes only on exec
gates, as the compiler enforces), `ChainAssumption` (binding a child domain drops
no ancestor, true while chains are shorter than `CAP_DOMAIN_DEPTH`),
`PidAssumption`; `DeltaAssumption` (four distinct processes, every delta has an
entry, tables and ring are not empty); `FdAssumption` and `LsmAssumption` (kinds
of objects are disjoint; `NameOf` is injective); `EntryAssumption` and
`PolicyAssumption` (entries and policies have their types). The two
`NoneAssumption`s say that the value that stands for "nothing here" is no delta
and no file id.

### The hypotheses are needed

Each hypothesis above excludes a history that TLC finds when it is dropped:

* threads: a thread's entry outlives the thread, its id comes back as a process
  and is bound without being managed (`NoStray`, `FreeClean`); a leader that
  leaves first is forgotten (`TaintLeaderExit`);
* room in `cap_task`: a child without a binding forks a child of its own, which
  te_fork gives no labels;
* `OneChain` (one runtime, no child domains): a process of another root domain
  renames a file, and the labels under its path stay behind;
* `OneLabelSinks` (a kill rule on connect asks for at most one label): two
  processes each bring one label of a two-label rule to the endpoint;
* `NearSources` (connect sources belong to the global domain or to a leaf):
  `te_rule_effect` shows the rules of an intermediate ancestor none of the
  source labels that `te_connect_flow` goes on to record;
* `NoSelfInvalidation` (no event resets the gate its own rule asks for): an exec
  stamps its invalidators before its rules are scanned (`TaintConfirm`), and a
  rename applies the write of its first path before it judges the second;
* `Gaps` and `BaseMatch`: see the modules above, and `LsmBlock`.

### The inductive invariants

`TaintEngine_proofs`. `SinceSound` is not inductive: a stamp made at an exit uses
an epoch taken at the exec, so the argument must say what holds of gates that
are still pending. `IInv` is `TypeOK /\ PendingOwned /\ SessionsGood`, and
`SessionsGood` says of each session and domain

* `Clocked`: no gate, invalidator or pending epoch is ahead of the session's
  counter, so a new tick is later than everything stamped before;
* `Covers`: an invalidator missing from `clean` was stamped no earlier than the
  gate, which is `SinceSound` read backwards;
* `Stampable`: the same for a pending gate and `pclean`, so that stamping it at
  exit keeps `Covers`.

`PendingOwned` is needed because a pending gate on a process outside its session
would be stamped into the wrong one.

`TaintLife_proofs`. `LifeInv` adds to `FreeClean` that only managed processes are
bound (`Bound`) and that a pending entry, its epoch included, lies in its
process's chain (`Pended`), where `te_exit` will find it. Counting the entries of
`cap_task` against the live pids gives `ForkTracked`. `LabelInv` adds the two
halves of `LabelSound` and what each needs of the other maps: a process outside
every policy knows nothing, a missing entry of `ts_proc` has no labels (so
`te_fork` may skip it), no two paths name one inode. The two action theorems need
no labels: `SinkGuarded` follows from the order in which `trace_connect` looks up
source labels, scans rules and records, `KillJustified` from `Clocked`. Both
speak of the very rule, which is why `dying` remembers rules and not only
processes.

`DeltaChannel_proofs`. `LifeCycle` ties the transaction to a serving runtime, and
`Requests` says that every request in the ring, in a drain, in a slot below a
count or below a count that somebody may yet write, names its own runtime's
domain. The last case is a rollback or a drain that was overtaken by a clear.

`DeltaAtomic_proofs`. `TInv` says how far a transaction is, by its program
counter (`Progress`: the entries before `k` are in place, the one at `k` is in
the ring, in the drain or counted), that slots from its starting counts on are
its own (`OwnSlots`), and that below them exactly the accepted deltas are in
force, with aligned ids (`Settled`). It holds until a request is late. The
refinement then needs one fact per action: the entries in force after the step
are those before it, give or take the entries of the delta in progress.

`FdFlow_proofs`. Between its two halves a call relies on what it saw: `Stands`
says, for each kind of call, what of the descriptors, of the sockets' peers and
of the labels still holds at its sys_exit. `EntriesTrue` is `FdAligned` for
everything that can be open, unbound sockets and stale entries included.
`FilesKnown` says what `ts_fileptr` has for a descriptor about to be passed.

`HookProfile_proofs`. `Decided`: features and programs follow from policy and
environment. `Provided`: the features of every entry in the table were provided
for, at load or by the append check. The rest is about the operators: which
features switch each program on, and one case per way and program.
This proof corrected the model in two places, neither of which a run could
tell: an exec block rule that tests an argument never fires in the LSM pass
(`taint_engine.bpf.h:2312`; `EntriesCovered` leaves such rules out), and
`BlockFeatures` was written with overlapping cases.

`LsmEngine_proofs`. `Carried`: a pending read or write has its label already at
the place it takes the secret to. `Opened`: an open file with the secret is
labelled by its inode. `Named`: a linked file is labelled by inode or path, by
the old path while its rename is between the hook and the exit. `Exclusive`: a
rename has its two paths for itself, which is what the overlap gap takes away.

### Only model-checked

* `TxEnds`, and the fairness behind it: liveness, like `ENABLED` and induction
  over data, is out of the proof system's reach.
* `FailedGone`, `FdFlowFollowed` and the other statements that TLC refutes.
* Threads, beyond `SinceSound`, `PendingOwned`, `KillJustified` and
  `SinkGuarded`, whose theorems include them.
* That the history variables say what they mean, and that the assumptions can be
  met: every run evaluates them on an instance with the interesting cases.

## Not modelled

* Memory mappings (`te_mmap_*`), the pseudo endpoints of descriptors 0 to 2, and
  sockets passed over sockets.
* The LSM hooks on mmap, mprotect, recv, exec and for self-protection; a
  truncate hook decides as a write does.
* Provenance, the event ring, eviction from LRU maps. No decision reads the
  first two.
* The compiler: the engine modules take the lowered tables as constants.
* Pinning and upgrading the engine, child supervision, the control server,
  feedback and audit files, configuration, the command line. Mostly one-time
  I/O; `PROJECT.json` gives the reason for each.
* `vmlinux/`: type dumps generated from kernel headers, no logic.

IPv6 endpoints are not followed by the code. Failure of a map update is
modelled where the code ignores it and the map can be full in normal use
(`cap_task`), not elsewhere. `te_tick` is one step although its read and its
write are two: a lost increment can give a gate and its invalidator one epoch,
or set the counter back; the epoch's wrap and a full `ts_sess` are left out
with it.

## Plan

Done so far: the engine in both modes, its descriptor maps, the channel with its
abstract specification, the loaders, and a proof of every safety property that a
passing run checks. Next:

1. `TaintEngine`: `LabelSound` with child domains. It fails only through a rename
   by a process of another domain, so a theorem should restrict who renames, not
   how many domains there are.
2. `FreeClean` for the domain entries too, under a `cap_task` with room, and a
   weaker statement for threads: what a thread's entry can still bind.
3. `SessionClock`: `te_tick` and `te_stamp` as a read and a write on two CPUs,
   with a small epoch.
4. `Capability` (authority only shrinks down the tree) and `ChildSupervisor`
   (launch, restart, terminate, adopt under pid reuse).
