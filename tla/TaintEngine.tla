---------------------------- MODULE TaintEngine ----------------------------
(***************************************************************************)
(* The ActPlane kernel engine in tracepoint mode: the BPF maps of          *)
(* bpf/taint_engine.bpf.h and one action per tracepoint program of         *)
(* bpf/process.bpf.c that changes them, together with the two userspace    *)
(* calls that put a process under policy (bpf/src/lib.rs).                 *)
(*                                                                         *)
(* A missing map entry is modelled by the value its readers use for it: an *)
(* absent root is the pid itself, an absent session or file is empty.      *)
(* Presence matters only in ts_proc, whose entries carry a flag.           *)
(***************************************************************************)
EXTENDS TaintPolicy

CONSTANTS
  Pids,        \* process and thread ids
  Threads,     \* the ids the system may give to a thread
  InitProcs,   \* processes that run before the engine is attached
  Inodes, NoInode,
  SeedLabels,  \* label given to a watched process in the global domain
  TaskCap,     \* max_entries of cap_task
  MaxEpoch     \* bound: no session counts further

ASSUME PidAssumption ==
  /\ Threads \subseteq Pids
  /\ InitProcs \subseteq Pids
  /\ NoInode \notin Inodes
  /\ Inodes \cap Paths = {}
  /\ SeedLabels \subseteq Labels
  /\ TaskCap \in Nat
  /\ MaxEpoch \in Nat

(* struct file_id: an inode, or the hash of a path when no inode is known. *)
FileIds == Inodes \cup Paths

VARIABLES
  os,             \* operating system: what each pid is
  tg,             \* operating system: the process a thread belongs to
  at,             \* operating system: the inode each path names
  dying,          \* the kill rules whose SIGKILL is pending on a process
  cap_state,      \* domains that exist
  cap_task,       \* the domain each pid is bound to (Global: no entry)
  ts_root,        \* session root of each pid
  ts_proc,        \* labels and lineage gates, per pid and domain
  ts_exit_gates,  \* exit gates pending on a pid, per domain
  ts_sess,        \* sessions, per root and domain
  ts_file,        \* labels of a file id, per domain
  ts_endp,        \* labels of an endpoint, per domain
  \* History variables: they guard nothing.
  managed,        \* processes put under policy, and their descendants
  know,           \* labels whose information has reached a process
  held,           \* labels whose information has reached an inode
  clean,          \* invalidators that have not fired since the run that
                  \*   last stamped a gate started
  pclean          \* invalidators that have not fired since a pending run
                  \*   of a process started

osVars == <<os, tg, at, dying>>
gateVars == <<ts_exit_gates, ts_sess, clean, pclean>>
flowVars == <<ts_file, ts_endp, held>>
bindVars == <<cap_state, cap_task, ts_root, managed>>
vars == <<os, tg, at, dying, cap_state, cap_task, ts_root, ts_proc,
          ts_exit_gates, ts_sess, ts_file, ts_endp,
          managed, know, held, clean, pclean>>

NoPend == [gates |-> {}, epoch |-> 0]
ByDom(x) == [d \in DomIds |-> x]

Init ==
  /\ os = [p \in Pids |-> IF p \in InitProcs THEN "leader" ELSE "free"]
  /\ tg = [p \in Pids |-> p]
  /\ \E files \in SUBSET Paths, f \in [Paths -> Inodes] :
       /\ \A a, b \in files : f[a] = f[b] => a = b
       /\ at = [a \in Paths |-> IF a \in files THEN f[a] ELSE NoInode]
  /\ dying = [p \in Pids |-> {}]
  /\ cap_state = {}
  /\ cap_task = [p \in Pids |-> Global]
  /\ ts_root = [p \in Pids |-> p]
  /\ ts_proc = [p \in Pids |-> ByDom(NoProc)]
  /\ ts_exit_gates = [p \in Pids |-> ByDom(NoPend)]
  /\ ts_sess = [p \in Pids |-> ByDom(NoSess)]
  /\ ts_file = [x \in FileIds |-> ByDom({})]
  /\ ts_endp = [e \in Endps |-> ByDom({})]
  /\ managed = {}
  /\ know = [p \in Pids |-> ByDom({})]
  /\ held = [x \in Inodes |-> ByDom({})]
  /\ clean = [p \in Pids |-> ByDom([g \in Gates |-> {}])]
  /\ pclean = [p \in Pids |-> ByDom({})]

----------------------------------------------------------------------------
(* Who may act.                                                            *)

ThreadsOf(p) == {t \in Pids : os[t] = "thread" /\ tg[t] = p}

(* A process whose leader called pthread_exit is a husk, and runs on in    *)
(* its threads.                                                            *)
Running(p) ==
  /\ os[p] = "leader" \/ (os[p] = "husk" /\ ThreadsOf(p) # {})
  /\ dying[p] = {}

te_pid_active(p) == cap_task[p] # Global      \* cap_task_bound
Chain(p) == te_domains[cap_task[p]]
Sess(p) == ts_sess[ts_root[p]]

(* An update of a hash map fails when the map is full and the key is new.  *)
MutTaskRoom(p) ==      \* the last slot is never used
  \/ te_pid_active(p)
  \/ Cardinality({q \in Pids : te_pid_active(q)}) < TaskCap - 1
TaskRoom(p) ==
  \/ te_pid_active(p)
  \/ Cardinality({q \in Pids : te_pid_active(q)}) < TaskCap

(* The bound on session counters, for a handler that ticks at most twice.  *)
EpochRoom(p) == \A d \in Chain(p) : Sess(p)[d].epoch + 2 <= MaxEpoch

----------------------------------------------------------------------------
(* Putting a process under policy (userspace).                             *)

(* seed_label / seed_label_in_domain: global label and root, then          *)
(* bind_state creates the domain and binds the process to it.              *)
Seed(p, d) ==
  /\ Running(p)
  /\ os[p] = "leader"
  /\ ~te_pid_active(p)
  /\ TaskRoom(p)
  /\ Parent[d] = Global
  /\ d \notin cap_state
  /\ cap_state' = cap_state \cup {d}
  /\ cap_task' = [cap_task EXCEPT ![p] = d]
  /\ ts_root' = [ts_root EXCEPT ![p] = p]
  /\ ts_proc' = [ts_proc EXCEPT
       ![p][Global] = [in |-> TRUE, labels |-> SeedLabels, lin |-> {}],
       ![p][d] = [in |-> TRUE, labels |-> {}, lin |-> {}]]
  /\ managed' = managed \cup {p}
  /\ know' = [know EXCEPT ![p] =
       [e \in DomIds |-> IF e = Global THEN SeedLabels
                         ELSE IF e = d THEN CapLabels[d] ELSE {}]]
  /\ UNCHANGED <<osVars, gateVars, flowVars>>

(* Which processes a runtime binds to a child of parent pp's domain: one   *)
(* outside every domain, or a member of pp's own session and domain.       *)
BindRequest(pp, p, d) ==
  /\ pp # p
  /\ cap_task[pp] = Parent[d]
  /\ \/ ~te_pid_active(p)
     \/ cap_task[p] = Parent[d] /\ ts_root[p] = ts_root[pp]

(* DomainHandle::bind_child_domain.                                        *)
bind_child_domain(pp, p, d) ==
  /\ Running(pp) /\ Running(p)
  /\ os[p] = "leader"
  /\ BindRequest(pp, p, d)
  /\ TaskRoom(p)
  /\ Parent[d] \in cap_state
  /\ d \notin cap_state
  /\ cap_state' = cap_state \cup {d}
  /\ cap_task' = [cap_task EXCEPT ![p] = d]
  /\ ts_root' = [ts_root EXCEPT ![p] = ts_root[pp]]
  /\ ts_proc' = [ts_proc EXCEPT
       ![p][d] = [in |-> TRUE, labels |-> {}, lin |-> {}]]
  /\ managed' = managed \cup {p}
  /\ know' = [know EXCEPT ![p][d] = CapLabels[d]]
  /\ UNCHANGED <<osVars, gateVars, flowVars>>

----------------------------------------------------------------------------
(* Process lifecycle.                                                      *)

(* te_fork.  The copy skips a domain the parent has no entry in, and       *)
(* cap_fork ignores a full table.                                          *)
te_fork(p, c) ==
  IF te_pid_active(p)
  THEN /\ cap_task' = IF TaskRoom(c)
                      THEN [cap_task EXCEPT ![c] = cap_task[p]] ELSE cap_task
       /\ ts_proc' = [ts_proc EXCEPT ![c] =
            [d \in DomIds |-> IF d \in Chain(p) /\ ts_proc[p][d].in
                              THEN ts_proc[p][d] ELSE @[d]]]
       /\ ts_root' = [ts_root EXCEPT ![c] = ts_root[p]]
  ELSE UNCHANGED <<cap_task, ts_proc, ts_root>>

(* handle_fork for a new process.                                          *)
Fork(p, c) ==
  /\ Running(p)
  /\ os[c] = "free"
  /\ os' = [os EXCEPT ![c] = "leader"]
  /\ te_fork(p, c)
  /\ managed' = IF p \in managed THEN managed \cup {c} ELSE managed \ {c}
  /\ know' = [know EXCEPT ![c] = IF p \in managed THEN know[p] ELSE ByDom({})]
  /\ UNCHANGED <<tg, at, dying, cap_state, gateVars, flowVars>>

(* handle_fork for a new thread: the same program, keyed by the thread id. *)
CloneThread(p, t) ==
  /\ Running(p)
  /\ t \in Threads
  /\ os[t] = "free"
  /\ os' = [os EXCEPT ![t] = "thread"]
  /\ tg' = [tg EXCEPT ![t] = p]
  /\ te_fork(p, t)
  /\ UNCHANGED <<at, dying, cap_state, gateVars, flowVars, managed, know>>

(* handle_exit returns early for a thread that is not the leader.  The pid *)
(* of a husk is free once its last thread is gone.                         *)
ThreadExit(t) ==
  LET p == tg[t]
      last == os[p] = "husk" /\ ThreadsOf(p) = {t}
  IN  /\ os[t] = "thread"
      /\ dying[p] = {}
      /\ os' = [os EXCEPT ![t] = "free", ![p] = IF last THEN "free" ELSE @]
      /\ managed' = IF last THEN managed \ {p} ELSE managed
      /\ UNCHANGED <<tg, at, dying, cap_state, cap_task, ts_root, ts_proc,
                     gateVars, flowVars, know>>

(* te_delete_proc_domain and the delete of a pending gate: a per-domain    *)
(* map of p without the entries of p's chain.                              *)
MutCleared(p, m, none) ==   \* forgets the global domain and the ancestors
  [d \in DomIds |-> IF d = cap_task[p] THEN none ELSE m[d]]
Cleared(p, m, none) == [d \in DomIds |-> IF d \in Chain(p) THEN none ELSE m[d]]

MutCap_exit(p) == cap_task                  \* the binding is left behind
cap_exit(p) == [cap_task EXCEPT ![p] = Global]

(* The epoch a gate is stamped at when the exit it waits for matches.      *)
MutExitEpoch(p, d) == Sess(p)[d].epoch      \* the time of the exit
ExitEpoch(p, d) == ts_exit_gates[p][d].epoch

ExitHits(p, d, status) ==
  IF d \in Chain(p)
  THEN te_exit_gate_hits(d, ts_exit_gates[p][d].gates, status) ELSE {}

(* te_exit: pending exit gates whose code matches are stamped at the epoch *)
(* of their exec; then every trace of the pid in its chain is deleted.     *)
te_exit(p, status) ==
  /\ ts_sess' = [ts_sess EXCEPT ![ts_root[p]] =
       [d \in DomIds |->
          te_stamp(@[d], ExitEpoch(p, d), ExitHits(p, d, status), {})]]
  /\ clean' = [clean EXCEPT ![ts_root[p]] =
       [d \in DomIds |-> [g \in Gates |->
          IF g \in ExitHits(p, d, status) THEN pclean[p][d] ELSE @[d][g]]]]
  /\ ts_exit_gates' = [ts_exit_gates EXCEPT ![p] = Cleared(p, @, NoPend)]
  /\ ts_proc' = [ts_proc EXCEPT ![p] = Cleared(p, @, NoProc)]
  /\ pclean' = [pclean EXCEPT ![p] = Cleared(p, @, {})]
  /\ ts_root' = [ts_root EXCEPT ![p] = p]
  /\ cap_task' = cap_exit(p)

(* exit_group or the last exit: every thread of the process goes.  A       *)
(* killed process ends by a signal.                                        *)
Exit(p, status) ==
  /\ os[p] = "leader"
  /\ status = Signal \/ dying[p] = {}
  /\ te_exit(p, status)
  /\ os' = [q \in Pids |-> IF q = p \/ q \in ThreadsOf(p) THEN "free"
                           ELSE os[q]]
  /\ dying' = [dying EXCEPT ![p] = {}]
  /\ managed' = managed \ {p}
  /\ know' = [know EXCEPT ![p] = ByDom({})]
  /\ UNCHANGED <<tg, at, cap_state, flowVars>>

(* The leader leaves by pthread_exit while other threads run on.           *)
LeaderExit(p, status) ==
  /\ os[p] = "leader"
  /\ dying[p] = {}
  /\ ThreadsOf(p) # {}
  /\ te_exit(p, status)
  /\ os' = [os EXCEPT ![p] = "husk"]
  /\ UNCHANGED <<tg, at, dying, cap_state, flowVars, managed, know>>

----------------------------------------------------------------------------
(* Rule evaluation.  In tracepoint mode only notify and kill apply, and    *)
(* only kill changes state: the handler's flow part runs all the same.     *)

(* The kill rules that fire on an event.  Which of several the kernel      *)
(* reports is not modelled.                                                *)
Killers(p, pr, ss, op, o, stored, src, fileRead) ==
  {r \in Rules :
    /\ r.effect = "kill"
    /\ RuleFires(r, cap_task[p], pr, ss, op, o, stored, src, fileRead)}

MutKill(p, rules) == dying' = dying         \* the signal is never sent
Kill(p, rules) == dying' = [dying EXCEPT ![p] = @ \cup rules]

(* handle_exec_args and its tail calls: collect the updates of both        *)
(* passes, apply them, then scan the rules against the updated state.  The *)
(* kernel has already killed the other threads.                            *)
Exec(p, x) ==
  LET r == ts_root[p]
      gates(d) == GatesOf("exec", x, d)
      exits(d) == ExitGatesOf("exec", x, d)
      invals(d) == InvalsOf("exec", x, d)
      due(d) == gates(d) \cup exits(d) # {} \/ invals(d) # {}
      pr == [d \in DomIds |->
               IF d \in Chain(p)
               THEN [in |-> TRUE,
                     labels |-> (ts_proc[p][d].labels \cup AddOf("exec", x, d))
                                  \ DelOf("exec", x, d),
                     lin |-> ts_proc[p][d].lin \cup gates(d)]
               ELSE ts_proc[p][d]]
      ss == [d \in DomIds |->
               IF d \in Chain(p)
               THEN te_event(ts_sess[r][d], due(d), gates(d), invals(d))
               ELSE ts_sess[r][d]]
  IN  /\ Running(p)
      /\ os' = [q \in Pids |-> IF q = p THEN "leader"
                               ELSE IF q \in ThreadsOf(p) THEN "free"
                               ELSE os[q]]
      /\ IF te_pid_active(p)
         THEN /\ EpochRoom(p)
              /\ ts_proc' = [ts_proc EXCEPT ![p] = pr]
              /\ ts_sess' = [ts_sess EXCEPT ![r] = ss]
              /\ ts_exit_gates' = [ts_exit_gates EXCEPT ![p] =
                   [d \in DomIds |->
                      IF d \notin Chain(p) THEN @[d]
                      ELSE IF exits(d) = {} THEN NoPend
                      ELSE [gates |-> exits(d), epoch |-> ss[d].epoch]]]
              /\ clean' = [clean EXCEPT ![r] =
                   [d \in DomIds |-> [g \in Gates |->
                      IF d \notin Chain(p) THEN @[d][g]
                      ELSE (IF g \in gates(d) THEN Invals ELSE @[d][g])
                             \ invals(d)]]]
              /\ pclean' = [q \in Pids |-> [d \in DomIds |->
                   IF d \notin Chain(p) \/ ts_root[q] # r THEN pclean[q][d]
                   ELSE (IF q = p THEN Invals ELSE pclean[q][d]) \ invals(d)]]
              /\ Kill(p, Killers(p, pr, ss, "exec", x, ByDom({}), ByDom({}),
                                 FALSE))
         ELSE UNCHANGED <<ts_proc, gateVars, dying>>
      /\ know' = [know EXCEPT ![p] =
           [d \in DomIds |-> IF te_pid_active(p) /\ d \in Chain(p)
                             THEN (@[d] \cup AddOf("exec", x, d))
                                    \ DelOf("exec", x, d)
                             ELSE @[d]]]
      /\ UNCHANGED <<tg, at, bindVars, flowVars>>

----------------------------------------------------------------------------
(* File and network flow.                                                  *)

(* The labels a process writes with, per domain of its chain.              *)
Own(p) == [d \in DomIds |-> IF d \in Chain(p)
                            THEN te_labels(ts_proc[p][d], d) ELSE {}]
Sources(op, o, p) == [d \in DomIds |-> IF d \in Chain(p)
                                       THEN AddOf(op, o, d) ELSE {}]
Join(F, H) == [d \in DomIds |-> F[d] \cup H[d]]

(* One read or write event of p on the sessions ss of its root.            *)
Touch(p, ss, op, o, writes) ==
  [d \in DomIds |->
     IF d \in Chain(p)
     THEN te_event(ss[d],
                   \/ GatesOf(op, o, d) # {} \/ InvalsOf(op, o, d) # {}
                   \/ writes[d] # {},
                   GatesOf(op, o, d), InvalsOf(op, o, d))
     ELSE ss[d]]

(* The same event in the history variables.                                *)
TouchClean(p, cl, op, o) ==
  [d \in DomIds |-> [g \in Gates |->
     IF d \notin Chain(p) THEN cl[d][g]
     ELSE (IF g \in GatesOf(op, o, d) THEN Invals ELSE cl[d][g])
            \ InvalsOf(op, o, d)]]
TouchPclean(p, pc, op, o) ==
  [q \in Pids |-> [d \in DomIds |->
     IF d \in Chain(p) /\ ts_root[q] = ts_root[p]
     THEN pc[q][d] \ InvalsOf(op, o, d) ELSE pc[q][d]]]

(* te_copy_file_state from the path's id when the opened file has an       *)
(* inode: what earlier path-only events recorded.                          *)
MutPromoted(p, f) == ByDom({})              \* the inode starts afresh
Promoted(p, f) ==
  [d \in DomIds |-> IF d \in Chain(p) THEN ts_file[f][d] ELSE {}]

(* handle_open_exit on a successful open of path f with access acc, now    *)
(* naming inode i: labels recorded under the path move on to the inode,    *)
(* the path's sources are materialized in it, rules are evaluated, then    *)
(* the reader absorbs and the written file inherits labels.                *)
Open(p, f, acc, i) ==
  LET rd == "read" \in acc
      wr == "write" \in acc
      r == ts_root[p]
      src == Sources("open", f, p)
      obj == Join(Join(ts_file[i], Promoted(p, f)), src)
      seen == [d \in DomIds |-> IF rd /\ d \in Chain(p) THEN obj[d] ELSE {}]
      pr == [d \in DomIds |-> te_add_labels(ts_proc[p][d], seen[d])]
      out == [d \in DomIds |-> IF wr /\ d \in Chain(p)
                               THEN te_labels(pr[d], d) ELSE {}]
      s1 == IF rd THEN Touch(p, Sess(p), "open", f, ByDom({})) ELSE Sess(p)
      c1 == IF rd THEN TouchClean(p, clean[r], "open", f) ELSE clean[r]
      q1 == IF rd THEN TouchPclean(p, pclean, "open", f) ELSE pclean
      had == Join(IF at[f] = i THEN held[i] ELSE ByDom({}), src)
      learn == [d \in DomIds |-> know[p][d] \cup
                  (IF rd /\ d \in Chain(p) THEN had[d] ELSE {})]
      kills(op) == Killers(p, ts_proc[p], Sess(p), op, f, seen,
                           IF rd THEN src ELSE ByDom({}), rd)
  IN  /\ Running(p)
      /\ acc # {}
      /\ \/ at[f] = i
         \/ at[f] = NoInode /\ wr /\ \A b \in Paths : at[b] # i
      /\ at' = [at EXCEPT ![f] = i]
      /\ IF te_pid_active(p)
         THEN /\ EpochRoom(p)
              /\ ts_file' = [ts_file EXCEPT ![i] = Join(obj, out)]
              /\ ts_proc' = [ts_proc EXCEPT ![p] = pr]
              /\ ts_sess' = [ts_sess EXCEPT ![r] =
                   IF wr THEN Touch(p, s1, "write", f, out) ELSE s1]
              /\ clean' = [clean EXCEPT ![r] =
                   IF wr THEN TouchClean(p, c1, "write", f) ELSE c1]
              /\ pclean' = IF wr THEN TouchPclean(p, q1, "write", f) ELSE q1
              /\ Kill(p, (IF rd THEN kills("open") ELSE {})
                         \cup (IF wr THEN kills("write") ELSE {}))
              /\ know' = [know EXCEPT ![p] = learn]
              /\ held' = [held EXCEPT ![i] =
                   IF wr THEN Join(had, learn) ELSE had]
         ELSE /\ held' = [held EXCEPT ![i] =
                   IF at[f] = i THEN @ ELSE ByDom({})]
              /\ UNCHANGED <<ts_file, ts_proc, ts_sess, clean, pclean, dying,
                             know>>
      /\ UNCHANGED <<os, tg, bindVars, ts_exit_gates, ts_endp>>

(* A write event that knows the file only by its path: sources src and the *)
(* writer's labels are recorded under the path's id.                       *)
PathWrite(p, f, src) ==
  LET r == ts_root[p]
  IN  IF te_pid_active(p)
      THEN /\ EpochRoom(p)
           /\ ts_file' = [ts_file EXCEPT ![f] = Join(Join(@, src), Own(p))]
           /\ ts_sess' = [ts_sess EXCEPT ![r] =
                Touch(p, @, "write", f, Own(p))]
           /\ clean' = [clean EXCEPT ![r] = TouchClean(p, @, "write", f)]
           /\ pclean' = TouchPclean(p, pclean, "write", f)
           /\ Kill(p, Killers(p, ts_proc[p], Sess(p), "write", f,
                              ByDom({}), ByDom({}), FALSE))
      ELSE UNCHANGED <<ts_file, ts_sess, clean, pclean, dying>>

(* trace_unlink: a write event when the call is entered, whether it        *)
(* succeeds (ok) or not.                                                   *)
Unlink(p, f, ok) ==
  /\ Running(p)
  /\ ok => at[f] # NoInode
  /\ at' = [at EXCEPT ![f] = IF ok THEN NoInode ELSE @]
  /\ PathWrite(p, f, ByDom({}))
  /\ UNCHANGED <<os, tg, bindVars, ts_proc, ts_exit_gates, ts_endp, know, held>>

(* trace_truncate_exit on success: handle_open_exit without a descriptor,  *)
(* so the path's sources are materialized under the path's id as well.     *)
Truncate(p, f) ==
  LET src == Sources("open", f, p)
  IN  /\ Running(p)
      /\ at[f] # NoInode
      /\ PathWrite(p, f, src)
      /\ held' = [held EXCEPT ![at[f]] =
           IF te_pid_active(p) THEN Join(Join(@, src), know[p]) ELSE @]
      /\ UNCHANGED <<os, tg, at, bindVars, ts_proc, ts_exit_gates, ts_endp,
                     know>>

(* te_handle_rename_exit of a successful rename of path a to path b: the   *)
(* sources of the old path (and with RENAME_EXCHANGE of the new one) are   *)
(* materialized, both paths see a write event, then the labels recorded    *)
(* under the paths move with the names, in the domains of the renamer.  A  *)
(* file an outside process renames is no longer claimed by `held'.         *)
Rename(p, a, b, exchange) ==
  LET r == ts_root[p]
      fa == Join(Join(ts_file[a], Sources("open", a, p)), Own(p))
      fb == Join(Join(ts_file[b], IF exchange THEN Sources("open", b, p)
                                  ELSE ByDom({})), Own(p))
      inA == [d \in DomIds |-> IF d \notin Chain(p) THEN ts_file[a][d]
                               ELSE IF exchange THEN fb[d] ELSE {}]
      inB == [d \in DomIds |-> IF d \notin Chain(p) THEN ts_file[b][d]
                               ELSE fa[d]]
      s1 == Touch(p, Sess(p), "write", a, Own(p))
      kills(f, ss) == Killers(p, ts_proc[p], ss, "write", f,
                              ByDom({}), ByDom({}), FALSE)
      intrinsic(x) == [d \in DomIds |->
                         (IF x = at[a] THEN Sources("open", a, p)[d] ELSE {})
                           \cup (IF exchange /\ x = at[b]
                                 THEN Sources("open", b, p)[d] ELSE {})]
  IN  /\ Running(p)
      /\ a # b
      /\ at[a] # NoInode
      /\ exchange => at[b] # NoInode
      /\ at' = [at EXCEPT ![b] = at[a],
                          ![a] = IF exchange THEN at[b] ELSE NoInode]
      /\ IF te_pid_active(p)
         THEN /\ EpochRoom(p)
              /\ ts_file' = [ts_file EXCEPT ![a] = inA, ![b] = inB]
              /\ ts_sess' = [ts_sess EXCEPT ![r] =
                   Touch(p, s1, "write", b, Own(p))]
              /\ clean' = [clean EXCEPT ![r] =
                   TouchClean(p, TouchClean(p, @, "write", a), "write", b)]
              /\ pclean' = TouchPclean(p, TouchPclean(p, pclean, "write", a),
                                       "write", b)
              /\ Kill(p, kills(a, Sess(p)) \cup kills(b, s1))
              /\ held' = [x \in Inodes |-> Join(held[x], intrinsic(x))]
         ELSE /\ held' = [x \in Inodes |->
                   IF x = at[a] \/ (exchange /\ x = at[b]) THEN ByDom({})
                   ELSE held[x]]
              /\ UNCHANGED <<ts_file, ts_sess, clean, pclean, dying>>
      /\ UNCHANGED <<os, tg, bindVars, ts_proc, ts_exit_gates, ts_endp, know>>

(* trace_connect: rules, then the endpoint records the process's labels,   *)
(* its connect sources included.                                           *)
Connect(p, e) ==
  LET src == Sources("connect", e, p)
      pr == [d \in DomIds |-> te_add_labels(ts_proc[p][d], src[d])]
      out == [d \in DomIds |-> IF d \in Chain(p)
                               THEN te_labels(pr[d], d) ELSE {}]
  IN  /\ Running(p)
      /\ te_pid_active(p)
      /\ Kill(p, Killers(p, ts_proc[p], Sess(p), "connect", e,
                         ByDom({}), src, FALSE))
      /\ ts_proc' = [ts_proc EXCEPT ![p] = pr]
      /\ ts_endp' = [ts_endp EXCEPT ![e] = Join(@, out)]
      /\ know' = [know EXCEPT ![p] = Join(@, src)]
      /\ UNCHANGED <<os, tg, at, bindVars, gateVars, ts_file, held>>

(* te_handle_net_ip with TE_ACCESS_RECV: rules see what the endpoint       *)
(* carries, then the receiver absorbs it.                                  *)
Recv(p, e) ==
  LET src == Sources("recv", e, p)
      stored == [d \in DomIds |-> IF d \in Chain(p) THEN ts_endp[e][d] ELSE {}]
      seen == Join(stored, src)
  IN  /\ Running(p)
      /\ te_pid_active(p)
      /\ Kill(p, Killers(p, ts_proc[p], Sess(p), "recv", e,
                         stored, src, FALSE))
      /\ ts_proc' = [ts_proc EXCEPT ![p] =
           [d \in DomIds |-> te_add_labels(@[d], seen[d])]]
      /\ know' = [know EXCEPT ![p] = Join(@, seen)]
      /\ UNCHANGED <<os, tg, at, bindVars, gateVars, flowVars>>

----------------------------------------------------------------------------
Accesses == {{"read"}, {"write"}, {"read", "write"}}

Next ==
  \/ \E p \in Pids, d \in Doms : Seed(p, d)
  \/ \E pp, p \in Pids, d \in Doms : bind_child_domain(pp, p, d)
  \/ \E p, c \in Pids : Fork(p, c)
  \/ \E p, t \in Pids : CloneThread(p, t)
  \/ \E t \in Pids : ThreadExit(t)
  \/ \E p \in Pids, st \in Codes \cup {Signal} : Exit(p, st)
  \/ \E p \in Pids, st \in Codes : LeaderExit(p, st)
  \/ \E p \in Pids, x \in Progs : Exec(p, x)
  \/ \E p \in Pids, f \in Paths, acc \in Accesses, i \in Inodes :
       Open(p, f, acc, i)
  \/ \E p \in Pids, f \in Paths, ok \in BOOLEAN : Unlink(p, f, ok)
  \/ \E p \in Pids, f \in Paths : Truncate(p, f)
  \/ \E p \in Pids, a, b \in Paths, x \in BOOLEAN : Rename(p, a, b, x)
  \/ \E p \in Pids, e \in Endps : Connect(p, e)
  \/ \E p \in Pids, e \in Endps : Recv(p, e)

Spec == Init /\ [][Next]_vars
----------------------------------------------------------------------------
(* Types.                                                                  *)

ProcType == [in : BOOLEAN, labels : SUBSET Labels, lin : SUBSET Gates]
SessType == [bits : SUBSET Gates, epoch : Nat,
             gate : [Gates -> Nat], inval : [Invals -> Nat]]
PendType == [gates : SUBSET Gates, epoch : Nat]
LabelMap == [DomIds -> SUBSET Labels]

(* Every map holds values of its C type, whatever interleaving of handlers *)
(* and userspace calls filled it.                                          *)
TypeOK ==
  /\ os \in [Pids -> {"free", "leader", "husk", "thread"}]
  /\ tg \in [Pids -> Pids]
  /\ at \in [Paths -> Inodes \cup {NoInode}]
  /\ dying \in [Pids -> SUBSET Rules]
  /\ cap_state \subseteq Doms
  /\ cap_task \in [Pids -> DomIds]
  /\ ts_root \in [Pids -> Pids]
  /\ ts_proc \in [Pids -> [DomIds -> ProcType]]
  /\ ts_exit_gates \in [Pids -> [DomIds -> PendType]]
  /\ ts_sess \in [Pids -> [DomIds -> SessType]]
  /\ ts_file \in [FileIds -> LabelMap]
  /\ ts_endp \in [Endps -> LabelMap]
  /\ managed \subseteq Pids
  /\ know \in [Pids -> LabelMap]
  /\ held \in [Inodes -> LabelMap]
  /\ clean \in [Pids -> [DomIds -> [Gates -> SUBSET Invals]]]
  /\ pclean \in [Pids -> [DomIds -> SUBSET Invals]]

----------------------------------------------------------------------------
(* Gates.                                                                  *)

(* te_after_satisfied never accepts a stale gate: when `after X since S'   *)
(* holds in a session, the run of X it rests on started after the last     *)
(* event of every invalidator in S, also when the run's exit is reported   *)
(* long after its exec and other processes edit in between.                *)
SinceSound ==
  \A r \in Pids, d \in DomIds, g \in Gates, S \in SUBSET Invals :
    S # {} /\ te_after_satisfied(ts_sess[r][d], g, S)
      => S \subseteq clean[r][d][g]

(* Every rule that kills a process does so for a reason: none of the kill  *)
(* rules that fire on an event is an `unless after' rule whose gate was    *)
(* fresh when the event began (exec_tp_update_prefix,                      *)
(* exec_tp_rule_complex).                                                  *)
KillJustified ==
  [][\A p \in Pids : \A r \in dying'[p] \ dying[p] :
       ~(/\ r.cond = "after"
         /\ te_after_satisfied(Sess(p)[r.dom], r.gate, r.since))]_vars

(* An exit gate waits only on a live process, in a domain that process's   *)
(* exit will visit: no pending gate is left behind to be stamped by        *)
(* another process that gets the pid (te_exit, handle_exit).               *)
PendingOwned ==
  \A p \in Pids, d \in DomIds :
    ts_exit_gates[p][d].gates # {}
      => os[p] = "leader" /\ te_pid_active(p) /\ d \in Chain(p)

----------------------------------------------------------------------------
(* Labels.                                                                 *)

(* A process and the file a path names carry every label whose information *)
(* reached them through fork, an exec source, open, truncate, rename and   *)
(* the network: nothing is lost between path ids and inode ids, or when    *)
(* names move.                                                             *)
LabelSound ==
  /\ \A p \in managed, d \in DomIds :
       know[p][d] \subseteq te_labels(ts_proc[p][d], d)
  /\ \A f \in Paths, d \in DomIds :
       at[f] # NoInode => held[at[f]][d] \subseteq ts_file[at[f]][d]
                                                    \cup ts_file[f][d]

(* A step that records a kill rule's label at a sink endpoint leaves its   *)
(* process dying by that rule: te_connect_flow writes no label that the    *)
(* rule scan of the same handler did not see.                              *)
SinkGuarded ==
  [][\A r \in Rules, e \in Endps :
       /\ r.effect = "kill" /\ r.op = "connect" /\ r.cond = "none"
       /\ r.forbid = {} /\ e \in r.targets
       /\ r.req \subseteq ts_endp'[e][r.dom]
       /\ ~(r.req \subseteq ts_endp[e][r.dom])
       => \E p \in Pids : r \in dying'[p] \ dying[p]]_vars

----------------------------------------------------------------------------
(* Processes.                                                              *)

Live(p) == os[p] \in {"leader", "husk"}

(* Every descendant of a watched process is tracked, through pid reuse and *)
(* domain changes (te_fork, cap_fork, handle_exit).                        *)
ManagedTracked == \A p \in managed : Live(p) => te_pid_active(p)

(* While every managed process is tracked, its child is tracked from its   *)
(* fork on, as long as no more tasks exist than cap_task has room for      *)
(* (cap_fork ignores a full table).                                        *)
ForkTracked ==
  [][\A c \in managed' \ managed :
       /\ ManagedTracked
       /\ Cardinality({q \in Pids : os'[q] # "free"}) <= TaskCap
       => cap_task'[c] # Global]_vars

(* No process outside the watched trees is subject to a policy because of  *)
(* what an earlier owner of its pid left in the maps (te_exit).            *)
NoStray == \A p \in Pids : Live(p) /\ te_pid_active(p) => p \in managed

(* A pid that is free has no binding, no session root, no pending gate and *)
(* no global labels: te_exit removes what te_fork and the userspace calls  *)
(* gave it.  (A child that cap_task had no room for keeps its entries of   *)
(* the other domains in ts_proc.)                                          *)
FreeClean ==
  \A p \in Pids : os[p] = "free" =>
    /\ ~te_pid_active(p)
    /\ ts_root[p] = p
    /\ ts_proc[p][Global] = NoProc
    /\ ts_exit_gates[p] = ByDom(NoPend)
============================================================================
