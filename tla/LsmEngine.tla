----------------------------- MODULE LsmEngine -----------------------------
(***************************************************************************)
(* Enforce mode: BPF LSM is active and block rules are decided before the  *)
(* operation.  A hook evaluates the rules with the labels of that moment   *)
(* and, when none denies the call, moves the labels at once; the kernel    *)
(* does the work later, and the sys_exit tracepoint of open or rename      *)
(* follows.  For read and write the sys_exit programs do nothing in this   *)
(* mode: file_permission is the only place that sees them, and it knows    *)
(* the file by inode and last path component, not by path.                 *)
(*                                                                         *)
(* One label, SECRET, read from the file named Source, and two rules:      *)
(* block write file Sink if SECRET, block connect endpoint if SECRET.      *)
(* know and held are what the label stands for: the processes and objects  *)
(* that really have the secret.  The modules TaintPolicy and TaintEngine   *)
(* have the rule and label algebra; the policy has file, write and connect *)
(* rules, so the file and connect hooks are loaded (HookProfile).          *)
(***************************************************************************)
EXTENDS Naturals, FiniteSets

CONSTANTS
  Procs,           \* processes; one of them is seeded first
  Files, Pipes,    \* inodes
  Names, NameOf,   \* paths, and the path each file has at first
  Source, Sink,    \* the paths the source and the write rule match
  MaxFds,          \* descriptors a process has open, by object and direction
  MaxMoves,        \* renames and unlinks that take place
  BaseMatch,       \* the two patterns also match the last component alone
  Gaps             \* behaviours the engine does not follow (see Late, Overlap)

ASSUME LsmAssumption ==
  /\ NameOf \in [Files -> Names]
  /\ \A f, g \in Files : f # g => NameOf[f] # NameOf[g]
  /\ {Source, Sink} \subseteq Names /\ Source # Sink
  /\ (Files \cup Pipes) \cap Names = {} /\ Files \cap Pipes = {}
  /\ MaxFds \in Nat /\ MaxMoves \in Nat
  /\ BaseMatch \in BOOLEAN
  /\ Gaps \subseteq {"late", "overlap"}

Objs == Files \cup Pipes
Ids == Objs \cup Names      \* file_id: an inode, or the hash of a path
Accesses == {{"r"}, {"w"}, {"r", "w"}}

VARIABLES
  alive,
  labels,    \* [Procs -> BOOLEAN]: SECRET in the process's proc_state
  ts_file,   \* [Ids -> BOOLEAN]: SECRET in the file state of an id
  name,      \* the last path of a file
  linked,    \* the files a path leads to
  moves,     \* renames and unlinks so far
  fds,       \* [Procs -> SUBSET (Objs \X {"r", "w"})]
  pend,      \* the call each process is in, after its hook
  know, held, \* who and what has the secret
  breach     \* protected targets written by a process that knew the secret

vars == <<alive, labels, ts_file, name, linked, moves, fds, pend, know, held, breach>>

Idle == [op |-> "none"]

Init ==
  /\ alive \in {{p} : p \in Procs}
  /\ labels = [p \in Procs |-> FALSE]
  /\ ts_file = [i \in Ids |-> FALSE]
  /\ name = NameOf
  /\ linked = Files
  /\ moves = 0
  /\ fds = [p \in Procs |-> {}]
  /\ pend = [p \in Procs |-> Idle]
  /\ know = [p \in Procs |-> FALSE]
  /\ held = [o \in Objs |-> o \in Files /\ NameOf[o] = Source]
  /\ breach = {}

Ready(p) == p \in alive /\ pend[p] = Idle

(* Overlap: a path is looked up or renamed between the two hooks of another *)
(* process's rename of it, or renamed between those of an open.            *)
Renaming(q) == IF pend[q].op = "rename" THEN {pend[q].old, pend[q].new} ELSE {}
Opening(q) == IF pend[q].op = "open" THEN {pend[q].path} ELSE {}

NotRenamed(S) == "overlap" \in Gaps \/ \A q \in Procs : Renaming(q) \cap S = {}
NotOpening(S) == "overlap" \in Gaps \/ \A q \in Procs : Opening(q) \cap S = {}

----------------------------------------------------------------------------
(* te_handle_file_event with the label state ts of the file: the labels    *)
(* the rules see, the verdict, and the state after te_read, te_write_flow. *)

Seen(p, ts, id, acc, src) == labels[p] \/ ("r" \in acc /\ (ts[id] \/ src))

Denied(p, ts, id, acc, src, snk) == snk /\ "w" \in acc /\ Seen(p, ts, id, acc, src)

Read(p, ts, id, acc, src) == [labels EXCEPT ![p] = Seen(p, ts, id, acc, src)]

WriteFlow(p, ts, id, acc, src) ==
  [ts EXCEPT ![id] = @ \/ ("w" \in acc /\ Seen(p, ts, id, acc, src))]

(* Path-based hooks match the whole path, file_permission the basename.    *)
BaseIs(o, n) == BaseMatch /\ o \in Files /\ name[o] = n

----------------------------------------------------------------------------
(* open: lsm/file_open ...                                                 *)
OpenCheck(p, f, acc) ==
  LET src == name[f] = Source
      snk == name[f] = Sink
  IN  /\ Ready(p) /\ f \in linked /\ NotRenamed({name[f]})
      /\ Cardinality(fds[p] \cup ({f} \X acc)) <= MaxFds
      /\ ~Denied(p, ts_file, f, acc, src, snk)
      /\ labels' = Read(p, ts_file, f, acc, src)
      /\ ts_file' = WriteFlow(p, ts_file, f, acc, src)
      /\ pend' = [pend EXCEPT ![p] =
                    [op |-> "open", obj |-> f, acc |-> acc, path |-> name[f]]]
      /\ breach' = IF snk /\ "w" \in acc /\ know[p] THEN breach \cup {Sink} ELSE breach
      /\ UNCHANGED <<alive, name, linked, moves, fds, know, held>>

(* ... and handle_open_exit: the labels of the path move to the inode, the *)
(* source becomes a label of the object, and the flow is applied again.    *)
OpenReturn(p) ==
  LET c  == pend[p]
      ts == [ts_file EXCEPT ![c.obj] = @ \/ ts_file[c.path] \/ c.path = Source]
      src == c.path = Source
  IN  /\ c.op = "open"
      /\ labels' = Read(p, ts, c.obj, c.acc, src)
      /\ ts_file' = WriteFlow(p, ts, c.obj, c.acc, src)
      /\ fds' = [fds EXCEPT ![p] = @ \cup ({c.obj} \X c.acc)]
      /\ pend' = [pend EXCEPT ![p] = Idle]
      /\ UNCHANGED <<alive, name, linked, moves, know, held, breach>>

----------------------------------------------------------------------------
(* read and write of a descriptor: lsm/file_permission, then the data.     *)
(* Late: the data that moves may have arrived after the hook ran, as when  *)
(* a read blocks on an empty pipe.                                         *)
Late == "late" \in Gaps

IoCheck(p, o, dir) ==
  /\ Ready(p) /\ <<o, dir>> \in fds[p]
  /\ ~Denied(p, ts_file, o, {dir}, BaseIs(o, Source), BaseIs(o, Sink))
  /\ labels' = Read(p, ts_file, o, {dir}, BaseIs(o, Source))
  /\ ts_file' = WriteFlow(p, ts_file, o, {dir}, BaseIs(o, Source))
  /\ pend' = [pend EXCEPT ![p] =
                [op |-> "io", obj |-> o, dir |-> dir,
                 carry |-> IF dir = "r" THEN held[o] ELSE know[p]]]
  /\ breach' = IF o \in Files /\ name[o] = Sink /\ dir = "w" /\ know[p]
               THEN breach \cup {Sink} ELSE breach
  /\ UNCHANGED <<alive, name, linked, moves, fds, know, held>>

ReadReturn(p) ==
  LET c == pend[p]
  IN  /\ c.op = "io" /\ c.dir = "r"
      /\ know' = [know EXCEPT ![p] = @ \/ c.carry \/ (Late /\ held[c.obj])]
      /\ pend' = [pend EXCEPT ![p] = Idle]
      /\ UNCHANGED <<alive, labels, ts_file, name, linked, moves, fds, held, breach>>

WriteReturn(p) ==
  LET c == pend[p]
  IN  /\ c.op = "io" /\ c.dir = "w"
      /\ held' = [held EXCEPT ![c.obj] = @ \/ c.carry]
      /\ pend' = [pend EXCEPT ![p] = Idle]
      /\ UNCHANGED <<alive, labels, ts_file, name, linked, moves, fds, know, breach>>

Pipe(p, q) ==
  /\ Ready(p)
  /\ \A r \in Procs : fds[r] \cap ({q} \X {"r", "w"}) = {}
  /\ Cardinality(fds[p]) + 2 <= MaxFds
  /\ fds' = [fds EXCEPT ![p] = @ \cup ({q} \X {"r", "w"})]
  /\ held' = [held EXCEPT ![q] = FALSE]     \* a new pipe; ts_file is not cleared
  /\ UNCHANGED <<alive, labels, ts_file, name, linked, moves, pend, know, breach>>

(* close: trace_close forgets the descriptor, which no hook here looks up.  *)
Close(p, o, dir) ==
  /\ Ready(p) /\ <<o, dir>> \in fds[p]
  /\ fds' = [fds EXCEPT ![p] = @ \ {<<o, dir>>}]
  /\ UNCHANGED <<alive, labels, ts_file, name, linked, moves, pend, know, held, breach>>

----------------------------------------------------------------------------
(* rename: lsm/path_rename writes to both inodes, the kernel changes the   *)
(* names under the directory locks, and sys_exit_rename moves the labels   *)
(* that the paths have.                                                    *)
Victims(n) == {g \in linked : name[g] = n}
NewIds(n) == IF Victims(n) = {} THEN {n} ELSE Victims(n)

(* Every id in S absorbs the labels of the writer.                         *)
WriteAll(p, ts, S) == [i \in Ids |-> ts[i] \/ (i \in S /\ labels[p])]

MutRenameDenied(p, old, new) ==             \* only the old path is checked
  labels[p] /\ old = Sink

RenameDenied(p, old, new) ==
  labels[p] /\ Sink \in {old, new}

Rename(p, f, new) ==
  LET old == name[f]
  IN  /\ Ready(p) /\ f \in linked /\ new \in Names \ {old}
      /\ NotRenamed({old, new}) /\ NotOpening({old, new})
      /\ ~RenameDenied(p, old, new)
      /\ ts_file' = WriteAll(p, ts_file, {f} \cup NewIds(new))
      /\ linked' = linked \ Victims(new)
      /\ name' = [name EXCEPT ![f] = new]
      /\ moves < MaxMoves /\ moves' = moves + 1
      /\ pend' = [pend EXCEPT ![p] =
                    [op |-> "rename", obj |-> f, old |-> old, new |-> new]]
      /\ breach' = IF know[p] /\ Sink \in {old, new} THEN breach \cup {Sink} ELSE breach
      /\ UNCHANGED <<alive, labels, fds, know, held>>

(* te_handle_rename_exit: the source becomes a label of the old path, both *)
(* paths are written, and the new one takes over what the old one has.     *)
MutRenameReturn(p) ==                       \* te_materialize_file_source left out
  LET c == pend[p]
      w == WriteAll(p, ts_file, {c.old, c.new})
  IN  /\ c.op = "rename"
      /\ ts_file' = [w EXCEPT ![c.new] = w[c.old], ![c.old] = FALSE]
      /\ pend' = [pend EXCEPT ![p] = Idle]
      /\ UNCHANGED <<alive, labels, name, linked, moves, fds, know, held, breach>>

RenameReturn(p) ==
  LET c == pend[p]
      m == [ts_file EXCEPT ![c.old] = @ \/ c.old = Source]
      w == WriteAll(p, m, {c.old, c.new})
  IN  /\ c.op = "rename"
      /\ ts_file' = [w EXCEPT ![c.new] = w[c.old], ![c.old] = FALSE]
      /\ pend' = [pend EXCEPT ![p] = Idle]
      /\ UNCHANGED <<alive, labels, name, linked, moves, fds, know, held, breach>>

(* A rename onto the sink is denied after its first half was accounted.    *)
RenameRefused(p, f) ==
  /\ Ready(p) /\ f \in linked /\ name[f] # Sink
  /\ RenameDenied(p, name[f], Sink)
  /\ ts_file' = WriteAll(p, ts_file, {f})
  /\ UNCHANGED <<alive, labels, name, linked, moves, fds, pend, know, held, breach>>

(* unlink: trace_unlink on the path, whatever the verdict, then            *)
(* lsm/path_unlink on the inode.                                           *)
Unlink(p, f) ==
  LET denied == labels[p] /\ name[f] = Sink
  IN  /\ Ready(p) /\ f \in linked
      /\ ts_file' = WriteAll(p, ts_file, {name[f]} \cup IF denied THEN {} ELSE {f})
      /\ linked' = IF denied THEN linked ELSE linked \ {f}
      /\ moves < MaxMoves /\ moves' = IF denied THEN moves ELSE moves + 1
      /\ breach' = IF ~denied /\ know[p] /\ name[f] = Sink THEN breach \cup {Sink}
                   ELSE breach
      /\ UNCHANGED <<alive, labels, name, fds, pend, know, held>>

(* connect: the hook decides with the labels of the process.               *)
Connect(p) ==
  /\ Ready(p)
  /\ ~labels[p]
  /\ breach' = IF know[p] THEN breach \cup {"endpoint"} ELSE breach
  /\ UNCHANGED <<alive, labels, ts_file, name, linked, moves, fds, pend, know, held>>

----------------------------------------------------------------------------
(* handle_fork and handle_exit.                                            *)
Fork(p, q) ==
  /\ Ready(p) /\ q \notin alive
  /\ alive' = alive \cup {q}
  /\ labels' = [labels EXCEPT ![q] = labels[p]]
  /\ fds' = [fds EXCEPT ![q] = fds[p]]
  /\ know' = [know EXCEPT ![q] = know[p]]
  /\ UNCHANGED <<ts_file, name, linked, moves, pend, held, breach>>

Exit(p) ==
  /\ Ready(p) /\ alive # {p}
  /\ alive' = alive \ {p}
  /\ labels' = [labels EXCEPT ![p] = FALSE]
  /\ fds' = [fds EXCEPT ![p] = {}]
  /\ know' = [know EXCEPT ![p] = FALSE]
  /\ UNCHANGED <<ts_file, name, linked, moves, pend, held, breach>>

Next ==
  \E p \in Procs :
    \/ \E f \in Files, acc \in Accesses : OpenCheck(p, f, acc)
    \/ OpenReturn(p)
    \/ \E o \in Objs, dir \in {"r", "w"} : IoCheck(p, o, dir) \/ Close(p, o, dir)
    \/ ReadReturn(p) \/ WriteReturn(p)
    \/ \E q \in Pipes : Pipe(p, q)
    \/ \E f \in Files, n \in Names : Rename(p, f, n)
    \/ RenameReturn(p)
    \/ \E f \in Files : RenameRefused(p, f) \/ Unlink(p, f)
    \/ Connect(p)
    \/ \E q \in Procs : Fork(p, q)
    \/ Exit(p)

Spec == Init /\ [][Next]_vars

----------------------------------------------------------------------------
(* The objects a process can still get at.                                 *)
Reachable(o) ==
  \/ o \in linked
  \/ \E p \in Procs : \/ fds[p] \cap ({o} \X {"r", "w"}) # {}
                      \/ pend[p].op = "open" /\ pend[p].obj = o

(* The path the engine knows a file by: a rename counts once it returned.  *)
KnownPath(f) ==
  LET moving == {p \in Procs : pend[p].op = "rename" /\ pend[p].obj = f}
  IN  IF moving = {} THEN name[f] ELSE pend[CHOOSE p \in moving : TRUE].old

(* A file whose secret the engine has not met yet is known by its path, or *)
(* by the labels that renames moved with the path.                         *)
ByPath(f) == KnownPath(f) = Source \/ ts_file[KnownPath(f)]

(***************************************************************************)
(* Labels follow information in enforce mode: whoever has the secret is    *)
(* labelled, and whatever holds it and can still be reached is labelled by *)
(* inode, or by path until it is first opened.  Label and data move at     *)
(* different times, at the hook, after it and at sys_exit, with the opens, *)
(* renames, unlinks and exits of other processes in between.               *)
(***************************************************************************)
LabelsFollow ==
  /\ \A p \in Procs : know[p] => labels[p]
  /\ \A o \in Objs : held[o] /\ Reachable(o) =>
       ts_file[o] \/ (o \in Files /\ ByPath(o))

(***************************************************************************)
(* docs/support-matrix.md: block is "Pre-operation denial in a BPF-LSM     *)
(* hook", for policy "that must not commit": no open, write, rename or     *)
(* unlink of the sink and no connect is let through for a process that had *)
(* the secret when it made the call, however it came by it.                *)
(***************************************************************************)
BlockHolds == breach = {}
============================================================================
