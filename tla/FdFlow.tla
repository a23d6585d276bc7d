------------------------------- MODULE FdFlow -------------------------------
(***************************************************************************)
(* How labels follow data through descriptors in tracepoint mode           *)
(* (bpf/process.bpf.c): ts_fd and ts_sockfd say which object a descriptor  *)
(* of a tracked process stands for, and the sys_exit programs of the I/O   *)
(* calls move labels between the process and that object.                  *)
(*                                                                         *)
(* A system call is two steps: its sys_enter program and the kernel's work *)
(* (what a sys_enter program only stashes is in `call'), then its sys_exit *)
(* program, which looks the descriptor up again.  A call that fails changes*)
(* nothing and is left out.  One label in one domain is followed: every    *)
(* handler treats labels and domains alike.                                *)
(***************************************************************************)
EXTENDS Naturals, FiniteSets

CONSTANTS
  Procs,       \* process ids
  Root,        \* the process the runtime watches; its children may run
               \*   from the start
  Tids,        \* thread ids
  Owner,       \* [Tids -> Procs]: the process of a thread
  TE_FORK_FD_SCAN, \* descriptors a fork copies; bound: no process has more
  Files,       \* regular files
  Secrets,     \* the files a source row of the policy labels
  Pipes,       \* pipes and AF_UNIX socket pairs
  Socks,       \* sockets
  Addrs,       \* AF_UNIX addresses
  Endps,       \* IPv4 endpoints
  None,
  MaxNames,    \* bound: calls and process events that change a descriptor
  Gaps         \* the known gaps a history may run into: "overlap", two
               \*   threads of a process in calls on one descriptor at a
               \*   time; "stale", a new socket under a descriptor number
               \*   whose last open file an exec or an exit closed

Objs == Files \cup Pipes \cup Socks
Fds == 0 .. TE_FORK_FD_SCAN - 1

ASSUME FdAssumption ==
  /\ Root \in Procs
  /\ Owner \in [Tids -> Procs]
  /\ TE_FORK_FD_SCAN \in Nat /\ MaxNames \in Nat
  /\ Secrets \subseteq Files
  /\ \A o \in Files : o \notin Pipes \cup Socks \cup Addrs \cup Endps
  /\ \A o \in Pipes : o \notin Socks \cup Addrs \cup Endps
  /\ \A o \in Socks : o \notin Addrs \cup Endps
  /\ Addrs \cap Endps = {}
  /\ None \notin Objs \cup Addrs \cup Endps
  /\ Gaps \subseteq {"overlap", "stale"}

(* struct file_id: the inode of an open file, the number a pipe is given,  *)
(* or the hash of a path.                                                  *)
Inode(o) == [by |-> "inode", of |-> o]
Fresh(o) == [by |-> "fresh", of |-> o]
PathHash(a) == [by |-> "path", of |-> a]
Ids == {Inode(o) : o \in Objs} \cup {Fresh(o) : o \in Pipes}
         \cup {PathHash(a) : a \in Files \cup Addrs}
ASSUME NoneAssumption == None \notin Ids

VARIABLES
  alive,       \* running processes; all of them are tracked
  fdt,         \* operating system: the open file behind each descriptor
  peer,        \* operating system: the address a socket is bound or
               \*   connected to
  call,        \* the call each thread is in, with its ts_*pend entry
  ts_fd, ts_sockfd,   \* per process and descriptor
  ts_fileptr,  \* the id a struct file was last stored with
  ts_proc, ts_file, ts_endp,   \* who and what carries the label
  names,       \* how many of the MaxNames changes have happened
  \* History variables: they guard nothing.
  know,        \* processes that labelled data reached
  held         \* channels that labelled data reached

osVars == <<alive, fdt, peer, names>>
refVars == <<ts_fd, ts_sockfd, ts_fileptr>>
labelVars == <<ts_proc, ts_file, ts_endp, know, held>>
vars == <<alive, fdt, peer, call, ts_fd, ts_sockfd, ts_fileptr,
          ts_proc, ts_file, ts_endp, names, know, held>>

Idle == [op |-> "none", fds |-> {}, args |-> <<>>, carries |-> FALSE]
NoFds == [fd \in Fds |-> None]

Init ==
  /\ alive \in {Procs, {Root}}
  /\ fdt = [p \in Procs |-> NoFds]
  /\ peer = [k \in Socks |-> None]
  /\ call = [t \in Tids |-> Idle]
  /\ ts_fd = [p \in Procs |-> NoFds]
  /\ ts_sockfd = [p \in Procs |-> NoFds]
  /\ ts_fileptr = [o \in Objs |-> None]
  /\ ts_proc = {} /\ ts_file = {} /\ ts_endp = {}
  /\ names = 0
  /\ know = {} /\ held = {}

----------------------------------------------------------------------------
(* Calls.                                                                  *)

Siblings(t) == {u \in Tids \ {t} : Owner[u] = Owner[t]}

(* Calls that only move data may share a descriptor; a call that changes   *)
(* what a descriptor stands for may not, outside the gap.                  *)
Moves == {"read", "write", "sendto", "recvfrom", "copy"}
Apart(t, op, fds) ==
  \/ "overlap" \in Gaps
  \/ \A u \in Siblings(t) : \/ call[u].fds \cap fds = {}
                            \/ op \in Moves /\ call[u].op \in Moves

(* Thread t enters a call on descriptors fds.                              *)
Enter(t, op, fds, args, carries) ==
  /\ Owner[t] \in alive
  /\ call[t] = Idle
  /\ Apart(t, op, fds)
  /\ call' = [call EXCEPT ![t] = [op |-> op, fds |-> fds, args |-> args,
                                  carries |-> carries]]

(* One of the bounded number of changes to a descriptor.                   *)
Counted == names < MaxNames /\ names' = names + 1

Leave(t, op) ==
  /\ call[t].op = op
  /\ call' = [call EXCEPT ![t] = Idle]

(* The kernel hands out the lowest free descriptor.                        *)
FreeFds(p) == {fd \in Fds : fdt[p][fd] = None}
Lowest(S) == CHOOSE fd \in S : \A x \in S : fd <= x

(* A new open file: no descriptor and no id of an earlier one is left.     *)
Unused(o) ==
  \A p \in Procs, fd \in Fds :
    fdt[p][fd] # o /\ ts_fd[p][fd] \notin {Inode(o), Fresh(o)}

(* Where data written to an open file goes and read data comes from.       *)
Channel(o) == IF o \in Socks THEN peer[o] ELSE o

Claim(claimed, x, carries) == IF carries THEN claimed \cup {x} ELSE claimed

----------------------------------------------------------------------------
(* The handlers' helpers.                                                  *)

te_store_fd(p, fd, id) ==
  /\ ts_fd' = [ts_fd EXCEPT ![p][fd] = id]
  /\ ts_sockfd' = [ts_sockfd EXCEPT ![p][fd] = None]

(* te_store_fileptr_ref for the files behind some descriptors.             *)
te_store_fileptr_ref(p, fds, id) ==
  ts_fileptr' = [o \in Objs |-> IF \E fd \in fds : fdt[p][fd] = o THEN id
                                ELSE ts_fileptr[o]]

te_store_fd_with_current_file(p, fd, id) ==
  te_store_fd(p, fd, id) /\ te_store_fileptr_ref(p, {fd}, id)

(* te_copy_fd then te_copy_sockfd.  Storing the reference drops the socket *)
(* entry of the new descriptor, which may be the old one.                  *)
CopyRefs(p, old, new, fdMap, sockMap) ==
  LET ref == fdMap[p][old]
      sock1 == IF ref = None THEN sockMap
               ELSE [sockMap EXCEPT ![p][new] = None]
  IN  /\ ts_fd' = IF ref = None THEN fdMap
                  ELSE [fdMap EXCEPT ![p][new] = ref]
      /\ ts_sockfd' = IF sock1[p][old] = None THEN sock1
                      ELSE [sock1 EXCEPT ![p][new] = sock1[p][old]]
      /\ IF ref = None THEN UNCHANGED ts_fileptr
         ELSE te_store_fileptr_ref(p, {new}, ref)

te_read(p, ids) == IF ids \cap ts_file # {} THEN ts_proc \cup {p} ELSE ts_proc
te_write_flow(p, procs, ids) ==
  IF p \in procs THEN ts_file \cup ids ELSE ts_file
te_connect_flow(p, eps) == IF p \in ts_proc THEN ts_endp \cup eps ELSE ts_endp

Ref(m, p, fd) == {m[p][fd]} \ {None}

----------------------------------------------------------------------------
(* Calls that give a descriptor its meaning.                               *)

OpenCall(t, f, acc) ==
  LET p == Owner[t]
      fd == Lowest(FreeFds(p))
  IN  /\ FreeFds(p) # {}
      /\ Counted
      /\ Enter(t, "open", {fd}, <<f, acc, fd>>, FALSE)
      /\ fdt' = [fdt EXCEPT ![p][fd] = f]
      /\ UNCHANGED <<alive, peer, refVars, labelVars>>

(* handle_open_exit: the id comes from the file the descriptor has now, or *)
(* from the path when it has none; labels under the path's id move on, the *)
(* source is recorded, then the access takes effect.                       *)
OpenRet(t) ==
  LET p == Owner[t]
      f == call[t].args[1]
      acc == call[t].args[2]
      fd == call[t].args[3]
      id == IF fdt[p][fd] = None THEN PathHash(f) ELSE Inode(fdt[p][fd])
      marked == f \in Secrets \/ {id, PathHash(f)} \cap ts_file # {}
      wr == acc = "write" /\ p \in ts_proc
  IN  /\ Leave(t, "open")
      /\ te_store_fd_with_current_file(p, fd, id)
      /\ ts_file' = IF marked \/ wr THEN ts_file \cup {id} ELSE ts_file
      /\ ts_proc' = IF marked /\ acc = "read" THEN ts_proc \cup {p} ELSE ts_proc
      /\ held' = Claim(held, f, f \in Secrets)
      /\ UNCHANGED <<osVars, ts_endp, know>>

(* pipe, pipe2, and socketpair for AF_UNIX.                                *)
PipeCall(t, o) ==
  LET p == Owner[t]
      r == Lowest(FreeFds(p))
      w == Lowest(FreeFds(p) \ {r})
  IN  /\ Unused(o)
      /\ Cardinality(FreeFds(p)) >= 2
      /\ Counted
      /\ Enter(t, "pipe", {r, w}, <<o, r, w>>, FALSE)
      /\ fdt' = [fdt EXCEPT ![p][r] = o, ![p][w] = o]
      /\ ts_file' = ts_file \ {Inode(o), Fresh(o)}
      /\ ts_fileptr' = [ts_fileptr EXCEPT ![o] = None]
      /\ held' = held \ {o}
      /\ UNCHANGED <<alive, peer, ts_fd, ts_sockfd, ts_proc, ts_endp,
                     know>>

PipeRet(t) ==
  LET p == Owner[t]
      o == call[t].args[1]
      ends == {call[t].args[2], call[t].args[3]}
  IN  /\ Leave(t, "pipe")
      /\ ts_fd' = [ts_fd EXCEPT ![p] =
           [fd \in Fds |-> IF fd \in ends THEN Fresh(o) ELSE @[fd]]]
      /\ ts_sockfd' = [ts_sockfd EXCEPT ![p] =
           [fd \in Fds |-> IF fd \in ends THEN None ELSE @[fd]]]
      /\ te_store_fileptr_ref(p, ends, Fresh(o))
      /\ UNCHANGED <<osVars, labelVars>>

(* dup, dup2, dup3 and fcntl(F_DUPFD).                                     *)
DupCall(t, old, new) ==
  LET p == Owner[t]
  IN  /\ fdt[p][old] # None
      /\ Counted
      /\ Enter(t, "dup", {old, new}, <<old, new>>, FALSE)
      /\ fdt' = [fdt EXCEPT ![p][new] = fdt[p][old]]
      /\ UNCHANGED <<alive, peer, refVars, labelVars>>

te_delete_fd(m, p, fd) == [m EXCEPT ![p][fd] = None]

MutDupRet(t) ==        \* copies first and deletes the new descriptor then
  LET p == Owner[t]
      new == call[t].args[2]
  IN  /\ Leave(t, "dup")
      /\ ts_fd' = te_delete_fd(ts_fd, p, new)
      /\ ts_sockfd' = te_delete_fd(ts_sockfd, p, new)
      /\ UNCHANGED <<osVars, ts_fileptr, labelVars>>
DupRet(t) ==
  LET p == Owner[t]
      old == call[t].args[1]
      new == call[t].args[2]
  IN  /\ Leave(t, "dup")
      /\ IF new = old THEN CopyRefs(p, old, new, ts_fd, ts_sockfd)
         ELSE CopyRefs(p, old, new, te_delete_fd(ts_fd, p, new),
                       te_delete_fd(ts_sockfd, p, new))
      /\ UNCHANGED <<osVars, labelVars>>

(* trace_close runs when the call is entered; the kernel closes after it.  *)
CloseCall(t, fd) ==
  LET p == Owner[t]
  IN  /\ fdt[p][fd] # None
      /\ Counted
      /\ Enter(t, "close", {fd}, <<fd>>, FALSE)
      /\ ts_fd' = te_delete_fd(ts_fd, p, fd)
      /\ ts_sockfd' = te_delete_fd(ts_sockfd, p, fd)
      /\ UNCHANGED <<alive, fdt, peer, ts_fileptr, labelVars>>

CloseRet(t) ==
  /\ Leave(t, "close")
  /\ fdt' = [fdt EXCEPT ![Owner[t]][call[t].args[1]] = None]
  /\ UNCHANGED <<alive, peer, names, refVars, labelVars>>

(* A descriptor that no program names starts without an entry of an        *)
(* earlier one, outside the gap.                                           *)
NoLeftover(p, fd) ==
  "stale" \in Gaps \/ {ts_fd[p][fd], ts_sockfd[p][fd]} = {None}

(* socket(2) has no program.                                               *)
Socket(t, k) ==
  LET p == Owner[t]
      fd == Lowest(FreeFds(p))
  IN  /\ Counted
      /\ p \in alive /\ call[t] = Idle
      /\ Unused(k)
      /\ FreeFds(p) # {}
      /\ NoLeftover(p, fd)
      /\ fdt' = [fdt EXCEPT ![p][fd] = k]
      /\ peer' = [peer EXCEPT ![k] = None]
      /\ ts_fileptr' = [ts_fileptr EXCEPT ![k] = None]
      /\ UNCHANGED <<alive, call, ts_fd, ts_sockfd, labelVars>>

(* Bound: a socket is named before its descriptor is copied; descriptors   *)
(* copied earlier would keep no name.                                      *)
Nameable(p, fd) ==
  /\ fdt[p][fd] \in Socks
  /\ peer[fdt[p][fd]] = None
  /\ \A q \in Procs, x \in Fds : fdt[q][x] = fdt[p][fd] => <<q, x>> = <<p, fd>>

(* bind or connect with an AF_UNIX address.                                *)
UnixCall(t, fd, a) ==
  LET p == Owner[t]
  IN  /\ Nameable(p, fd)
      /\ Counted
      /\ Enter(t, "unix", {fd}, <<fd, a>>, FALSE)
      /\ peer' = [peer EXCEPT ![fdt[p][fd]] = a]
      /\ UNCHANGED <<alive, fdt, refVars, labelVars>>

UnixRet(t) ==
  /\ Leave(t, "unix")
  /\ te_store_fd_with_current_file(Owner[t], call[t].args[1],
                                   PathHash(call[t].args[2]))
  /\ UNCHANGED <<osVars, labelVars>>

(* accept and accept4 on an AF_UNIX listener.                              *)
AcceptCall(t, lfd, k) ==
  LET p == Owner[t]
      fd == Lowest(FreeFds(p))
  IN  /\ fdt[p][lfd] \in Socks /\ peer[fdt[p][lfd]] \in Addrs
      /\ Unused(k)
      /\ FreeFds(p) # {}
      /\ Counted
      /\ Enter(t, "accept", {lfd, fd}, <<lfd, fd>>, FALSE)
      /\ fdt' = [fdt EXCEPT ![p][fd] = k]
      /\ peer' = [peer EXCEPT ![k] = peer[fdt[p][lfd]]]
      /\ ts_fileptr' = [ts_fileptr EXCEPT ![k] = None]
      /\ UNCHANGED <<alive, ts_fd, ts_sockfd, labelVars>>

AcceptRet(t) ==
  /\ Leave(t, "accept")
  /\ CopyRefs(Owner[t], call[t].args[1], call[t].args[2], ts_fd, ts_sockfd)
  /\ UNCHANGED <<osVars, labelVars>>

(* trace_connect with an IPv4 address: the endpoint records the process's  *)
(* label when the call is entered, the descriptor its peer at the exit.    *)
ConnectCall(t, fd, e) ==
  LET p == Owner[t]
  IN  /\ Nameable(p, fd)
      /\ Counted
      /\ Enter(t, "connect", {fd}, <<fd, e>>, FALSE)
      /\ peer' = [peer EXCEPT ![fdt[p][fd]] = e]
      /\ ts_endp' = te_connect_flow(p, {e})
      /\ UNCHANGED <<alive, fdt, refVars, ts_proc, ts_file, know,
                     held>>

MutConnectRet(t) ==    \* stores the peer where file references belong
  /\ Leave(t, "connect")
  /\ ts_fd' = [ts_fd EXCEPT ![Owner[t]][call[t].args[1]] = call[t].args[2]]
  /\ UNCHANGED <<osVars, ts_sockfd, ts_fileptr, labelVars>>
ConnectRet(t) ==
  /\ Leave(t, "connect")
  /\ ts_sockfd' = [ts_sockfd EXCEPT ![Owner[t]][call[t].args[1]] =
                     call[t].args[2]]
  /\ UNCHANGED <<osVars, ts_fd, ts_fileptr, labelVars>>

----------------------------------------------------------------------------
(* Calls that move data.  What a call carries is decided when the kernel   *)
(* moves the data; it counts as moved once the call has returned.          *)

MovesData(t, op, fds, args, carries) ==
  /\ Enter(t, op, fds, args, carries)
  /\ UNCHANGED <<osVars, refVars, labelVars>>

ChannelOf(p, fd) == IF fdt[p][fd] = None THEN None ELSE Channel(fdt[p][fd])

ReadCall(t, fd) ==
  LET ch == ChannelOf(Owner[t], fd)
  IN  ch # None /\ MovesData(t, "read", {fd}, <<fd>>, ch \in held)

(* handle_io_exit_read.                                                    *)
ReadRet(t) ==
  LET p == Owner[t]
      fd == call[t].args[1]
      recv == Ref(ts_sockfd, p, fd) \cap ts_endp # {}
  IN  /\ Leave(t, "read")
      /\ ts_proc' = te_read(p, Ref(ts_fd, p, fd))
                      \cup (IF recv THEN {p} ELSE {})
      /\ know' = Claim(know, p, call[t].carries)
      /\ UNCHANGED <<osVars, refVars, ts_file, ts_endp, held>>

WriteCall(t, fd) ==
  LET ch == ChannelOf(Owner[t], fd)
  IN  ch # None /\ MovesData(t, "write", {fd}, <<fd, ch>>, Owner[t] \in know)

(* handle_io_exit_write.                                                   *)
WriteRet(t) ==
  LET p == Owner[t]
      fd == call[t].args[1]
  IN  /\ Leave(t, "write")
      /\ ts_file' = te_write_flow(p, ts_proc, Ref(ts_fd, p, fd))
      /\ ts_endp' = te_connect_flow(p, Ref(ts_sockfd, p, fd))
      /\ held' = Claim(held, call[t].args[2], call[t].carries)
      /\ UNCHANGED <<osVars, refVars, ts_proc, know>>

(* sendto and sendmsg with an address.  Bound: a connected IPv4 socket     *)
(* sends to its peer only, for which handle_io_exit_addr is the same as    *)
(* handle_io_exit_write.                                                   *)
SendtoCall(t, fd, dst) ==
  LET p == Owner[t]
  IN  /\ fdt[p][fd] \in Socks /\ peer[fdt[p][fd]] \notin Endps
      /\ MovesData(t, "sendto", {fd}, <<fd, dst>>, p \in know)

SendtoRet(t) ==
  LET p == Owner[t]
      fd == call[t].args[1]
      dst == call[t].args[2]
      sock == Ref(ts_sockfd, p, fd)
      unix == IF sock = {} /\ dst \in Addrs THEN {PathHash(dst)} ELSE {}
  IN  /\ Leave(t, "sendto")
      /\ ts_file' = te_write_flow(p, ts_proc, Ref(ts_fd, p, fd) \cup unix)
      /\ ts_endp' = te_connect_flow(p, IF sock = {} THEN {dst} \cap Endps
                                       ELSE sock)
      /\ held' = Claim(held, dst, call[t].carries)
      /\ UNCHANGED <<osVars, refVars, ts_proc, know>>

(* recvfrom on a socket without a peer: the kernel fills in who sent.      *)
RecvfromCall(t, fd, e) ==
  LET p == Owner[t]
  IN  /\ fdt[p][fd] \in Socks /\ peer[fdt[p][fd]] = None
      /\ MovesData(t, "recvfrom", {fd}, <<fd, e>>, e \in held)

RecvfromRet(t) ==
  LET p == Owner[t]
      fd == call[t].args[1]
      sock == Ref(ts_sockfd, p, fd)
      from == IF sock = {} THEN {call[t].args[2]} ELSE sock
  IN  /\ Leave(t, "recvfrom")
      /\ ts_proc' = te_read(p, Ref(ts_fd, p, fd))
                      \cup (IF from \cap ts_endp # {} THEN {p} ELSE {})
      /\ know' = Claim(know, p, call[t].carries)
      /\ UNCHANGED <<osVars, refVars, ts_file, ts_endp, held>>

(* sendfile, copy_file_range and splice.  handle_fd_copy_exit looks only   *)
(* into ts_fd: nothing is claimed about an IPv4 socket at either end.      *)
CopyCall(t, in, out) ==
  LET p == Owner[t]
      chs == {ChannelOf(p, in), ChannelOf(p, out)}
  IN  /\ None \notin chs
      /\ MovesData(t, "copy", {in, out}, <<in, out, ChannelOf(p, out)>>,
                   chs \cap Endps = {} /\ ChannelOf(p, in) \in held)

MutCopyRet(t) ==       \* writes with the labels from before the read
  LET p == Owner[t]
      in == Ref(ts_fd, p, call[t].args[1])
      out == Ref(ts_fd, p, call[t].args[2])
  IN  /\ Leave(t, "copy")
      /\ ts_proc' = te_read(p, in)
      /\ ts_file' = IF in = {} THEN ts_file
                    ELSE te_write_flow(p, ts_proc, out)
      /\ held' = Claim(held, call[t].args[3], call[t].carries)
      /\ UNCHANGED <<osVars, refVars, ts_endp, know>>
CopyRet(t) ==
  LET p == Owner[t]
      in == Ref(ts_fd, p, call[t].args[1])
      out == Ref(ts_fd, p, call[t].args[2])
  IN  /\ Leave(t, "copy")
      /\ ts_proc' = te_read(p, in)
      /\ ts_file' = IF in = {} THEN ts_file
                    ELSE te_write_flow(p, te_read(p, in), out)
      /\ held' = Claim(held, call[t].args[3], call[t].carries)
      /\ UNCHANGED <<osVars, refVars, ts_endp, know>>

(* recvmsg on an AF_UNIX socket that delivers a descriptor (SCM_RIGHTS) of *)
(* an open file some process has, or of a regular file from outside.       *)
(* Bound: sockets are not passed, the handler would not find the peer.     *)
RecvmsgCall(t, fd, o) ==
  LET p == Owner[t]
      new == Lowest(FreeFds(p))
      ch == ChannelOf(p, fd)
  IN  /\ ch \in Addrs
      /\ o \notin Socks
      /\ o \in Files \/ \E q \in Procs, x \in Fds : fdt[q][x] = o
      /\ \/ "overlap" \in Gaps
         \/ \A u \in Tids : \A x \in call[u].fds :
              fdt[Owner[u]][x] = o => call[u].op \in Moves
      /\ FreeFds(p) # {}
      /\ Enter(t, "recvmsg", {fd, new}, <<fd, new>>, ch \in held)
      /\ fdt' = [fdt EXCEPT ![p][new] = o]
      /\ UNCHANGED <<alive, peer, names, refVars, labelVars>>

(* handle_io_exit_addr, te_handle_scm_rights, te_store_current_fd_file: a  *)
(* file that was never stored is known by its inode.                       *)
RecvmsgRet(t) ==
  LET p == Owner[t]
      fd == call[t].args[1]
      new == call[t].args[2]
      o == fdt[p][new]
  IN  /\ Leave(t, "recvmsg")
      /\ ts_proc' = te_read(p, Ref(ts_fd, p, fd))
      /\ know' = Claim(know, p, call[t].carries)
      /\ IF o = None THEN UNCHANGED refVars
         ELSE te_store_fd_with_current_file(p, new,
                IF ts_fileptr[o] = None THEN Inode(o) ELSE ts_fileptr[o])
      /\ UNCHANGED <<osVars, ts_file, ts_endp, held>>

----------------------------------------------------------------------------
(* Processes.                                                              *)

(* handle_fork: te_fork, then te_copy_fork_fds, which overwrites only what *)
(* the parent has an entry for.                                            *)
Fork(t, c) ==
  LET p == Owner[t]
      ref(fd) == ts_fd[p][fd]
      sock(fd) == ts_sockfd[p][fd]
  IN  /\ Counted
      /\ p \in alive /\ call[t] = Idle
      /\ c \notin alive
      /\ Apart(t, "fork", Fds)
      /\ \A fd \in Fds \ FreeFds(p) : ref(fd) = None => NoLeftover(c, fd)
      /\ alive' = alive \cup {c}
      /\ fdt' = [fdt EXCEPT ![c] = fdt[p]]
      /\ ts_proc' = IF p \in ts_proc THEN ts_proc \cup {c} ELSE ts_proc
      /\ know' = IF p \in know THEN know \cup {c} ELSE know
      /\ ts_fd' = [ts_fd EXCEPT ![c] =
           [fd \in Fds |-> IF ref(fd) = None THEN @[fd] ELSE ref(fd)]]
      /\ ts_sockfd' = [ts_sockfd EXCEPT ![c] =
           [fd \in Fds |-> IF sock(fd) # None THEN sock(fd)
                           ELSE IF ref(fd) # None THEN None ELSE @[fd]]]
      /\ UNCHANGED <<peer, call, ts_fileptr, ts_file, ts_endp, held>>

(* An exec ends the other threads and closes the descriptors marked so;    *)
(* no program removes their entries.                                       *)
Exec(t, closed) ==
  LET p == Owner[t]
  IN  /\ Counted
      /\ p \in alive /\ call[t] = Idle
      /\ closed \cap FreeFds(p) = {}
      /\ \A u \in Siblings(t) : call[u] = Idle
      /\ fdt' = [fdt EXCEPT ![p] =
           [fd \in Fds |-> IF fd \in closed THEN None ELSE @[fd]]]
      /\ UNCHANGED <<alive, peer, call, refVars, labelVars>>

(* handle_exit: ts_fd and ts_sockfd keep the entries of the process.       *)
Exit(p) ==
  /\ Counted
  /\ p \in alive
  /\ \A t \in Tids : Owner[t] = p => call[t] = Idle
  /\ alive' = alive \ {p}
  /\ fdt' = [fdt EXCEPT ![p] = NoFds]
  /\ ts_proc' = ts_proc \ {p}
  /\ know' = know \ {p}
  /\ UNCHANGED <<peer, call, refVars, ts_file, ts_endp, held>>

----------------------------------------------------------------------------
NameCalls(t) ==
  \/ \E f \in Files, acc \in {"read", "write"} : OpenCall(t, f, acc)
  \/ \E o \in Pipes : PipeCall(t, o)
  \/ \E old, new \in Fds : DupCall(t, old, new)
  \/ \E fd \in Fds : CloseCall(t, fd)
  \/ \E k \in Socks : Socket(t, k)
  \/ \E fd \in Fds, a \in Addrs : UnixCall(t, fd, a)
  \/ \E lfd \in Fds, k \in Socks : AcceptCall(t, lfd, k)
  \/ \E fd \in Fds, e \in Endps : ConnectCall(t, fd, e)

NameRets(t) == OpenRet(t) \/ PipeRet(t) \/ DupRet(t) \/ CloseRet(t)
                 \/ UnixRet(t) \/ AcceptRet(t) \/ ConnectRet(t)

DataCalls(t) ==
  \/ \E fd \in Fds : ReadCall(t, fd)
  \/ \E fd \in Fds : WriteCall(t, fd)
  \/ \E fd \in Fds, dst \in Addrs \cup Endps : SendtoCall(t, fd, dst)
  \/ \E fd \in Fds, e \in Endps : RecvfromCall(t, fd, e)
  \/ \E in, out \in Fds : CopyCall(t, in, out)
  \/ \E fd \in Fds, o \in Objs : RecvmsgCall(t, fd, o)

DataRets(t) == ReadRet(t) \/ WriteRet(t) \/ SendtoRet(t) \/ RecvfromRet(t)
                 \/ CopyRet(t) \/ RecvmsgRet(t)

Next ==
  \/ \E t \in Tids :
       \/ call[t] = Idle /\ (NameCalls(t) \/ DataCalls(t))
       \/ NameRets(t) \/ DataRets(t)
       \/ \E c \in Procs : Fork(t, c)
       \/ \E closed \in SUBSET Fds : Exec(t, closed)
  \/ \E p \in Procs : Exit(p)

Spec == Init /\ [][Next]_vars
----------------------------------------------------------------------------
(* The maps hold values of their types.                                    *)
TypeOK ==
  /\ alive \subseteq Procs
  /\ fdt \in [Procs -> [Fds -> Objs \cup {None}]]
  /\ peer \in [Socks -> Addrs \cup Endps \cup {None}]
  /\ ts_fd \in [Procs -> [Fds -> Ids \cup {None}]]
  /\ ts_sockfd \in [Procs -> [Fds -> Endps \cup {None}]]
  /\ ts_fileptr \in [Objs -> Ids \cup {None}]
  /\ ts_proc \subseteq Procs /\ know \subseteq Procs
  /\ ts_file \subseteq Ids /\ ts_endp \subseteq Endps
  /\ held \subseteq Objs \cup Addrs \cup Endps
  /\ \A t \in Tids : call[t].fds \subseteq Fds /\ call[t].carries \in BOOLEAN

(* The id under which labels of a channel are kept in ts_file.             *)
IdOf(ch) == IF ch \in Addrs THEN PathHash(ch)
            ELSE IF ch \in Pipes THEN Fresh(ch) ELSE Inode(ch)

(* Every descriptor of a tracked process leads the handlers to the object  *)
(* the kernel reads and writes through it, whatever sequence of open,      *)
(* pipe, dup, close, bind, accept, connect, SCM_RIGHTS, fork, exec and pid *)
(* reuse made it, once the calls on it have returned.                      *)
FdAligned ==
  \A p \in alive, fd \in Fds :
    LET ch == ChannelOf(p, fd)
    IN  ch # None /\ (\A t \in Tids : Owner[t] = p => fd \notin call[t].fds)
          => IF ch \in Endps THEN ts_sockfd[p][fd] = ch
             ELSE ts_fd[p][fd] = IdOf(ch)

(* A label follows its data: when labelled data reaches a process or a     *)
(* channel by calls each of which began after the one before had returned, *)
(* whoever made them, the process or the channel carries the label         *)
(* (handle_io_exit_read, _write, _addr, handle_fd_copy_exit).              *)
FlowSound ==
  /\ know \subseteq ts_proc
  /\ \A ch \in held : IF ch \in Endps THEN ch \in ts_endp
                      ELSE IdOf(ch) \in ts_file
=============================================================================
