---------------------------- MODULE FdFlow_proofs ----------------------------
(***************************************************************************)
(* Descriptors lead to what the kernel reads and writes, and labels follow *)
(* data through them (FdFlow), for any processes, threads, descriptors,    *)
(* files, pipes, sockets and addresses and any number of calls, outside    *)
(* the two known gaps.                                                     *)
(*                                                                         *)
(* FdAligned is silent about a descriptor while a call on it is in         *)
(* progress, and a call is exactly what its sys_exit program finishes.  So *)
(* the invariant says what each call in progress relies on (Stands): that  *)
(* the descriptor the program will look up again still stands for the file *)
(* the kernel used, that nobody else has come to hold the object a call is *)
(* about to name, and that the data it carries is still accounted for.     *)
(***************************************************************************)
EXTENDS FdFlow, FiniteSetTheorems, WellFoundedInduction, TLAPS

(* The calls a thread may be in.                                           *)
Call(op, fds, args, carries) == [op |-> op, fds |-> fds, args |-> args, carries |-> carries]
NameShape(c) ==
  \/ \E f \in Files, acc \in {"read", "write"}, fd \in Fds : c = Call("open", {fd}, <<f, acc, fd>>, FALSE)
  \/ \E o \in Pipes, r, w \in Fds : r # w /\ c = Call("pipe", {r, w}, <<o, r, w>>, FALSE)
  \/ \E old, new \in Fds : c = Call("dup", {old, new}, <<old, new>>, FALSE)
  \/ \E fd \in Fds : c = Call("close", {fd}, <<fd>>, FALSE)
  \/ \E fd \in Fds, a \in Addrs : c = Call("unix", {fd}, <<fd, a>>, FALSE)
  \/ \E lfd, fd \in Fds : lfd # fd /\ c = Call("accept", {lfd, fd}, <<lfd, fd>>, FALSE)
  \/ \E fd \in Fds, e \in Endps : c = Call("connect", {fd}, <<fd, e>>, FALSE)
Channels == Objs \cup Addrs \cup Endps
DataShape(c) ==
  \E b \in BOOLEAN :
    \/ \E fd \in Fds : c = Call("read", {fd}, <<fd>>, b)
    \/ \E fd \in Fds, ch \in Channels : c = Call("write", {fd}, <<fd, ch>>, b)
    \/ \E fd \in Fds, dst \in Addrs \cup Endps : c = Call("sendto", {fd}, <<fd, dst>>, b)
    \/ \E fd \in Fds, e \in Endps : c = Call("recvfrom", {fd}, <<fd, e>>, b)
    \/ \E in, out \in Fds, ch \in Channels : c = Call("copy", {in, out}, <<in, out, ch>>, b)
    \/ \E fd, new \in Fds : fd # new /\ c = Call("recvmsg", {fd, new}, <<fd, new>>, b)

MapTypes ==
  /\ alive \subseteq Procs
  /\ fdt \in [Procs -> [Fds -> Objs \cup {None}]]
  /\ peer \in [Socks -> Addrs \cup Endps \cup {None}]
  /\ ts_fd \in [Procs -> [Fds -> Ids \cup {None}]]
  /\ ts_sockfd \in [Procs -> [Fds -> Endps \cup {None}]]
  /\ ts_fileptr \in [Objs -> Ids \cup {None}]
LabelTypes ==
  /\ ts_proc \subseteq Procs /\ know \subseteq Procs
  /\ ts_file \subseteq Ids /\ ts_endp \subseteq Endps
  /\ held \subseteq Channels
CallTypes ==
  /\ DOMAIN call = Tids
  /\ \A t \in Tids : call[t] = Idle \/ NameShape(call[t]) \/ DataShape(call[t])
Typed == MapTypes /\ LabelTypes /\ CallTypes

(* A dead process has no descriptors and is in no call.                    *)
Dead ==
  /\ \A p \in Procs \ alive : fdt[p] = NoFds
  /\ \A t \in Tids : call[t] # Idle => Owner[t] \in alive

(* Threads of a process share descriptors only to move data.               *)
Disjoint ==
  \A t \in Tids : \A u \in Siblings(t) :
    call[t].fds \cap call[u].fds = {} \/ (call[t].op \in Moves /\ call[u].op \in Moves)

(* The open file behind descriptor fd of thread t's process.               *)
File(t, fd) == fdt[Owner[t]][fd]

(* No other descriptor of any process leads to the object.                 *)
Only(t, fds) ==
  \A q \in Procs, x \in Fds : \A fd \in fds :
    fdt[q][x] = File(t, fd) => q = Owner[t] /\ x \in fds

(* What a call in progress relies on until it returns.                     *)
NameStands(t) ==
  LET c == call[t]
      a == c.args
  IN  /\ c.op = "open" => File(t, a[3]) = a[1]
      /\ c.op = "pipe" => File(t, a[2]) = a[1] /\ File(t, a[3]) = a[1]
      /\ c.op = "dup" => File(t, a[1]) = File(t, a[2])
      /\ c.op \in {"unix", "connect"} => File(t, a[1]) \in Socks /\ peer[File(t, a[1])] = a[2]
      /\ c.op = "accept" =>
           /\ File(t, a[1]) \in Socks /\ File(t, a[2]) \in Socks
           /\ peer[File(t, a[1])] \in Addrs /\ peer[File(t, a[2])] = peer[File(t, a[1])]
      /\ c.op = "connect" => ts_fd[Owner[t]][a[1]] = None
      /\ c.op \in {"pipe", "unix", "connect"} => Only(t, c.fds)
DataStands(t) ==
  LET c == call[t]
      a == c.args
      p == Owner[t]
  IN  /\ c.op \in {"read", "recvmsg"} =>
           ChannelOf(p, a[1]) # None /\ (c.carries => ChannelOf(p, a[1]) \in held)
      /\ c.op = "recvmsg" => ChannelOf(p, a[1]) \in Addrs /\ File(t, a[2]) \in Files \cup Pipes
      /\ c.op = "write" => a[2] = ChannelOf(p, a[1])
      /\ c.op \in {"write", "sendto"} /\ c.carries => p \in know
      /\ c.op = "sendto" => File(t, a[1]) \in Socks /\ peer[File(t, a[1])] \notin Endps
      /\ c.op = "recvfrom" =>
           File(t, a[1]) \in Socks /\ peer[File(t, a[1])] = None /\ (c.carries => a[2] \in held)
      /\ c.op = "copy" =>
           /\ a[3] = ChannelOf(p, a[2])
           /\ c.carries => /\ ChannelOf(p, a[1]) \in held
                           /\ ChannelOf(p, a[1]) \notin Endps /\ a[3] \notin Endps
Stands(t) ==
  /\ \A fd \in call[t].fds : File(t, fd) # None
  /\ NameStands(t) /\ DataStands(t)

(* The descriptors whose entries the return of a call will write.          *)
Pending(c) ==
  CASE c.op = "open" -> {c.args[3]}
    [] c.op = "pipe" -> {c.args[2], c.args[3]}
    [] c.op = "dup" -> {c.args[2]} \ {c.args[1]}
    [] c.op \in {"close", "unix", "connect"} -> {c.args[1]}
    [] c.op \in {"accept", "recvmsg"} -> {c.args[2]}
    [] OTHER -> {}

(* What ts_fd and ts_sockfd have to say of an open file.                   *)
FdEntry(o) == IF o \in Files THEN Inode(o)
              ELSE IF o \in Pipes THEN Fresh(o)
              ELSE IF peer[o] \in Addrs THEN PathHash(peer[o]) ELSE None
SockEntry(o) == IF o \in Socks /\ peer[o] \in Endps THEN peer[o] ELSE None

Settled(p, fd) == \A t \in Tids : Owner[t] = p => fd \notin Pending(call[t])
EntriesTrue ==
  \A p \in alive, fd \in Fds : fdt[p][fd] # None /\ Settled(p, fd) =>
    ts_fd[p][fd] = FdEntry(fdt[p][fd]) /\ ts_sockfd[p][fd] = SockEntry(fdt[p][fd])

(* What the kernel's file remembers, for a descriptor that is passed on.   *)
FilesKnown ==
  /\ \A o \in Files : ts_fileptr[o] \in {None, Inode(o)}
  /\ \A o \in Pipes : (\E p \in Procs, fd \in Fds : fdt[p][fd] = o) =>
       \/ ts_fileptr[o] = Fresh(o)
       \/ \E t \in Tids : call[t].op = "pipe" /\ call[t].args[1] = o

Calls == Dead /\ Disjoint /\ \A t \in Tids : Stands(t)
IInv == Typed /\ Calls /\ EntriesTrue /\ FilesKnown /\ FlowSound

----------------------------------------------------------------------------
(* The kernel's lowest free descriptor is one of the free ones.            *)
LEMMA LowestIn ==
  ASSUME NEW S \in SUBSET Fds, S # {}
  PROVE  Lowest(S) \in S
<1>. DEFINE Below(x) == {y \in S : y < x}
            T == {Below(x) : x \in S}
<1>1. S \subseteq Nat /\ IsFiniteSet(S)
  <2>1. TE_FORK_FD_SCAN \in Nat /\ 0 \in Int /\ TE_FORK_FD_SCAN - 1 \in Int
    BY FdAssumption
  <2>2. IsFiniteSet(Fds)
    BY <2>1, FS_Interval DEF Fds
  <2>3. S \subseteq Nat
    BY <2>1 DEF Fds
  <2>4. IsFiniteSet(S)
    BY <2>2, FS_Subset
  <2>. QED
    BY <2>3, <2>4
<1>2. IsWellFoundedOn(StrictSubsetOrdering(S), SUBSET S)
  BY <1>1, FS_StrictSubsetOrderingWellFounded, FS_FiniteSubsetsOfFinite
<1>3. T \subseteq SUBSET S /\ T # {}
  OBVIOUS
<1>4. PICK B \in T : \A C \in T : ~(<<C, B>> \in StrictSubsetOrdering(S))
  <2>. DEFINE R == StrictSubsetOrdering(S)
              P == SUBSET S
  <2>1. IsWellFoundedOn(R, P) /\ T \subseteq P /\ T # {}
    BY <1>2, <1>3
  <2>. HIDE DEF T, R, P
  <2>2. \E B \in T : \A C \in T : ~(<<C, B>> \in R)
    BY <2>1, WFMin
  <2>. QED
    BY <2>2 DEF R
<1>5. PICK x \in S : B = Below(x)
  BY <1>4
<1>6. ASSUME NEW y \in S, y < x PROVE FALSE
  <2>1. Below(y) \subseteq Below(x) /\ y \in Below(x) /\ y \notin Below(y)
    <3>1. \A z \in S : z < y => z < x
      BY <1>1, <1>6
    <3>2. y < x /\ ~(y < y)
      BY <1>1, <1>6
    <3>. QED
      BY <3>1, <3>2
  <2>2. <<Below(y), Below(x)>> \in StrictSubsetOrdering(S)
    BY <2>1 DEF StrictSubsetOrdering
  <2>. QED
    BY <1>4, <1>5, <2>2
<1>7. \A y \in S : x <= y
  BY <1>1, <1>6
<1>. QED
  BY <1>7 DEF Lowest

(* Two free descriptors: the lowest, and the lowest of the others.         *)
LEMMA TwoLowest ==
  ASSUME NEW S \in SUBSET Fds, Cardinality(S) >= 2
  PROVE  S # {} /\ Lowest(S) \in S /\ Lowest(S \ {Lowest(S)}) \in S \ {Lowest(S)}
<1>1. S # {}
  BY FS_EmptySet
<1>2. Lowest(S) \in S
  BY <1>1, LowestIn
<1>3. S \ {Lowest(S)} # {}
  <2>. SUFFICES ASSUME S \ {Lowest(S)} = {} PROVE FALSE
    OBVIOUS
  <2>1. S = {Lowest(S)}
    BY <1>2
  <2>2. Cardinality(S) = 1
    BY <2>1, FS_Singleton
  <2>. QED
    BY <2>2
<1>. QED
  BY <1>1, <1>2, <1>3, LowestIn

(* One entry of a map per process and descriptor changes.                  *)
LEMMA OneEntry ==
  ASSUME NEW V, NEW m \in [Procs -> [Fds -> V]], NEW p \in Procs, NEW fd \in Fds, NEW v \in V,
         NEW n, n = [m EXCEPT ![p][fd] = v]
  PROVE  /\ n \in [Procs -> [Fds -> V]] /\ n[p][fd] = v
         /\ \A q \in Procs, x \in Fds : q # p \/ x # fd => n[q][x] = m[q][x]
  OBVIOUS

(* What is known of a call by its kind.                                    *)
Known(c) ==
  /\ c.fds \subseteq Fds /\ c.carries \in BOOLEAN /\ Pending(c) \subseteq c.fds
  /\ c.op \in Moves \cup {"none"} => Pending(c) = {}
  /\ c.op = "none" => c.fds = {}
  /\ c.op = "open" => /\ c.fds = {c.args[3]} /\ Pending(c) = {c.args[3]}
                      /\ c.args[1] \in Files /\ c.args[2] \in {"read", "write"} /\ c.args[3] \in Fds
  /\ c.op = "pipe" => /\ c.fds = {c.args[2], c.args[3]} /\ Pending(c) = {c.args[2], c.args[3]}
                      /\ c.args[1] \in Pipes /\ c.args[2] \in Fds /\ c.args[3] \in Fds
  /\ c.op = "dup" => /\ c.fds = {c.args[1], c.args[2]} /\ c.args[1] \in Fds /\ c.args[2] \in Fds
                     /\ Pending(c) = {c.args[2]} \ {c.args[1]}
  /\ c.op = "close" => c.fds = {c.args[1]} /\ c.args[1] \in Fds /\ Pending(c) = {c.args[1]}
  /\ c.op = "unix" => /\ c.fds = {c.args[1]} /\ c.args[1] \in Fds /\ Pending(c) = {c.args[1]}
                      /\ c.args[2] \in Addrs
  /\ c.op = "accept" => /\ c.fds = {c.args[1], c.args[2]} /\ c.args[1] \in Fds /\ c.args[2] \in Fds
                        /\ Pending(c) = {c.args[2]} /\ c.args[1] # c.args[2]
  /\ c.op = "connect" => /\ c.fds = {c.args[1]} /\ c.args[1] \in Fds /\ Pending(c) = {c.args[1]}
                         /\ c.args[2] \in Endps
  /\ c.op = "read" => c.fds = {c.args[1]} /\ c.args[1] \in Fds
  /\ c.op = "write" => c.fds = {c.args[1]} /\ c.args[1] \in Fds /\ c.args[2] \in Channels
  /\ c.op = "sendto" => c.fds = {c.args[1]} /\ c.args[1] \in Fds /\ c.args[2] \in Addrs \cup Endps
  /\ c.op = "recvfrom" => c.fds = {c.args[1]} /\ c.args[1] \in Fds /\ c.args[2] \in Endps
  /\ c.op = "copy" => /\ c.fds = {c.args[1], c.args[2]} /\ c.args[1] \in Fds /\ c.args[2] \in Fds
                      /\ c.args[3] \in Channels
  /\ c.op = "recvmsg" => /\ c.fds = {c.args[1], c.args[2]} /\ c.args[1] \in Fds /\ c.args[2] \in Fds
                         /\ Pending(c) = {c.args[2]} /\ c.args[1] # c.args[2]
  /\ c.op \in {"none", "open", "pipe", "dup", "close", "unix", "accept", "connect", "recvmsg"} \cup Moves
  /\ c.op = "none" <=> c = Idle

(* Shapes of calls say all of that.                                        *)
LEMMA ShapesKnown ==
  ASSUME NEW c, c = Idle \/ NameShape(c) \/ DataShape(c)
  PROVE  Known(c)
<1>1. CASE c = Idle
  <2>1. c.op = "none" /\ c.fds = {} /\ c.carries = FALSE
    BY <1>1 DEF Idle
  <2>2. Pending(c) = {}
    BY <2>1 DEF Pending
  <2>. QED
    BY <1>1, <2>1, <2>2 DEF Known, Moves
<1>2. CASE NameShape(c)
  <2>1. ASSUME NEW f \in Files, NEW acc \in {"read", "write"}, NEW fd \in Fds,
               c = Call("open", {fd}, <<f, acc, fd>>, FALSE)
        PROVE  Known(c)
    BY <2>1 DEF Known, Call, Pending, Moves, Idle
  <2>2. ASSUME NEW o \in Pipes, NEW r \in Fds, NEW w \in Fds,
               c = Call("pipe", {r, w}, <<o, r, w>>, FALSE)
        PROVE  Known(c)
    BY <2>2 DEF Known, Call, Pending, Moves, Idle
  <2>3. ASSUME NEW old \in Fds, NEW new \in Fds, c = Call("dup", {old, new}, <<old, new>>, FALSE)
        PROVE  Known(c)
    BY <2>3 DEF Known, Call, Pending, Moves, Idle
  <2>4. ASSUME NEW fd \in Fds, c = Call("close", {fd}, <<fd>>, FALSE)
        PROVE  Known(c)
    BY <2>4 DEF Known, Call, Pending, Moves, Idle
  <2>5. ASSUME NEW fd \in Fds, NEW a \in Addrs, c = Call("unix", {fd}, <<fd, a>>, FALSE)
        PROVE  Known(c)
    BY <2>5 DEF Known, Call, Pending, Moves, Idle
  <2>6. ASSUME NEW lfd \in Fds, NEW fd \in Fds, lfd # fd,
               c = Call("accept", {lfd, fd}, <<lfd, fd>>, FALSE)
        PROVE  Known(c)
    BY <2>6 DEF Known, Call, Pending, Moves, Idle
  <2>7. ASSUME NEW fd \in Fds, NEW e \in Endps, c = Call("connect", {fd}, <<fd, e>>, FALSE)
        PROVE  Known(c)
    BY <2>7 DEF Known, Call, Pending, Moves, Idle
  <2>. QED
    BY <1>2, <2>1, <2>2, <2>3, <2>4, <2>5, <2>6, <2>7 DEF NameShape
<1>3. CASE DataShape(c)
  <2>. PICK b \in BOOLEAN :
         \/ \E fd \in Fds : c = Call("read", {fd}, <<fd>>, b)
         \/ \E fd \in Fds, ch \in Channels : c = Call("write", {fd}, <<fd, ch>>, b)
         \/ \E fd \in Fds, dst \in Addrs \cup Endps : c = Call("sendto", {fd}, <<fd, dst>>, b)
         \/ \E fd \in Fds, e \in Endps : c = Call("recvfrom", {fd}, <<fd, e>>, b)
         \/ \E in, out \in Fds, ch \in Channels : c = Call("copy", {in, out}, <<in, out, ch>>, b)
         \/ \E fd, new \in Fds : fd # new /\ c = Call("recvmsg", {fd, new}, <<fd, new>>, b)
    BY <1>3 DEF DataShape
  <2>1. ASSUME NEW fd \in Fds, c = Call("read", {fd}, <<fd>>, b)
        PROVE  Known(c)
    BY <2>1 DEF Known, Call, Pending, Moves, Idle
  <2>2. ASSUME NEW fd \in Fds, NEW ch \in Channels, c = Call("write", {fd}, <<fd, ch>>, b)
        PROVE  Known(c)
    BY <2>2 DEF Known, Call, Pending, Moves, Idle
  <2>3. ASSUME NEW fd \in Fds, NEW dst \in Addrs \cup Endps, c = Call("sendto", {fd}, <<fd, dst>>, b)
        PROVE  Known(c)
    BY <2>3 DEF Known, Call, Pending, Moves, Idle
  <2>4. ASSUME NEW fd \in Fds, NEW e \in Endps, c = Call("recvfrom", {fd}, <<fd, e>>, b)
        PROVE  Known(c)
    BY <2>4 DEF Known, Call, Pending, Moves, Idle
  <2>5. ASSUME NEW in \in Fds, NEW out \in Fds, NEW ch \in Channels,
               c = Call("copy", {in, out}, <<in, out, ch>>, b)
        PROVE  Known(c)
    BY <2>5 DEF Known, Call, Pending, Moves, Idle
  <2>6. ASSUME NEW fd \in Fds, NEW new \in Fds, fd # new,
               c = Call("recvmsg", {fd, new}, <<fd, new>>, b)
        PROVE  Known(c)
    BY <2>6 DEF Known, Call, Pending, Moves, Idle
  <2>. QED
    BY <2>1, <2>2, <2>3, <2>4, <2>5, <2>6
<1>. QED
  BY <1>1, <1>2, <1>3

(* The forms of the calls that move data.                                  *)
LEMMA DataShapes ==
  ASSUME NEW c, NEW b \in BOOLEAN, NEW x \in Fds, NEW y \in Fds
  PROVE  /\ c = Call("read", {x}, <<x>>, b) => DataShape(c)
         /\ \A ch \in Channels : c = Call("write", {x}, <<x, ch>>, b) => DataShape(c)
         /\ \A dst \in Addrs \cup Endps : c = Call("sendto", {x}, <<x, dst>>, b) => DataShape(c)
         /\ \A e \in Endps : c = Call("recvfrom", {x}, <<x, e>>, b) => DataShape(c)
         /\ \A ch \in Channels : c = Call("copy", {x, y}, <<x, y, ch>>, b) => DataShape(c)
         /\ x # y /\ c = Call("recvmsg", {x, y}, <<x, y>>, b) => DataShape(c)
BY Zenon DEF DataShape

(* The forms of the calls that name a descriptor.                          *)
LEMMA NameShapes ==
  ASSUME NEW c, NEW x \in Fds, NEW y \in Fds
  PROVE  /\ \A f \in Files, acc \in {"read", "write"} :
              c = Call("open", {x}, <<f, acc, x>>, FALSE) => NameShape(c)
         /\ \A o \in Pipes : x # y /\ c = Call("pipe", {x, y}, <<o, x, y>>, FALSE) => NameShape(c)
         /\ c = Call("dup", {x, y}, <<x, y>>, FALSE) => NameShape(c)
         /\ c = Call("close", {x}, <<x>>, FALSE) => NameShape(c)
         /\ \A a \in Addrs : c = Call("unix", {x}, <<x, a>>, FALSE) => NameShape(c)
         /\ x # y /\ c = Call("accept", {x, y}, <<x, y>>, FALSE) => NameShape(c)
         /\ \A e \in Endps : c = Call("connect", {x}, <<x, e>>, FALSE) => NameShape(c)
BY Zenon DEF NameShape

(* The parts make up the type invariant.                                   *)
LEMMA TypedTypeOK ==
  Typed => TypeOK
<1>. SUFFICES ASSUME Typed PROVE TypeOK
  OBVIOUS
<1>1. \A t \in Tids : call[t].fds \subseteq Fds /\ call[t].carries \in BOOLEAN
  BY ShapesKnown DEF Typed, CallTypes, Known
<1>. QED
  BY <1>1 DEF Typed, MapTypes, LabelTypes, TypeOK, Channels

(* Every thread's call is of a known kind.                                 *)
LEMMA ThreadKnown ==
  ASSUME Typed, NEW t \in Tids
  PROVE  /\ Known(call[t]) /\ Owner[t] \in Procs
         /\ \A fd \in call[t].fds : fd \in Fds /\ File(t, fd) \in Objs \cup {None}
<1>1. Known(call[t])
  BY ShapesKnown DEF Typed, CallTypes
<1>2. Owner[t] \in Procs
  BY FdAssumption
<1>. QED
  BY <1>1, <1>2 DEF Typed, MapTypes, Known, File

(* What a call in progress relies on holds on while others leave alone the *)
(* files behind its descriptors, their names and its claims.               *)
LEMMA StandsKept ==
  ASSUME Typed, NEW u \in Tids, Stands(u), call'[u] = call[u],
         \A x \in call[u].fds : File(u, x)' = File(u, x),
         \A x \in call[u].fds : File(u, x) \in Socks => peer'[File(u, x)] = peer[File(u, x)],
         call[u].op \in {"pipe", "unix", "connect"} =>
           \A q \in Procs, x \in Fds : \/ fdt'[q][x] \in {fdt[q][x], None}
                                       \/ \A y \in call[u].fds : fdt'[q][x] # File(u, y),
         call[u].op = "connect" =>
           \A x \in call[u].fds : ts_fd'[Owner[u]][x] = ts_fd[Owner[u]][x],
         Owner[u] \in know => Owner[u] \in know',
         \A ch \in held : \/ ch \in held'
                          \/ ch \in Pipes /\ \A q \in Procs, x \in Fds : fdt[q][x] # ch
  PROVE  Stands(u)'
<1>1. /\ Known(call[u]) /\ Owner[u] \in Procs
      /\ \A fd \in call[u].fds : fd \in Fds /\ File(u, fd) \in Objs \cup {None}
  BY ThreadKnown
<1>2. \A x \in call[u].fds : ChannelOf(Owner[u], x)' = ChannelOf(Owner[u], x)
  BY DEF ChannelOf, Channel, File
<1>3. \A x \in call[u].fds : ChannelOf(Owner[u], x) \in held => ChannelOf(Owner[u], x) \in held'
  <2>. SUFFICES ASSUME NEW x \in call[u].fds, ChannelOf(Owner[u], x) \in held,
                       ChannelOf(Owner[u], x) \in Pipes,
                       \A q \in Procs, y \in Fds : fdt[q][y] # ChannelOf(Owner[u], x)
                PROVE  FALSE
    OBVIOUS
  <2>1. File(u, x) \in Objs
    BY <1>1, FdAssumption DEF ChannelOf, File, Objs
  <2>2. CASE File(u, x) \in Socks
    BY <1>1, <2>1, <2>2, FdAssumption DEF ChannelOf, Channel, File, Typed, MapTypes, Objs
  <2>3. CASE File(u, x) \notin Socks
    BY <1>1, <2>1, <2>3, FdAssumption DEF ChannelOf, Channel, File, Objs
  <2>. QED
    BY <2>2, <2>3
<1>4. \A e \in Endps : e \in held => e \in held'
  BY FdAssumption
<1>5. Only(u, call[u].fds) /\ call[u].op \in {"pipe", "unix", "connect"}
        /\ (\A fd \in call[u].fds : File(u, fd) # None) => Only(u, call[u].fds)'
  <2>. SUFFICES ASSUME Only(u, call[u].fds), call[u].op \in {"pipe", "unix", "connect"},
                       \A fd \in call[u].fds : File(u, fd) # None,
                       NEW q \in Procs, NEW x \in Fds, NEW fd \in call[u].fds,
                       fdt'[q][x] = File(u, fd)'
                PROVE  q = Owner[u] /\ x \in call[u].fds
    BY DEF Only
  <2>1. fdt'[q][x] = File(u, fd) /\ File(u, fd) # None
    OBVIOUS
  <2>2. fdt[q][x] = File(u, fd)
    BY <2>1
  <2>. QED
    BY <2>2 DEF Only
<1>6. NameStands(u)'
  <2>1. /\ NameStands(u) /\ \A fd \in call[u].fds : File(u, fd) # None
    BY DEF Stands
  <2>. DEFINE c == call[u]
  <2>2. /\ c.op = "open" => File(u, c.args[3])' = c.args[1]
        /\ c.op = "pipe" => File(u, c.args[2])' = c.args[1] /\ File(u, c.args[3])' = c.args[1]
        /\ c.op = "dup" => File(u, c.args[1])' = File(u, c.args[2])'
    BY <1>1, <2>1 DEF NameStands, Known
  <2>3. c.op \in {"unix", "connect"} =>
          File(u, c.args[1])' \in Socks /\ peer'[File(u, c.args[1])'] = c.args[2]
    BY <1>1, <2>1 DEF NameStands, Known
  <2>4. c.op = "accept" =>
           /\ File(u, c.args[1])' \in Socks /\ File(u, c.args[2])' \in Socks
           /\ peer'[File(u, c.args[1])'] \in Addrs
           /\ peer'[File(u, c.args[2])'] = peer'[File(u, c.args[1])']
    BY <1>1, <2>1 DEF NameStands, Known
  <2>6. c.op = "connect" => ts_fd'[Owner[u]][c.args[1]] = None
    BY <1>1, <2>1 DEF NameStands, Known
  <2>5. c.op \in {"pipe", "unix", "connect"} => Only(u, c.fds)'
    BY <1>5, <2>1 DEF NameStands
  <2>. QED
    BY <2>2, <2>3, <2>4, <2>5, <2>6 DEF NameStands, File
<1>7. DataStands(u)'
  <2>1. DataStands(u)
    BY DEF Stands
  <2>. DEFINE c == call[u]
              p == Owner[u]
  <2>2. /\ c.op \in {"read", "recvmsg"} =>
             /\ ChannelOf(p, c.args[1])' # None
             /\ c.carries => ChannelOf(p, c.args[1])' \in held'
        /\ c.op = "recvmsg" =>
             ChannelOf(p, c.args[1])' \in Addrs /\ File(u, c.args[2])' \in Files \cup Pipes
        /\ c.op = "write" => c.args[2] = ChannelOf(p, c.args[1])'
    BY <1>1, <1>2, <1>3, <2>1 DEF DataStands, Known
  <2>3. /\ c.op \in {"write", "sendto"} /\ c.carries => p \in know'
        /\ c.op = "sendto" =>
             File(u, c.args[1])' \in Socks /\ peer'[File(u, c.args[1])'] \notin Endps
        /\ c.op = "recvfrom" =>
             /\ File(u, c.args[1])' \in Socks /\ peer'[File(u, c.args[1])'] = None
             /\ c.carries => c.args[2] \in held'
    BY <1>1, <1>4, <2>1 DEF DataStands, Known
  <2>4. c.op = "copy" =>
           /\ c.args[3] = ChannelOf(p, c.args[2])'
           /\ c.carries => /\ ChannelOf(p, c.args[1])' \in held'
                           /\ ChannelOf(p, c.args[1])' \notin Endps /\ c.args[3] \notin Endps
    BY <1>1, <1>2, <1>3, <2>1 DEF DataStands, Known
  <2>. QED
    BY <2>2, <2>3, <2>4 DEF DataStands
<1>. QED
  BY <1>6, <1>7 DEF Stands

----------------------------------------------------------------------------
(* Thread t enters call c: it changes descriptors of its own process that  *)
(* the call's return will name, and no others; what it puts there no other *)
(* call is about to name; and it takes no name away from an open file.     *)
Enters(t, c) ==
  /\ NameShape(c) \/ DataShape(c)
  /\ call[t] = Idle /\ Owner[t] \in alive
  /\ alive' = alive /\ call' = [call EXCEPT ![t] = c] /\ know' = know
  /\ \A u \in Siblings(t) :
       call[u].fds \cap c.fds = {} \/ (c.op \in Moves /\ call[u].op \in Moves)
  /\ \A q \in Procs, x \in Fds :
       \/ q = Owner[t] /\ x \in Pending(c)
       \/ fdt'[q][x] = fdt[q][x] /\ ts_fd'[q][x] = ts_fd[q][x] /\ ts_sockfd'[q][x] = ts_sockfd[q][x]
  /\ \A q \in Procs, x \in Fds : fdt[q][x] \in Socks /\ peer'[fdt[q][x]] # peer[fdt[q][x]] =>
       q = Owner[t] /\ x \in Pending(c)
  /\ \A x \in Pending(c) : \/ fdt'[Owner[t]][x] = fdt[Owner[t]][x]
                           \/ \A u \in Tids \ {t} : call[u].op \in {"pipe", "unix", "connect"} =>
                                \A y \in call[u].fds : fdt'[Owner[t]][x] # File(u, y)
  /\ \A ch \in held : \/ ch \in held'
                      \/ ch \in Pipes /\ \A q \in Procs, x \in Fds : fdt[q][x] # ch
  /\ \A o \in Files : ts_fileptr'[o] = ts_fileptr[o]
  /\ \A o \in Pipes : \/ c.op = "pipe" /\ c.args[1] = o
                      \/ /\ ts_fileptr'[o] = ts_fileptr[o]
                         /\ \A x \in Pending(c) : fdt'[Owner[t]][x] = o =>
                              \E q \in Procs, y \in Fds : fdt[q][y] = o

(* Then, if the call itself stands, all that is said of calls still holds. *)
LEMMA EntersKeeps ==
  ASSUME IInv, NEW t \in Tids, NEW c, Enters(t, c), MapTypes', Stands(t)'
  PROVE  CallTypes' /\ Calls' /\ EntriesTrue' /\ FilesKnown'
<1>1. /\ Typed /\ Dead /\ Disjoint /\ (\A u \in Tids : Stands(u)) /\ EntriesTrue /\ FilesKnown
  BY DEF IInv, Calls
<1>2. /\ call'[t] = c /\ \A u \in Tids \ {t} : call'[u] = call[u]
      /\ DOMAIN call' = Tids /\ call[t] = Idle
  BY <1>1 DEF Enters, Typed, CallTypes
<1>3. Known(c) /\ Known(Idle) /\ Owner[t] \in Procs /\ \A u \in Tids : Known(call[u])
  BY <1>1, ShapesKnown, ThreadKnown, FdAssumption DEF Enters
<1>4. c # Idle
  BY DEF Enters, NameShape, DataShape, Call, Idle
<1>5. CallTypes'
  BY <1>1, <1>2 DEF Enters, Typed, CallTypes
<1>6. Dead'
  <2>1. \A p \in Procs \ alive, x \in Fds : fdt'[p][x] = fdt[p][x]
    BY DEF Enters
  <2>2. \A p \in Procs \ alive : fdt'[p] = NoFds
    <3>. SUFFICES ASSUME NEW p \in Procs \ alive PROVE fdt'[p] = NoFds
      OBVIOUS
    <3>1. fdt[p] = NoFds /\ fdt'[p] \in [Fds -> Objs \cup {None}]
      BY <1>1 DEF Dead, MapTypes
    <3>. QED
      BY <2>1, <3>1 DEF NoFds
  <2>. QED
    BY <1>1, <1>2, <2>2 DEF Dead, Enters
<1>7. Disjoint'
  <2>. SUFFICES ASSUME NEW u \in Tids, NEW v \in Siblings(u)
                PROVE  \/ call'[u].fds \cap call'[v].fds = {}
                       \/ call'[u].op \in Moves /\ call'[v].op \in Moves
    BY DEF Disjoint, Siblings
  <2>1. v \in Tids /\ u # v /\ Owner[u] = Owner[v]
    BY DEF Siblings
  <2>2. CASE u = t
    <3>1. v \in Siblings(t) /\ call'[v] = call[v]
      BY <1>2, <2>1, <2>2
    <3>. QED
      BY <1>2, <2>2, <3>1 DEF Enters
  <2>3. CASE v = t
    <3>1. u \in Siblings(t) /\ call'[u] = call[u]
      BY <1>2, <2>1, <2>3 DEF Siblings
    <3>. QED
      BY <1>2, <2>3, <3>1 DEF Enters
  <2>4. CASE u # t /\ v # t
    BY <1>1, <1>2, <2>1, <2>4 DEF Disjoint
  <2>. QED
    BY <2>2, <2>3, <2>4
<1>8. ASSUME NEW u \in Tids \ {t}, NEW x \in call[u].fds
      PROVE  ~(Owner[u] = Owner[t] /\ x \in Pending(c))
  <2>. SUFFICES ASSUME Owner[u] = Owner[t], x \in Pending(c) PROVE FALSE
    OBVIOUS
  <2>1. u \in Siblings(t) /\ x \in c.fds /\ c.op \notin Moves
    BY <1>3 DEF Siblings, Known
  <2>. QED
    BY <1>8, <2>1 DEF Enters
<1>9. \A u \in Tids : Stands(u)'
  <2>. SUFFICES ASSUME NEW u \in Tids \ {t} PROVE Stands(u)'
    OBVIOUS
  <2>1. call'[u] = call[u] /\ Stands(u) /\ Owner[u] \in Procs /\ call[u].fds \subseteq Fds
    BY <1>1, <1>2, <1>3, FdAssumption DEF Known
  <2>2. \A x \in call[u].fds : File(u, x)' = File(u, x)
    BY <1>8, <2>1 DEF Enters, File
  <2>3. \A x \in call[u].fds : File(u, x) \in Socks => peer'[File(u, x)] = peer[File(u, x)]
    BY <1>8, <2>1 DEF Enters, File
  <2>4. call[u].op \in {"pipe", "unix", "connect"} =>
          \A q \in Procs, x \in Fds : \/ fdt'[q][x] \in {fdt[q][x], None}
                                      \/ \A y \in call[u].fds : fdt'[q][x] # File(u, y)
    BY <2>1 DEF Enters
  <2>5. \A ch \in held : \/ ch \in held'
                         \/ ch \in Pipes /\ \A q \in Procs, x \in Fds : fdt[q][x] # ch
    BY DEF Enters
  <2>6. Owner[u] \in know => Owner[u] \in know'
    BY DEF Enters
  <2>7. \A x \in call[u].fds : ts_fd'[Owner[u]][x] = ts_fd[Owner[u]][x]
    BY <1>8, <2>1 DEF Enters
  <2>. QED
    BY <1>1, <2>1, <2>2, <2>3, <2>4, <2>5, <2>6, <2>7, StandsKept
<1>10. EntriesTrue'
  <2>. SUFFICES ASSUME NEW p \in alive', NEW fd \in Fds, fdt'[p][fd] # None, Settled(p, fd)'
                PROVE  /\ ts_fd'[p][fd] = FdEntry(fdt[p][fd])'
                       /\ ts_sockfd'[p][fd] = SockEntry(fdt[p][fd])'
    BY DEF EntriesTrue
  <2>1. ~(p = Owner[t] /\ fd \in Pending(c)) /\ p \in alive /\ p \in Procs
    BY <1>1, <1>2 DEF Settled, Enters, Typed, MapTypes
  <2>2. /\ fdt'[p][fd] = fdt[p][fd] /\ ts_fd'[p][fd] = ts_fd[p][fd]
        /\ ts_sockfd'[p][fd] = ts_sockfd[p][fd]
        /\ fdt[p][fd] \in Socks => peer'[fdt[p][fd]] = peer[fdt[p][fd]]
    BY <2>1 DEF Enters
  <2>3. Settled(p, fd)
    <3>. SUFFICES ASSUME NEW u \in Tids, Owner[u] = p PROVE fd \notin Pending(call[u])
      BY DEF Settled
    <3>1. CASE u = t
      BY <1>2, <1>3, <3>1 DEF Known
    <3>2. CASE u # t
      BY <1>2, <3>2 DEF Settled
    <3>. QED
      BY <3>1, <3>2
  <2>4. ts_fd[p][fd] = FdEntry(fdt[p][fd]) /\ ts_sockfd[p][fd] = SockEntry(fdt[p][fd])
    BY <1>1, <2>1, <2>2, <2>3 DEF EntriesTrue
  <2>5. fdt[p][fd] \in Objs
    BY <1>1, <2>1, <2>2 DEF Typed, MapTypes
  <2>6. FdEntry(fdt[p][fd])' = FdEntry(fdt[p][fd]) /\ SockEntry(fdt[p][fd])' = SockEntry(fdt[p][fd])
    BY <2>2, <2>5 DEF FdEntry, SockEntry, Objs
  <2>. QED
    BY <2>2, <2>4, <2>6
<1>11. FilesKnown'
  <2>1. \A o \in Files : ts_fileptr'[o] \in {None, Inode(o)}
    BY <1>1 DEF Enters, FilesKnown
  <2>2. ASSUME NEW o \in Pipes, NEW p \in Procs, NEW fd \in Fds, fdt'[p][fd] = o
        PROVE  \/ ts_fileptr'[o] = Fresh(o)
               \/ \E u \in Tids : call'[u].op = "pipe" /\ call'[u].args[1] = o
    <3>1. CASE c.op = "pipe" /\ c.args[1] = o
      BY <1>2, <3>1
    <3>2. CASE ~(c.op = "pipe" /\ c.args[1] = o)
      <4>1. ts_fileptr'[o] = ts_fileptr[o]
        BY <3>2 DEF Enters
      <4>2. \E q \in Procs, y \in Fds : fdt[q][y] = o
        BY <2>2, <3>2 DEF Enters
      <4>3. \/ ts_fileptr[o] = Fresh(o)
            \/ \E u \in Tids : call[u].op = "pipe" /\ call[u].args[1] = o
        BY <1>1, <4>2 DEF FilesKnown
      <4>4. call[t].op # "pipe"
        BY <1>2 DEF Idle
      <4>. QED
        BY <1>2, <4>1, <4>3, <4>4
    <3>. QED
      BY <3>1, <3>2
  <2>. QED
    BY <2>1, <2>2 DEF FilesKnown
<1>. QED
  BY <1>5, <1>6, <1>7, <1>9, <1>10, <1>11 DEF Calls

(* Thread t returns from its call: no entry changes but those of the       *)
(* descriptors it was to name, and only they may be closed.                *)
Leaves(t) ==
  /\ call[t] # Idle
  /\ alive' = alive /\ peer' = peer /\ call' = [call EXCEPT ![t] = Idle]
  /\ know \subseteq know' /\ held \subseteq held'
  /\ \A q \in Procs, x \in Fds :
       \/ /\ q = Owner[t] /\ x \in Pending(call[t])
          /\ fdt'[q][x] \in {fdt[q][x], None}
       \/ fdt'[q][x] = fdt[q][x] /\ ts_fd'[q][x] = ts_fd[q][x] /\ ts_sockfd'[q][x] = ts_sockfd[q][x]
  /\ \A o \in Files : ts_fileptr'[o] \in {ts_fileptr[o], Inode(o)}
  /\ \A o \in Pipes : /\ ts_fileptr'[o] \in {ts_fileptr[o], Fresh(o)}
                      /\ call[t].op = "pipe" /\ call[t].args[1] = o => ts_fileptr'[o] = Fresh(o)
(* Their entries say what they stand for, if they stand for anything.      *)
Naming(t) ==
  \A x \in Pending(call[t]) : fdt'[Owner[t]][x] # None =>
    /\ ts_fd'[Owner[t]][x] = FdEntry(fdt[Owner[t]][x])
    /\ ts_sockfd'[Owner[t]][x] = SockEntry(fdt[Owner[t]][x])

(* All that is said of calls still holds after a return.                   *)
LEMMA LeavesKeeps ==
  ASSUME IInv, NEW t \in Tids, Leaves(t), Naming(t), MapTypes'
  PROVE  CallTypes' /\ Calls' /\ EntriesTrue' /\ FilesKnown'
<1>1. /\ Typed /\ Dead /\ Disjoint /\ (\A u \in Tids : Stands(u)) /\ EntriesTrue /\ FilesKnown
  BY DEF IInv, Calls
<1>2. /\ call'[t] = Idle /\ (\A u \in Tids \ {t} : call'[u] = call[u])
      /\ DOMAIN call' = Tids /\ call[t] # Idle
  BY <1>1 DEF Leaves, Typed, CallTypes
<1>3. Known(Idle) /\ Owner[t] \in Procs /\ \A u \in Tids : Known(call[u])
  BY <1>1, ShapesKnown, ThreadKnown
<1>4. Idle.op = "none" /\ Idle.fds = {} /\ Pending(Idle) = {}
  BY <1>3 DEF Known, Idle
<1>5. CallTypes'
  BY <1>1, <1>2 DEF Typed, CallTypes
<1>6. Dead'
  <2>1. \A p \in Procs \ alive, x \in Fds : fdt'[p][x] = fdt[p][x]
    BY <1>1, <1>2 DEF Leaves, Dead
  <2>2. \A p \in Procs \ alive : fdt'[p] = NoFds
    <3>. SUFFICES ASSUME NEW p \in Procs \ alive PROVE fdt'[p] = NoFds
      OBVIOUS
    <3>1. fdt[p] = NoFds /\ fdt'[p] \in [Fds -> Objs \cup {None}]
      BY <1>1 DEF Dead, MapTypes
    <3>. QED
      BY <2>1, <3>1 DEF NoFds
  <2>. QED
    BY <1>1, <1>2, <2>2 DEF Dead, Leaves
<1>7. Disjoint'
  BY <1>1, <1>2, <1>4 DEF Disjoint, Siblings
<1>8. ASSUME NEW u \in Tids \ {t}, NEW x \in call[u].fds
      PROVE  ~(Owner[u] = Owner[t] /\ x \in Pending(call[t]))
  <2>. SUFFICES ASSUME Owner[u] = Owner[t], x \in Pending(call[t]) PROVE FALSE
    OBVIOUS
  <2>1. u \in Siblings(t) /\ x \in call[t].fds /\ call[t].op \notin Moves
    BY <1>3 DEF Siblings, Known
  <2>. QED
    BY <1>1, <1>8, <2>1 DEF Disjoint
<1>9. \A u \in Tids : Stands(u)'
  <2>1. Stands(t)'
    BY <1>2, <1>4 DEF Stands, NameStands, DataStands
  <2>2. ASSUME NEW u \in Tids \ {t} PROVE Stands(u)'
    <3>1. call'[u] = call[u] /\ Stands(u) /\ Owner[u] \in Procs /\ call[u].fds \subseteq Fds
      BY <1>1, <1>2, <1>3, FdAssumption DEF Known
    <3>2. \A x \in call[u].fds : File(u, x)' = File(u, x)
      BY <1>8, <3>1 DEF Leaves, File
    <3>3. \A x \in call[u].fds : File(u, x) \in Socks => peer'[File(u, x)] = peer[File(u, x)]
      BY DEF Leaves
    <3>4. \A q \in Procs, x \in Fds : fdt'[q][x] \in {fdt[q][x], None}
      BY DEF Leaves
    <3>5. \A ch \in held : ch \in held'
      BY DEF Leaves
    <3>6. Owner[u] \in know => Owner[u] \in know'
      BY DEF Leaves
    <3>7. \A x \in call[u].fds : ts_fd'[Owner[u]][x] = ts_fd[Owner[u]][x]
      BY <1>8, <3>1 DEF Leaves
    <3>. QED
      BY <1>1, <3>1, <3>2, <3>3, <3>4, <3>5, <3>6, <3>7, StandsKept
  <2>. QED
    BY <2>1, <2>2
<1>10. EntriesTrue'
  <2>. SUFFICES ASSUME NEW p \in alive', NEW fd \in Fds, fdt'[p][fd] # None, Settled(p, fd)'
                PROVE  /\ ts_fd'[p][fd] = FdEntry(fdt[p][fd])'
                       /\ ts_sockfd'[p][fd] = SockEntry(fdt[p][fd])'
    BY DEF EntriesTrue
  <2>1. p \in alive /\ p \in Procs /\ fdt'[p][fd] = fdt[p][fd]
    BY <1>1 DEF Leaves, Typed, MapTypes
  <2>2. FdEntry(fdt[p][fd])' = FdEntry(fdt[p][fd]) /\ SockEntry(fdt[p][fd])' = SockEntry(fdt[p][fd])
    BY <2>1 DEF Leaves, FdEntry, SockEntry
  <2>3. CASE p = Owner[t] /\ fd \in Pending(call[t])
    BY <2>2, <2>3 DEF Naming
  <2>4. CASE ~(p = Owner[t] /\ fd \in Pending(call[t]))
    <3>1. ts_fd'[p][fd] = ts_fd[p][fd] /\ ts_sockfd'[p][fd] = ts_sockfd[p][fd]
      BY <2>1, <2>4 DEF Leaves
    <3>2. Settled(p, fd)
      BY <1>2, <2>4 DEF Settled
    <3>. QED
      BY <1>1, <2>1, <2>2, <3>1, <3>2 DEF EntriesTrue
  <2>. QED
    BY <2>3, <2>4
<1>11. FilesKnown'
  <2>1. \A o \in Files : ts_fileptr'[o] \in {None, Inode(o)}
    BY <1>1 DEF Leaves, FilesKnown
  <2>2. ASSUME NEW o \in Pipes, NEW p \in Procs, NEW fd \in Fds, fdt'[p][fd] = o
        PROVE  \/ ts_fileptr'[o] = Fresh(o)
               \/ \E u \in Tids : call'[u].op = "pipe" /\ call'[u].args[1] = o
    <3>1. fdt[p][fd] = o
      BY <2>2, FdAssumption DEF Leaves, Objs
    <3>2. \/ ts_fileptr[o] = Fresh(o)
          \/ \E u \in Tids : call[u].op = "pipe" /\ call[u].args[1] = o
      BY <1>1, <3>1 DEF FilesKnown
    <3>. QED
      BY <1>2, <3>2 DEF Leaves
  <2>. QED
    BY <2>1, <2>2 DEF FilesKnown
<1>. QED
  BY <1>5, <1>6, <1>7, <1>9, <1>10, <1>11 DEF Calls

----------------------------------------------------------------------------
(* Where no two threads of a process meet on a descriptor, a call begins   *)
(* apart from those in progress.                                           *)
LEMMA Starts ==
  ASSUME Gaps = {}, Typed, NEW t \in Tids, NEW op, NEW fds, NEW args, NEW carries,
         Enter(t, op, fds, args, carries)
  PROVE  LET c == Call(op, fds, args, carries)
         IN  /\ call[t] = Idle /\ Owner[t] \in alive /\ Owner[t] \in Procs
             /\ call' = [call EXCEPT ![t] = c] /\ call'[t] = c
             /\ \A u \in Siblings(t) :
                  call[u].fds \cap c.fds = {} \/ (c.op \in Moves /\ call[u].op \in Moves)
BY FdAssumption DEF Enter, Call, Apart, Typed, CallTypes

(* The same of a call that carries no data.                                *)
LEMMA StartsNaming ==
  ASSUME Gaps = {}, Typed, NEW t \in Tids, NEW op, NEW fds, NEW args,
         Enter(t, op, fds, args, FALSE)
  PROVE  LET c == Call(op, fds, args, FALSE)
         IN  /\ call[t] = Idle /\ Owner[t] \in alive
             /\ call' = [call EXCEPT ![t] = c] /\ call'[t] = c
             /\ \A u \in Siblings(t) :
                  call[u].fds \cap c.fds = {} \/ (c.op \in Moves /\ call[u].op \in Moves)
BY DEF Enter, Call, Apart, Typed, CallTypes

(* What a descriptor reads from and writes to.                             *)
LEMMA ChannelKnown ==
  ASSUME Typed, NEW p \in Procs, NEW fd \in Fds
  PROVE  /\ ChannelOf(p, fd) \in Channels \cup {None}
         /\ fdt[p][fd] \in Objs \cup {None}
         /\ fdt[p][fd] = None => ChannelOf(p, fd) = None
         /\ fdt[p][fd] \in Socks => /\ ChannelOf(p, fd) = peer[fdt[p][fd]]
                                    /\ peer[fdt[p][fd]] \in Addrs \cup Endps \cup {None}
         /\ fdt[p][fd] \in Files \cup Pipes => ChannelOf(p, fd) = fdt[p][fd]
<1>1. /\ fdt[p][fd] \in Objs \cup {None} /\ None \notin Objs
      /\ \A k \in Socks : peer[k] \in Addrs \cup Endps \cup {None}
  BY FdAssumption DEF Typed, MapTypes
<1>. QED
  BY <1>1, FdAssumption DEF ChannelOf, Channel, Channels, Objs

(* A call that only moves data, once it stands.                            *)
LEMMA DataEnters ==
  ASSUME Gaps = {}, IInv, NEW t \in Tids, NEW op, NEW fds, NEW args, NEW carries,
         MovesData(t, op, fds, args, carries), DataShape(Call(op, fds, args, carries)), Stands(t)'
  PROVE  IInv'
<1>. DEFINE c == Call(op, fds, args, carries)
<1>1. Enter(t, op, fds, args, carries) /\ UNCHANGED <<osVars, refVars, labelVars>> /\ Typed
  BY DEF MovesData, IInv
<1>2. /\ call[t] = Idle /\ Owner[t] \in alive /\ Owner[t] \in Procs
      /\ call' = [call EXCEPT ![t] = c] /\ call'[t] = c
      /\ \A u \in Siblings(t) :
           call[u].fds \cap c.fds = {} \/ (c.op \in Moves /\ call[u].op \in Moves)
  BY <1>1, Starts
<1>. HIDE DEF c
<1>3. DataShape(c)
  BY DEF c
<1>6. /\ alive' = alive /\ know' = know /\ fdt' = fdt /\ peer' = peer /\ held' = held
      /\ ts_fd' = ts_fd /\ ts_sockfd' = ts_sockfd /\ ts_fileptr' = ts_fileptr
  BY <1>1 DEF osVars, refVars, labelVars
<1>4. Enters(t, c)
  <2>1. \A o \in Pipes, x \in Pending(c) : x \in Fds
    BY <1>3, ShapesKnown DEF Known
  <2>2. \A o \in Pipes, x \in Pending(c) : fdt'[Owner[t]][x] = o =>
          \E q \in Procs, y \in Fds : fdt[q][y] = o
    BY <1>2, <1>6, <2>1
  <2>. QED
    BY <1>2, <1>3, <1>6, <2>2 DEF Enters
<1>5. MapTypes' /\ LabelTypes' /\ FlowSound'
  BY <1>1 DEF IInv, Typed, MapTypes, LabelTypes, FlowSound, IdOf, osVars, refVars, labelVars
<1>. QED
  BY <1>4, <1>5, EntersKeeps DEF IInv, Typed

(* read(2) begins.                                                         *)
LEMMA ReadBegins ==
  ASSUME Gaps = {}, IInv, NEW t \in Tids, NEW fd \in Fds, ReadCall(t, fd)
  PROVE  IInv'
<1>. DEFINE p == Owner[t]
            b == ChannelOf(p, fd) \in held
            c == Call("read", {fd}, <<fd>>, b)
<1>1. ChannelOf(p, fd) # None /\ MovesData(t, "read", {fd}, <<fd>>, b) /\ Typed
  BY DEF ReadCall, IInv
<1>2. call'[t] = c /\ fdt' = fdt /\ peer' = peer /\ held' = held /\ p \in Procs
  BY <1>1, Starts DEF MovesData, osVars, labelVars
<1>3. ChannelOf(p, fd)' = ChannelOf(p, fd) /\ File(t, fd)' = File(t, fd) /\ File(t, fd) # None
  BY <1>1, <1>2 DEF ChannelOf, Channel, File
<1>4. Stands(t)'
  <2>1. /\ call'[t].op = "read" /\ call'[t].fds = {fd} /\ (call'[t].carries => b)
        /\ call'[t].args[1] = fd
    <3>. HIDE DEF b
    <3>. QED
      BY <1>2 DEF Call
  <2>. QED
    BY <1>1, <1>2, <1>3, <2>1 DEF Stands, NameStands, DataStands
<1>5. DataShape(c)
  <2>1. b \in BOOLEAN
    OBVIOUS
  <2>. HIDE DEF b
  <2>. QED
    BY <2>1, DataShapes
<1>. QED
  BY <1>1, <1>4, <1>5, DataEnters

(* write(2) begins.                                                        *)
LEMMA WriteBegins ==
  ASSUME Gaps = {}, IInv, NEW t \in Tids, NEW fd \in Fds, WriteCall(t, fd)
  PROVE  IInv'
<1>. DEFINE p == Owner[t]
            ch == ChannelOf(p, fd)
            b == p \in know
            c == Call("write", {fd}, <<fd, ch>>, b)
<1>1. ch # None /\ MovesData(t, "write", {fd}, <<fd, ch>>, b) /\ Typed
  BY DEF WriteCall, IInv
<1>2. call'[t] = c /\ fdt' = fdt /\ peer' = peer /\ know' = know /\ p \in Procs
  BY <1>1, Starts DEF MovesData, osVars, labelVars
<1>3. ChannelOf(p, fd)' = ch /\ File(t, fd)' = File(t, fd) /\ File(t, fd) # None
  BY <1>1, <1>2 DEF ChannelOf, Channel, File
<1>4. Stands(t)'
  <2>1. /\ call'[t].op = "write" /\ call'[t].fds = {fd} /\ (call'[t].carries => b)
        /\ call'[t].args[1] = fd /\ call'[t].args[2] = ch
    <3>. HIDE DEF b, ch
    <3>. QED
      BY <1>2 DEF Call
  <2>. QED
    BY <1>1, <1>2, <1>3, <2>1 DEF Stands, NameStands, DataStands
<1>5. DataShape(c)
  <2>1. ch \in Channels /\ b \in BOOLEAN
    BY <1>1, <1>2, ChannelKnown
  <2>. HIDE DEF ch, b
  <2>. QED
    BY <2>1, DataShapes
<1>. QED
  BY <1>1, <1>4, <1>5, DataEnters

(* sendto(2) begins.                                                       *)
LEMMA SendtoBegins ==
  ASSUME Gaps = {}, IInv, NEW t \in Tids, NEW fd \in Fds, NEW dst \in Addrs \cup Endps,
         SendtoCall(t, fd, dst)
  PROVE  IInv'
<1>. DEFINE p == Owner[t]
            b == p \in know
            c == Call("sendto", {fd}, <<fd, dst>>, b)
<1>1. /\ fdt[p][fd] \in Socks /\ peer[fdt[p][fd]] \notin Endps /\ Typed
      /\ MovesData(t, "sendto", {fd}, <<fd, dst>>, b)
  BY DEF SendtoCall, IInv
<1>2. call'[t] = c /\ fdt' = fdt /\ peer' = peer /\ know' = know
  BY <1>1, Starts DEF MovesData, osVars, labelVars
<1>3. File(t, fd)' \in Socks /\ File(t, fd)' # None /\ peer'[File(t, fd)'] \notin Endps
  BY <1>1, <1>2, FdAssumption DEF File, Objs
<1>4. Stands(t)'
  <2>1. /\ call'[t].op = "sendto" /\ call'[t].fds = {fd} /\ (call'[t].carries => b)
        /\ call'[t].args[1] = fd /\ call'[t].args[2] = dst
    <3>. HIDE DEF b
    <3>. QED
      BY <1>2 DEF Call
  <2>. QED
    BY <1>1, <1>2, <1>3, <2>1 DEF Stands, NameStands, DataStands
<1>5. DataShape(c)
  <2>1. b \in BOOLEAN
    OBVIOUS
  <2>. HIDE DEF b
  <2>. QED
    BY <2>1, DataShapes
<1>. QED
  BY <1>1, <1>4, <1>5, DataEnters

(* recvfrom(2) begins.                                                     *)
LEMMA RecvfromBegins ==
  ASSUME Gaps = {}, IInv, NEW t \in Tids, NEW fd \in Fds, NEW e \in Endps, RecvfromCall(t, fd, e)
  PROVE  IInv'
<1>. DEFINE p == Owner[t]
            b == e \in held
            c == Call("recvfrom", {fd}, <<fd, e>>, b)
<1>1. /\ fdt[p][fd] \in Socks /\ peer[fdt[p][fd]] = None /\ Typed
      /\ MovesData(t, "recvfrom", {fd}, <<fd, e>>, b)
  BY DEF RecvfromCall, IInv
<1>2. call'[t] = c /\ fdt' = fdt /\ peer' = peer /\ held' = held
  BY <1>1, Starts DEF MovesData, osVars, labelVars
<1>3. File(t, fd)' \in Socks /\ File(t, fd)' # None /\ peer'[File(t, fd)'] = None
  BY <1>1, <1>2, FdAssumption DEF File, Objs
<1>4. Stands(t)'
  <2>1. /\ call'[t].op = "recvfrom" /\ call'[t].fds = {fd} /\ (call'[t].carries => b)
        /\ call'[t].args[1] = fd /\ call'[t].args[2] = e
    <3>. HIDE DEF b
    <3>. QED
      BY <1>2 DEF Call
  <2>. QED
    BY <1>1, <1>2, <1>3, <2>1 DEF Stands, NameStands, DataStands
<1>5. DataShape(c)
  <2>1. b \in BOOLEAN
    OBVIOUS
  <2>. HIDE DEF b
  <2>. QED
    BY <2>1, DataShapes
<1>. QED
  BY <1>1, <1>4, <1>5, DataEnters

(* sendfile(2), copy_file_range(2) or splice(2) begins.                    *)
LEMMA CopyBegins ==
  ASSUME Gaps = {}, IInv, NEW t \in Tids, NEW in \in Fds, NEW out \in Fds, CopyCall(t, in, out)
  PROVE  IInv'
<1>. DEFINE p == Owner[t]
            from == ChannelOf(p, in)
            to == ChannelOf(p, out)
            b == {from, to} \cap Endps = {} /\ from \in held
            c == Call("copy", {in, out}, <<in, out, to>>, b)
<1>1. from # None /\ to # None /\ MovesData(t, "copy", {in, out}, <<in, out, to>>, b) /\ Typed
  BY DEF CopyCall, IInv
<1>2. call'[t] = c /\ fdt' = fdt /\ peer' = peer /\ held' = held /\ p \in Procs
  BY <1>1, Starts DEF MovesData, osVars, labelVars
<1>3. /\ ChannelOf(p, in)' = from /\ File(t, in)' = File(t, in) /\ File(t, in) # None
      /\ ChannelOf(p, out)' = to /\ File(t, out)' = File(t, out) /\ File(t, out) # None
  BY <1>1, <1>2 DEF ChannelOf, Channel, File
<1>4. Stands(t)'
  <2>1. /\ call'[t].op = "copy" /\ call'[t].fds = {in, out} /\ (call'[t].carries => b)
        /\ call'[t].args[1] = in /\ call'[t].args[2] = out /\ call'[t].args[3] = to
    <3>. HIDE DEF b, from, to
    <3>. QED
      BY <1>2 DEF Call
  <2>. QED
    BY <1>1, <1>2, <1>3, <2>1 DEF Stands, NameStands, DataStands
<1>5. DataShape(c)
  <2>1. to \in Channels /\ b \in BOOLEAN
    BY <1>1, <1>2, ChannelKnown
  <2>. HIDE DEF to, b
  <2>. QED
    BY <2>1, DataShapes
<1>. QED
  BY <1>1, <1>4, <1>5, DataEnters

----------------------------------------------------------------------------
(* What a call that nobody may join has in hand.                           *)
LEMMA Exclusive ==
  ASSUME IInv, NEW u \in Tids, call[u].op \in {"pipe", "unix", "connect"}, NEW y \in call[u].fds
  PROVE  /\ Only(u, call[u].fds) /\ Owner[u] \in Procs /\ y \in Fds
         /\ File(u, y) = fdt[Owner[u]][y] /\ File(u, y) \in Pipes \cup Socks
<1>1. Known(call[u]) /\ Owner[u] \in Procs /\ Stands(u)
  BY ThreadKnown DEF IInv, Calls
<1>. QED
  BY <1>1 DEF Stands, NameStands, Known, File

(* A free descriptor.                                                      *)
LEMMA FreeLowest ==
  ASSUME NEW p \in Procs, FreeFds(p) # {}
  PROVE  Lowest(FreeFds(p)) \in Fds /\ fdt[p][Lowest(FreeFds(p))] = None
<1>1. FreeFds(p) \in SUBSET Fds
  BY DEF FreeFds
<1>2. Lowest(FreeFds(p)) \in FreeFds(p)
  BY <1>1, LowestIn
<1>. QED
  BY <1>2 DEF FreeFds

(* A call that begins leaves the whole invariant true.                     *)
LEMMA Begins ==
  ASSUME IInv, NEW t \in Tids, NEW c, Enters(t, c), MapTypes', LabelTypes', FlowSound', Stands(t)'
  PROVE  IInv'
BY EntersKeeps DEF IInv, Typed

(* open(2) begins.                                                         *)
LEMMA OpenBegins ==
  ASSUME Gaps = {}, IInv, NEW t \in Tids, NEW f \in Files, NEW acc \in {"read", "write"},
         OpenCall(t, f, acc)
  PROVE  IInv'
<1>. DEFINE p == Owner[t]
<1>1. PICK fd \in Fds : fd = Lowest(FreeFds(p)) /\ fdt[p][fd] = None
  BY FreeLowest, FdAssumption DEF OpenCall
<1>. DEFINE c == Call("open", {fd}, <<f, acc, fd>>, FALSE)
<1>2. /\ Enter(t, "open", {fd}, <<f, acc, fd>>, FALSE) /\ fdt' = [fdt EXCEPT ![p][fd] = f]
      /\ alive' = alive /\ peer' = peer /\ ts_fd' = ts_fd /\ ts_sockfd' = ts_sockfd
      /\ ts_fileptr' = ts_fileptr /\ ts_proc' = ts_proc /\ ts_file' = ts_file /\ ts_endp' = ts_endp
      /\ know' = know /\ held' = held
  BY <1>1 DEF OpenCall, refVars, labelVars
<1>3. /\ Typed /\ fdt \in [Procs -> [Fds -> Objs \cup {None}]]
      /\ p \in Procs /\ f \in Objs /\ f # None /\ f \notin Pipes \cup Socks
  BY FdAssumption DEF IInv, Typed, MapTypes, Objs
<1>4. /\ fdt' \in [Procs -> [Fds -> Objs \cup {None}]] /\ fdt'[p][fd] = f
      /\ \A q \in Procs, x \in Fds : q # p \/ x # fd => fdt'[q][x] = fdt[q][x]
  BY <1>2, <1>3
<1>5. /\ call[t] = Idle /\ p \in alive
      /\ call' = [call EXCEPT ![t] = c] /\ call'[t] = c
      /\ \A u \in Siblings(t) :
           call[u].fds \cap c.fds = {} \/ (c.op \in Moves /\ call[u].op \in Moves)
  BY <1>2, <1>3, StartsNaming
<1>6. /\ c.op = "open" /\ c.fds = {fd} /\ c.args[1] = f /\ c.args[3] = fd
      /\ Pending(c) = {fd} /\ NameShape(c)
  <2>1. c.op = "open" /\ c.fds = {fd} /\ c.args[1] = f /\ c.args[3] = fd
    BY DEF Call
  <2>2. NameShape(c)
    BY NameShapes
  <2>3. Pending(c) = {fd}
    BY <2>1, <2>2, ShapesKnown DEF Known
  <2>. HIDE DEF c
  <2>. QED
    BY <2>1, <2>2, <2>3
<1>. HIDE DEF c
<1>7. Enters(t, c)
  <2>1. \A u \in Tids \ {t} : call[u].op \in {"pipe", "unix", "connect"} =>
          \A y \in call[u].fds : fdt'[p][fd] # File(u, y)
    BY <1>3, <1>4, Exclusive
  <2>. QED
    BY <1>2, <1>3, <1>4, <1>5, <1>6, <2>1, FdAssumption DEF Enters
<1>8. Stands(t)'
  <2>1. File(t, fd)' = f
    BY <1>4 DEF File
  <2>. QED
    BY <1>3, <1>5, <1>6, <2>1 DEF Stands, NameStands, DataStands
<1>9. MapTypes' /\ LabelTypes' /\ FlowSound'
  BY <1>2, <1>4 DEF IInv, Typed, MapTypes, LabelTypes, FlowSound, IdOf
<1>. QED
  BY <1>7, <1>8, <1>9, Begins

(* pipe(2) or socketpair(2) begins: nothing leads to its object yet.       *)
LEMMA PipeBegins ==
  ASSUME Gaps = {}, IInv, NEW t \in Tids, NEW o \in Pipes, PipeCall(t, o)
  PROVE  IInv'
<1>. DEFINE p == Owner[t]
<1>1. PICK r, w \in Fds : /\ r = Lowest(FreeFds(p)) /\ w = Lowest(FreeFds(p) \ {r})
                          /\ r # w /\ fdt[p][r] = None /\ fdt[p][w] = None
  <2>1. FreeFds(p) \in SUBSET Fds /\ Cardinality(FreeFds(p)) >= 2
    BY DEF PipeCall, FreeFds
  <2>. DEFINE x == Lowest(FreeFds(p))
              y == Lowest(FreeFds(p) \ {x})
  <2>2. x \in FreeFds(p) /\ y \in FreeFds(p) \ {x}
    BY <2>1, TwoLowest
  <2>. HIDE DEF y
  <2>3. x \in Fds /\ y \in Fds /\ x # y /\ fdt[p][x] = None /\ fdt[p][y] = None
    BY <2>2 DEF FreeFds
  <2>. HIDE DEF x
  <2>. QED
    BY <2>3 DEF x, y
<1>. DEFINE c == Call("pipe", {r, w}, <<o, r, w>>, FALSE)
<1>2. /\ Enter(t, "pipe", {r, w}, <<o, r, w>>, FALSE) /\ fdt' = [fdt EXCEPT ![p][r] = o, ![p][w] = o]
      /\ alive' = alive /\ peer' = peer /\ ts_fd' = ts_fd /\ ts_sockfd' = ts_sockfd
      /\ ts_fileptr' = [ts_fileptr EXCEPT ![o] = None]
      /\ ts_proc' = ts_proc /\ ts_file' = ts_file \ {Inode(o), Fresh(o)} /\ ts_endp' = ts_endp
      /\ know' = know /\ held' = held \ {o} /\ Unused(o)
  BY <1>1 DEF PipeCall
<1>3. /\ Typed /\ fdt \in [Procs -> [Fds -> Objs \cup {None}]] /\ ts_fileptr \in [Objs -> Ids \cup {None}]
      /\ p \in Procs /\ o \in Objs /\ o # None /\ o \notin Files \cup Socks
  BY FdAssumption DEF IInv, Typed, MapTypes, Objs
<1>4. /\ fdt' \in [Procs -> [Fds -> Objs \cup {None}]] /\ fdt'[p][r] = o /\ fdt'[p][w] = o
      /\ \A q \in Procs, x \in Fds : q # p \/ x \notin {r, w} => fdt'[q][x] = fdt[q][x]
      /\ \A q \in Procs, x \in Fds : fdt[q][x] # o
  BY <1>1, <1>2, <1>3 DEF Unused
<1>5. /\ call[t] = Idle /\ p \in alive
      /\ call' = [call EXCEPT ![t] = c] /\ call'[t] = c
      /\ \A u \in Siblings(t) :
           call[u].fds \cap c.fds = {} \/ (c.op \in Moves /\ call[u].op \in Moves)
  BY <1>2, <1>3, StartsNaming
<1>6. /\ c.op = "pipe" /\ c.fds = {r, w} /\ c.args[1] = o /\ c.args[2] = r /\ c.args[3] = w
      /\ Pending(c) = {r, w} /\ NameShape(c)
  <2>1. c.op = "pipe" /\ c.fds = {r, w} /\ c.args[1] = o /\ c.args[2] = r /\ c.args[3] = w
    BY DEF Call
  <2>2. NameShape(c)
    BY <1>1, NameShapes
  <2>3. Pending(c) = {r, w}
    BY <2>1, <2>2, ShapesKnown DEF Known
  <2>. HIDE DEF c
  <2>. QED
    BY <2>1, <2>2, <2>3
<1>. HIDE DEF c
<1>7. Enters(t, c)
  <2>1. \A u \in Tids \ {t} : call[u].op \in {"pipe", "unix", "connect"} =>
          \A y \in call[u].fds : o # File(u, y)
    BY <1>4, Exclusive
  <2>2. \A x \in Objs \ {o} : ts_fileptr'[x] = ts_fileptr[x]
    BY <1>2, <1>3
  <2>3. \A ch \in held : ch \in held' \/ (ch \in Pipes /\ \A q \in Procs, x \in Fds : fdt[q][x] # ch)
    BY <1>2, <1>4
  <2>4. \A x \in Files : x \in Objs \ {o}
    BY <1>3 DEF Objs
  <2>5. \A x \in Pipes : \/ x = o
                         \/ /\ ts_fileptr'[x] = ts_fileptr[x] /\ fdt'[p][r] # x /\ fdt'[p][w] # x
    BY <1>4, <2>2 DEF Objs
  <2>. QED
    BY <1>2, <1>3, <1>4, <1>5, <1>6, <2>1, <2>2, <2>3, <2>4, <2>5 DEF Enters
<1>8. Stands(t)'
  <2>1. File(t, r)' = o /\ File(t, w)' = o
    BY <1>4 DEF File
  <2>2. Only(t, {r, w})'
    BY <1>3, <1>4, <2>1 DEF Only
  <2>. QED
    BY <1>3, <1>5, <1>6, <2>1, <2>2 DEF Stands, NameStands, DataStands
<1>9. MapTypes' /\ LabelTypes'
  BY <1>2, <1>3, <1>4 DEF IInv, Typed, MapTypes, LabelTypes
<1>10. FlowSound'
  <2>1. \A ch \in Channels : ch # o => IdOf(ch) \notin {Inode(o), Fresh(o)}
    BY <1>3, FdAssumption DEF Channels, IdOf, Inode, Fresh, PathHash
  <2>2. held \subseteq Channels /\ FlowSound
    BY DEF IInv, Typed, LabelTypes
  <2>. QED
    BY <1>2, <2>1, <2>2 DEF FlowSound, IdOf
<1>. QED
  BY <1>7, <1>8, <1>9, <1>10, Begins

(* dup(2) begins: the copied descriptor is in no call that relies on being *)
(* the only one.                                                           *)
LEMMA DupBegins ==
  ASSUME Gaps = {}, IInv, NEW t \in Tids, NEW old \in Fds, NEW new \in Fds, DupCall(t, old, new)
  PROVE  IInv'
<1>. DEFINE p == Owner[t]
            c == Call("dup", {old, new}, <<old, new>>, FALSE)
<1>1. /\ Enter(t, "dup", {old, new}, <<old, new>>, FALSE) /\ fdt[p][old] # None
      /\ fdt' = [fdt EXCEPT ![p][new] = fdt[p][old]]
      /\ alive' = alive /\ peer' = peer /\ ts_fd' = ts_fd /\ ts_sockfd' = ts_sockfd
      /\ ts_fileptr' = ts_fileptr /\ ts_proc' = ts_proc /\ ts_file' = ts_file /\ ts_endp' = ts_endp
      /\ know' = know /\ held' = held
  BY DEF DupCall, refVars, labelVars
<1>2. Typed /\ fdt \in [Procs -> [Fds -> Objs \cup {None}]] /\ p \in Procs
  BY FdAssumption DEF IInv, Typed, MapTypes
<1>3. /\ fdt' \in [Procs -> [Fds -> Objs \cup {None}]]
      /\ fdt'[p][new] = fdt[p][old] /\ fdt'[p][old] = fdt[p][old]
      /\ \A q \in Procs, x \in Fds : q # p \/ x # new => fdt'[q][x] = fdt[q][x]
      /\ new = old => \A q \in Procs, x \in Fds : fdt'[q][x] = fdt[q][x]
  BY <1>1, <1>2
<1>4. /\ call[t] = Idle /\ p \in alive
      /\ call' = [call EXCEPT ![t] = c] /\ call'[t] = c
      /\ \A u \in Siblings(t) :
           call[u].fds \cap c.fds = {} \/ (c.op \in Moves /\ call[u].op \in Moves)
  BY <1>1, <1>2, StartsNaming
<1>5. /\ c.op = "dup" /\ c.fds = {old, new} /\ c.args[1] = old /\ c.args[2] = new
      /\ Pending(c) = {new} \ {old} /\ NameShape(c)
  <2>1. c.op = "dup" /\ c.fds = {old, new} /\ c.args[1] = old /\ c.args[2] = new
    BY DEF Call
  <2>2. NameShape(c)
    BY NameShapes
  <2>3. Pending(c) = {new} \ {old}
    BY <2>1, <2>2, ShapesKnown DEF Known
  <2>. HIDE DEF c
  <2>. QED
    BY <2>1, <2>2, <2>3
<1>. HIDE DEF c
<1>6. Enters(t, c)
  <2>1. ASSUME NEW u \in Tids \ {t}, call[u].op \in {"pipe", "unix", "connect"}, NEW y \in call[u].fds,
               fdt[p][old] = File(u, y)
        PROVE  FALSE
    <3>1. Owner[u] = p /\ old \in call[u].fds
      BY <1>2, <2>1, Exclusive DEF Only
    <3>2. u \in Siblings(t)
      BY <3>1 DEF Siblings
    <3>. QED
      BY <1>4, <1>5, <2>1, <3>1, <3>2 DEF Moves
  <2>. QED
    BY <1>1, <1>2, <1>3, <1>4, <1>5, <2>1 DEF Enters
<1>7. Stands(t)'
  <2>1. File(t, old)' = fdt[p][old] /\ File(t, new)' = fdt[p][old]
    BY <1>3 DEF File
  <2>. QED
    BY <1>1, <1>4, <1>5, <2>1 DEF Stands, NameStands, DataStands
<1>8. MapTypes' /\ LabelTypes' /\ FlowSound'
  BY <1>1, <1>3 DEF IInv, Typed, MapTypes, LabelTypes, FlowSound, IdOf
<1>. QED
  BY <1>6, <1>7, <1>8, Begins

(* close(2) begins: the entries go before the kernel closes.               *)
LEMMA CloseBegins ==
  ASSUME Gaps = {}, IInv, NEW t \in Tids, NEW fd \in Fds, CloseCall(t, fd)
  PROVE  IInv'
<1>. DEFINE p == Owner[t]
            c == Call("close", {fd}, <<fd>>, FALSE)
<1>1. /\ Enter(t, "close", {fd}, <<fd>>, FALSE) /\ fdt[p][fd] # None
      /\ ts_fd' = [ts_fd EXCEPT ![p][fd] = None] /\ ts_sockfd' = [ts_sockfd EXCEPT ![p][fd] = None]
      /\ alive' = alive /\ peer' = peer /\ fdt' = fdt
      /\ ts_fileptr' = ts_fileptr /\ ts_proc' = ts_proc /\ ts_file' = ts_file /\ ts_endp' = ts_endp
      /\ know' = know /\ held' = held
  BY DEF CloseCall, labelVars, te_delete_fd
<1>2. /\ Typed /\ p \in Procs /\ ts_fd \in [Procs -> [Fds -> Ids \cup {None}]]
      /\ ts_sockfd \in [Procs -> [Fds -> Endps \cup {None}]]
  BY FdAssumption DEF IInv, Typed, MapTypes
<1>3. /\ ts_fd' \in [Procs -> [Fds -> Ids \cup {None}]]
      /\ ts_sockfd' \in [Procs -> [Fds -> Endps \cup {None}]]
      /\ \A q \in Procs, x \in Fds : q # p \/ x # fd =>
           ts_fd'[q][x] = ts_fd[q][x] /\ ts_sockfd'[q][x] = ts_sockfd[q][x]
  BY <1>1, <1>2
<1>4. /\ call[t] = Idle /\ p \in alive
      /\ call' = [call EXCEPT ![t] = c] /\ call'[t] = c
      /\ \A u \in Siblings(t) :
           call[u].fds \cap c.fds = {} \/ (c.op \in Moves /\ call[u].op \in Moves)
  BY <1>1, <1>2, StartsNaming
<1>5. c.op = "close" /\ c.fds = {fd} /\ Pending(c) = {fd} /\ NameShape(c)
  <2>1. c.op = "close" /\ c.fds = {fd} /\ c.args[1] = fd
    BY DEF Call
  <2>2. NameShape(c)
    BY NameShapes
  <2>3. Pending(c) = {fd}
    BY <2>1, <2>2, ShapesKnown DEF Known
  <2>. HIDE DEF c
  <2>. QED
    BY <2>1, <2>2, <2>3
<1>. HIDE DEF c
<1>6. Enters(t, c)
  BY <1>1, <1>2, <1>3, <1>4, <1>5 DEF Enters
<1>7. Stands(t)'
  <2>1. File(t, fd)' # None
    BY <1>1 DEF File
  <2>. QED
    BY <1>4, <1>5, <2>1 DEF Stands, NameStands, DataStands
<1>8. MapTypes' /\ LabelTypes' /\ FlowSound'
  BY <1>1, <1>3 DEF IInv, Typed, MapTypes, LabelTypes, FlowSound, IdOf
<1>. QED
  BY <1>6, <1>7, <1>8, Begins

(* bind(2) or connect(2) begins and names a socket only this descriptor    *)
(* leads to.                                                               *)
LEMMA NamingBegins ==
  ASSUME Gaps = {}, IInv, NEW t \in Tids, NEW op \in {"unix", "connect"}, NEW fd \in Fds, NEW a,
         op = "unix" => a \in Addrs, op = "connect" => a \in Endps,
         Nameable(Owner[t], fd), Enter(t, op, {fd}, <<fd, a>>, FALSE),
         peer' = [peer EXCEPT ![fdt[Owner[t]][fd]] = a],
         UNCHANGED <<alive, fdt, ts_fd, ts_sockfd, ts_fileptr, ts_proc, ts_file, know, held>>,
         ts_endp \subseteq ts_endp', ts_endp' \subseteq Endps
  PROVE  IInv'
<1>. DEFINE p == Owner[t]
            c == Call(op, {fd}, <<fd, a>>, FALSE)
<1>1. PICK k \in Socks : /\ fdt[p][fd] = k /\ k # None /\ peer' = [peer EXCEPT ![k] = a]
                         /\ \A q \in Procs, x \in Fds : fdt[q][x] = k => q = p /\ x = fd
  <2>1. /\ fdt[p][fd] \in Socks /\ fdt[p][fd] # None
        /\ \A q \in Procs, x \in Fds : fdt[q][x] = fdt[p][fd] => q = p /\ x = fd
    BY FdAssumption DEF Nameable, Objs
  <2>. QED
    BY <2>1
<1>2. /\ Typed /\ p \in Procs /\ peer \in [Socks -> Addrs \cup Endps \cup {None}]
      /\ a \in Addrs \cup Endps
  BY FdAssumption DEF IInv, Typed, MapTypes
<1>3. /\ peer' \in [Socks -> Addrs \cup Endps \cup {None}]
      /\ peer'[k] = a /\ \A x \in Socks \ {k} : peer'[x] = peer[x]
  BY <1>1, <1>2
<1>4. /\ call[t] = Idle /\ p \in alive
      /\ call' = [call EXCEPT ![t] = c] /\ call'[t] = c
      /\ \A u \in Siblings(t) :
           call[u].fds \cap c.fds = {} \/ (c.op \in Moves /\ call[u].op \in Moves)
  BY <1>2, StartsNaming
<1>5. /\ c.op = op /\ c.fds = {fd} /\ c.args[1] = fd /\ c.args[2] = a
      /\ Pending(c) = {fd} /\ NameShape(c)
  <2>1. c.op = op /\ c.fds = {fd} /\ c.args[1] = fd /\ c.args[2] = a
    BY DEF Call
  <2>2. NameShape(c)
    BY NameShapes
  <2>3. Pending(c) = {fd}
    BY <2>1, <2>2, ShapesKnown DEF Known
  <2>. HIDE DEF c
  <2>. QED
    BY <2>1, <2>2, <2>3
<1>. HIDE DEF c
<1>6. Enters(t, c)
  <2>1. \A q \in Procs, x \in Fds : fdt[q][x] \in Socks /\ peer'[fdt[q][x]] # peer[fdt[q][x]] =>
          q = p /\ x = fd
    BY <1>1, <1>3
  <2>2. /\ alive' = alive /\ know' = know /\ held' = held
        /\ fdt' = fdt /\ ts_fd' = ts_fd /\ ts_sockfd' = ts_sockfd /\ ts_fileptr' = ts_fileptr
    OBVIOUS
  <2>3. \A x \in Pipes : fdt'[p][fd] # x
    BY <1>1, <2>2, FdAssumption
  <2>. QED
    BY <1>4, <1>5, <2>1, <2>2, <2>3 DEF Enters
<1>7. Stands(t)'
  <2>1. File(t, fd)' = k
    BY <1>1 DEF File
  <2>2. Only(t, {fd})'
    BY <1>1, <2>1 DEF Only
  <2>3. op = "connect" => ts_fd'[p][fd] = None
    <3>. SUFFICES ASSUME op = "connect" PROVE ts_fd[p][fd] = None
      OBVIOUS
    <3>1. Settled(p, fd)
      <4>. SUFFICES ASSUME NEW u \in Tids, Owner[u] = p PROVE fd \notin Pending(call[u])
        BY DEF Settled
      <4>1. u = t \/ u \in Siblings(t)
        BY DEF Siblings
      <4>2. Known(call[u]) /\ Known(call[t])
        BY <1>2, ThreadKnown
      <4>. QED
        BY <1>4, <1>5, <4>1, <4>2 DEF Known, Moves, Idle
    <3>2. FdEntry(k) = None
      BY <1>1, FdAssumption DEF FdEntry, Nameable
    <3>. QED
      BY <1>1, <1>4, <3>1, <3>2 DEF IInv, EntriesTrue
  <2>. QED
    BY <1>1, <1>3, <1>4, <1>5, <2>1, <2>2, <2>3 DEF Stands, NameStands, DataStands
<1>8. MapTypes' /\ LabelTypes' /\ FlowSound'
  BY <1>3 DEF IInv, Typed, MapTypes, LabelTypes, FlowSound, IdOf
<1>. QED
  BY <1>6, <1>7, <1>8, Begins

(* The same of the two calls.                                              *)
LEMMA UnixBegins ==
  ASSUME Gaps = {}, IInv, NEW t \in Tids, NEW fd \in Fds, NEW a \in Addrs, UnixCall(t, fd, a)
  PROVE  IInv'
<1>1. /\ Nameable(Owner[t], fd) /\ Enter(t, "unix", {fd}, <<fd, a>>, FALSE)
      /\ peer' = [peer EXCEPT ![fdt[Owner[t]][fd]] = a]
      /\ UNCHANGED <<alive, fdt, ts_fd, ts_sockfd, ts_fileptr, ts_proc, ts_file, know, held>>
      /\ ts_endp' = ts_endp
  BY DEF UnixCall, refVars, labelVars
<1>2. ts_endp \subseteq Endps
  BY DEF IInv, Typed, LabelTypes
<1>. QED
  BY <1>1, <1>2, NamingBegins

(* connect(2) also records the process's label at the endpoint.            *)
LEMMA ConnectBegins ==
  ASSUME Gaps = {}, IInv, NEW t \in Tids, NEW fd \in Fds, NEW e \in Endps, ConnectCall(t, fd, e)
  PROVE  IInv'
<1>1. /\ Nameable(Owner[t], fd) /\ Enter(t, "connect", {fd}, <<fd, e>>, FALSE)
      /\ peer' = [peer EXCEPT ![fdt[Owner[t]][fd]] = e]
      /\ UNCHANGED <<alive, fdt, ts_fd, ts_sockfd, ts_fileptr, ts_proc, ts_file, know, held>>
      /\ ts_endp' \in {ts_endp, ts_endp \cup {e}}
  BY DEF ConnectCall, refVars, te_connect_flow
<1>2. ts_endp \subseteq Endps
  BY DEF IInv, Typed, LabelTypes
<1>. QED
  BY <1>1, <1>2, NamingBegins

(* accept(2) begins: the new socket has the listener's name.               *)
LEMMA AcceptBegins ==
  ASSUME Gaps = {}, IInv, NEW t \in Tids, NEW lfd \in Fds, NEW k \in Socks, AcceptCall(t, lfd, k)
  PROVE  IInv'
<1>. DEFINE p == Owner[t]
<1>1. PICK fd \in Fds : fd = Lowest(FreeFds(p)) /\ fdt[p][fd] = None
  BY FreeLowest, FdAssumption DEF AcceptCall
<1>2. PICK l \in Socks, a \in Addrs : fdt[p][lfd] = l /\ peer[l] = a
  BY DEF AcceptCall
<1>. DEFINE c == Call("accept", {lfd, fd}, <<lfd, fd>>, FALSE)
<1>3. /\ Enter(t, "accept", {lfd, fd}, <<lfd, fd>>, FALSE)
      /\ fdt' = [fdt EXCEPT ![p][fd] = k] /\ peer' = [peer EXCEPT ![k] = a]
      /\ alive' = alive /\ ts_fd' = ts_fd /\ ts_sockfd' = ts_sockfd
      /\ ts_fileptr' = [ts_fileptr EXCEPT ![k] = None]
      /\ ts_proc' = ts_proc /\ ts_file' = ts_file /\ ts_endp' = ts_endp
      /\ know' = know /\ held' = held /\ Unused(k)
  BY <1>1, <1>2 DEF AcceptCall, labelVars
<1>4. /\ Typed /\ fdt \in [Procs -> [Fds -> Objs \cup {None}]] /\ ts_fileptr \in [Objs -> Ids \cup {None}]
      /\ peer \in [Socks -> Addrs \cup Endps \cup {None}]
      /\ p \in Procs /\ k \in Objs /\ k # None /\ l # None /\ k \notin Files \cup Pipes
  BY FdAssumption DEF IInv, Typed, MapTypes, Objs
<1>5. /\ fdt' \in [Procs -> [Fds -> Objs \cup {None}]] /\ fdt'[p][fd] = k
      /\ \A q \in Procs, x \in Fds : q # p \/ x # fd => fdt'[q][x] = fdt[q][x]
      /\ \A q \in Procs, x \in Fds : fdt[q][x] # k
      /\ lfd # fd /\ fdt'[p][lfd] = l /\ l # k
  BY <1>1, <1>2, <1>3, <1>4 DEF Unused
<1>6. /\ peer' \in [Socks -> Addrs \cup Endps \cup {None}]
      /\ peer'[k] = a /\ peer'[l] = a /\ \A x \in Socks \ {k} : peer'[x] = peer[x]
  BY <1>2, <1>3, <1>4, <1>5
<1>7. /\ call[t] = Idle /\ p \in alive
      /\ call' = [call EXCEPT ![t] = c] /\ call'[t] = c
      /\ \A u \in Siblings(t) :
           call[u].fds \cap c.fds = {} \/ (c.op \in Moves /\ call[u].op \in Moves)
  BY <1>3, <1>4, StartsNaming
<1>8. /\ c.op = "accept" /\ c.fds = {lfd, fd} /\ c.args[1] = lfd /\ c.args[2] = fd
      /\ Pending(c) = {fd} /\ NameShape(c)
  <2>1. c.op = "accept" /\ c.fds = {lfd, fd} /\ c.args[1] = lfd /\ c.args[2] = fd
    BY DEF Call
  <2>2. NameShape(c)
    BY <1>5, NameShapes
  <2>3. Pending(c) = {fd}
    BY <2>1, <2>2, ShapesKnown DEF Known
  <2>. HIDE DEF c
  <2>. QED
    BY <2>1, <2>2, <2>3
<1>. HIDE DEF c
<1>9. Enters(t, c)
  <2>1. \A u \in Tids \ {t} : call[u].op \in {"pipe", "unix", "connect"} =>
          \A y \in call[u].fds : k # File(u, y)
    BY <1>5, Exclusive
  <2>2. \A q \in Procs, x \in Fds : fdt[q][x] \in Socks => peer'[fdt[q][x]] = peer[fdt[q][x]]
    BY <1>5, <1>6
  <2>3. \A x \in Files \cup Pipes : ts_fileptr'[x] = ts_fileptr[x] /\ x # k
    BY <1>3, <1>4 DEF Objs
  <2>. QED
    BY <1>3, <1>4, <1>5, <1>7, <1>8, <2>1, <2>2, <2>3 DEF Enters
<1>10. Stands(t)'
  <2>1. File(t, lfd)' = l /\ File(t, fd)' = k
    BY <1>5 DEF File
  <2>. QED
    BY <1>4, <1>6, <1>7, <1>8, <2>1 DEF Stands, NameStands, DataStands
<1>11. MapTypes' /\ LabelTypes' /\ FlowSound'
  BY <1>3, <1>4, <1>5, <1>6 DEF IInv, Typed, MapTypes, LabelTypes, FlowSound, IdOf
<1>. QED
  BY <1>9, <1>10, <1>11, Begins

(* recvmsg(2) begins: what is passed is not being named by another call.   *)
LEMMA RecvmsgBegins ==
  ASSUME Gaps = {}, IInv, NEW t \in Tids, NEW fd \in Fds, NEW o \in Objs, RecvmsgCall(t, fd, o)
  PROVE  IInv'
<1>. DEFINE p == Owner[t]
<1>1. PICK new \in Fds : new = Lowest(FreeFds(p)) /\ fdt[p][new] = None
  BY FreeLowest, FdAssumption DEF RecvmsgCall
<1>2. PICK a \in Addrs : a = ChannelOf(p, fd)
  BY DEF RecvmsgCall
<1>3. PICK b \in BOOLEAN : /\ Enter(t, "recvmsg", {fd, new}, <<fd, new>>, b)
                           /\ b => a \in held
  <2>. DEFINE m == a \in held
  <2>1. Enter(t, "recvmsg", {fd, new}, <<fd, new>>, m) /\ m \in BOOLEAN /\ (m => a \in held)
    BY <1>1, <1>2 DEF RecvmsgCall
  <2>. HIDE DEF m
  <2>. QED
    BY <2>1
<1>. DEFINE c == Call("recvmsg", {fd, new}, <<fd, new>>, b)
<1>4. /\ fdt' = [fdt EXCEPT ![p][new] = o]
      /\ alive' = alive /\ peer' = peer /\ ts_fd' = ts_fd /\ ts_sockfd' = ts_sockfd
      /\ ts_fileptr' = ts_fileptr
      /\ ts_proc' = ts_proc /\ ts_file' = ts_file /\ ts_endp' = ts_endp
      /\ know' = know /\ held' = held
      /\ o \notin Socks /\ (o \in Files \/ \E q \in Procs, x \in Fds : fdt[q][x] = o)
      /\ \A u \in Tids : \A x \in call[u].fds : fdt[Owner[u]][x] = o => call[u].op \in Moves
  BY <1>1 DEF RecvmsgCall, refVars, labelVars
<1>5. /\ Typed /\ fdt \in [Procs -> [Fds -> Objs \cup {None}]]
      /\ p \in Procs /\ o # None /\ o \in Files \cup Pipes /\ a # None
      /\ fdt[p][fd] # None /\ fd # new
  <2>1. /\ Typed /\ fdt \in [Procs -> [Fds -> Objs \cup {None}]]
        /\ p \in Procs /\ o # None /\ o \in Files \cup Pipes /\ a # None
    BY <1>4, FdAssumption DEF IInv, Typed, MapTypes, Objs
  <2>. QED
    BY <1>1, <1>2, <2>1, ChannelKnown
<1>6. /\ fdt' \in [Procs -> [Fds -> Objs \cup {None}]] /\ fdt'[p][new] = o
      /\ \A q \in Procs, x \in Fds : q # p \/ x # new => fdt'[q][x] = fdt[q][x]
      /\ fdt'[p][fd] = fdt[p][fd]
  BY <1>4, <1>5
<1>7. /\ call[t] = Idle /\ p \in alive
      /\ call' = [call EXCEPT ![t] = c] /\ call'[t] = c
      /\ \A u \in Siblings(t) :
           call[u].fds \cap c.fds = {} \/ (c.op \in Moves /\ call[u].op \in Moves)
  BY <1>3, <1>5 DEF Enter, Call, Apart, Typed, CallTypes
<1>8. /\ c.op = "recvmsg" /\ c.fds = {fd, new} /\ c.args[1] = fd /\ c.args[2] = new
      /\ c.carries = b /\ Pending(c) = {new} /\ DataShape(c)
  <2>1. /\ c.op = "recvmsg" /\ c.fds = {fd, new} /\ c.args[1] = fd /\ c.args[2] = new
        /\ c.carries = b
    BY DEF Call
  <2>2. DataShape(c)
    BY <1>5, DataShapes
  <2>3. Pending(c) = {new}
    BY <2>1, <2>2, ShapesKnown DEF Known
  <2>. HIDE DEF c
  <2>. QED
    BY <2>1, <2>2, <2>3
<1>. HIDE DEF c
<1>9. Enters(t, c)
  <2>1. \A u \in Tids \ {t} : call[u].op \in {"pipe", "unix", "connect"} =>
          \A y \in call[u].fds : o # File(u, y)
    BY <1>4 DEF File, Moves
  <2>2. o \in Pipes => \E q \in Procs, x \in Fds : fdt[q][x] = o
    BY <1>4, FdAssumption
  <2>. QED
    BY <1>4, <1>5, <1>6, <1>7, <1>8, <2>1, <2>2 DEF Enters
<1>10. Stands(t)'
  <2>1. File(t, fd)' = fdt[p][fd] /\ File(t, new)' = o
    BY <1>6 DEF File
  <2>2. ChannelOf(p, fd)' = a
    BY <1>2, <1>4, <1>6 DEF ChannelOf, Channel
  <2>3. b => a \in held'
    BY <1>3, <1>4
  <2>. QED
    BY <1>5, <1>7, <1>8, <2>1, <2>2, <2>3 DEF Stands, NameStands, DataStands
<1>11. MapTypes' /\ LabelTypes' /\ FlowSound'
  BY <1>4, <1>6 DEF IInv, Typed, MapTypes, LabelTypes, FlowSound, IdOf
<1>. QED
  BY <1>9, <1>10, <1>11, Begins

----------------------------------------------------------------------------
(* A return leaves the whole invariant true.                               *)
LEMMA Returns ==
  ASSUME IInv, NEW t \in Tids, Leaves(t), Naming(t), MapTypes', LabelTypes', FlowSound'
  PROVE  IInv'
BY LeavesKeeps DEF IInv, Typed

(* What a return finds of its call.                                        *)
LEMMA Found ==
  ASSUME IInv, NEW t \in Tids
  PROVE  /\ Known(call[t]) /\ NameStands(t) /\ DataStands(t) /\ Owner[t] \in Procs
         /\ \A fd \in call[t].fds : fd \in Fds /\ fdt[Owner[t]][fd] \in Objs
         /\ call[t].op # "none" => Owner[t] \in alive /\ call[t] # Idle
<1>1. /\ Known(call[t]) /\ Owner[t] \in Procs /\ Stands(t)
      /\ \A fd \in call[t].fds : fd \in Fds /\ File(t, fd) \in Objs \cup {None}
  BY ThreadKnown DEF IInv, Calls
<1>2. call[t].op # "none" => call[t] # Idle
  BY DEF Idle
<1>. QED
  BY <1>1, <1>2 DEF Stands, File, IInv, Calls, Dead

(* An entry that is true leads the handlers to the channel.                *)
LEMMA EntryAligned ==
  ASSUME Typed, NEW p \in Procs, NEW fd \in Fds, ChannelOf(p, fd) # None,
         ts_fd[p][fd] = FdEntry(fdt[p][fd]), ts_sockfd[p][fd] = SockEntry(fdt[p][fd])
  PROVE  IF ChannelOf(p, fd) \in Endps THEN ts_sockfd[p][fd] = ChannelOf(p, fd)
         ELSE ts_fd[p][fd] = IdOf(ChannelOf(p, fd))
<1>1. fdt[p][fd] \in Objs
  BY ChannelKnown DEF Objs
<1>2. CASE fdt[p][fd] \in Socks
  BY <1>2, ChannelKnown, FdAssumption DEF FdEntry, SockEntry, IdOf
<1>3. CASE fdt[p][fd] \in Files \cup Pipes
  BY <1>3, ChannelKnown, FdAssumption DEF FdEntry, SockEntry, IdOf
<1>. QED
  BY <1>1, <1>2, <1>3 DEF Objs

(* The entries of a descriptor that a call looks up and does not name are  *)
(* true: nobody else is about to name it.                                  *)
LEMMA LookedUp ==
  ASSUME IInv, NEW t \in Tids, call[t].op # "none", NEW fd \in call[t].fds, fd \notin Pending(call[t])
  PROVE  /\ ts_fd[Owner[t]][fd] = FdEntry(fdt[Owner[t]][fd])
         /\ ts_sockfd[Owner[t]][fd] = SockEntry(fdt[Owner[t]][fd])
         /\ ChannelOf(Owner[t], fd) # None =>
              IF ChannelOf(Owner[t], fd) \in Endps THEN ts_sockfd[Owner[t]][fd] = ChannelOf(Owner[t], fd)
              ELSE ts_fd[Owner[t]][fd] = IdOf(ChannelOf(Owner[t], fd))
<1>. DEFINE p == Owner[t]
<1>1. p \in alive /\ p \in Procs /\ fd \in Fds /\ fdt[p][fd] # None
  BY Found, FdAssumption DEF Objs
<1>2. Settled(p, fd)
  <2>. SUFFICES ASSUME NEW u \in Tids \ {t}, Owner[u] = p, fd \in Pending(call[u]) PROVE FALSE
    BY DEF Settled
  <2>1. Known(call[u]) /\ u \in Siblings(t)
    BY Found DEF Siblings
  <2>. QED
    BY <2>1 DEF Known, IInv, Calls, Disjoint
<1>3. ts_fd[p][fd] = FdEntry(fdt[p][fd]) /\ ts_sockfd[p][fd] = SockEntry(fdt[p][fd])
  BY <1>1, <1>2 DEF IInv, EntriesTrue
<1>. QED
  BY <1>1, <1>3, EntryAligned DEF IInv

(* The ids a label can be kept under.                                      *)
LEMMA IdsKnown ==
  /\ \A o \in Objs : Inode(o) \in Ids
  /\ \A o \in Pipes : Fresh(o) \in Ids
  /\ \A a \in Files \cup Addrs : PathHash(a) \in Ids
  /\ None \notin Ids
BY NoneAssumption DEF Ids

(* The entries of one descriptor come to say what its open file is, and    *)
(* nothing else changes.                                                   *)
Names(p, fd) ==
  LET o == fdt[p][fd]
  IN  /\ ts_fd' \in [Procs -> [Fds -> Ids \cup {None}]] /\ ts_fd'[p][fd] = FdEntry(o)
      /\ ts_sockfd' \in [Procs -> [Fds -> Endps \cup {None}]] /\ ts_sockfd'[p][fd] = SockEntry(o)
      /\ \A q \in Procs, x \in Fds : q # p \/ x # fd =>
           ts_fd'[q][x] = ts_fd[q][x] /\ ts_sockfd'[q][x] = ts_sockfd[q][x]
      /\ ts_fileptr' \in [Objs -> Ids \cup {None}]
      /\ \A x \in Objs : ts_fileptr'[x] = IF x = o /\ FdEntry(o) # None THEN FdEntry(o) ELSE ts_fileptr[x]

(* Storing a reference of the right kind does that.                        *)
LEMMA Stored ==
  ASSUME Typed, NEW p \in Procs, NEW fd \in Fds, fdt[p][fd] \in Objs, FdEntry(fdt[p][fd]) \in Ids,
         te_store_fd_with_current_file(p, fd, FdEntry(fdt[p][fd]))
  PROVE  Names(p, fd)
<1>1. PICK o \in Objs : fdt[p][fd] = o
  OBVIOUS
<1>2. /\ ts_fd \in [Procs -> [Fds -> Ids \cup {None}]] /\ ts_sockfd \in [Procs -> [Fds -> Endps \cup {None}]]
      /\ ts_fileptr \in [Objs -> Ids \cup {None}]
  BY DEF Typed, MapTypes
<1>. DEFINE id == FdEntry(o)
<1>3. /\ ts_fd' = [ts_fd EXCEPT ![p][fd] = id] /\ ts_sockfd' = [ts_sockfd EXCEPT ![p][fd] = None]
      /\ ts_fileptr' = [x \in Objs |-> IF \E y \in {fd} : fdt[p][y] = x THEN id ELSE ts_fileptr[x]]
  BY <1>1 DEF te_store_fd_with_current_file, te_store_fd, te_store_fileptr_ref
<1>4. id \in Ids /\ id # None /\ SockEntry(o) = None
  BY <1>1, IdsKnown, FdAssumption DEF FdEntry, SockEntry
<1>. HIDE DEF id
<1>5. /\ ts_fd' \in [Procs -> [Fds -> Ids \cup {None}]] /\ ts_fd'[p][fd] = id
      /\ ts_sockfd' \in [Procs -> [Fds -> Endps \cup {None}]] /\ ts_sockfd'[p][fd] = None
      /\ \A q \in Procs, x \in Fds : q # p \/ x # fd =>
           ts_fd'[q][x] = ts_fd[q][x] /\ ts_sockfd'[q][x] = ts_sockfd[q][x]
  BY <1>2, <1>3, <1>4
<1>6. /\ ts_fileptr' \in [Objs -> Ids \cup {None}]
      /\ \A x \in Objs : ts_fileptr'[x] = IF x = o THEN id ELSE ts_fileptr[x]
  BY <1>1, <1>2, <1>3, <1>4
<1>. QED
  BY <1>1, <1>4, <1>5, <1>6 DEF Names, id

(* Copying the entries of a descriptor that stands for the same, or for a  *)
(* socket of the same name, does that.                                     *)
LEMMA Copied ==
  ASSUME Typed, NEW p \in Procs, NEW old \in Fds, NEW new \in Fds,
         fdt[p][new] \in Objs,
         ts_fd[p][old] = FdEntry(fdt[p][new]), ts_sockfd[p][old] = SockEntry(fdt[p][new]),
         \/ /\ new = old \/ FdEntry(fdt[p][new]) # None
            /\ CopyRefs(p, old, new, ts_fd, ts_sockfd)
         \/ new # old /\ CopyRefs(p, old, new, te_delete_fd(ts_fd, p, new), te_delete_fd(ts_sockfd, p, new))
  PROVE  Names(p, new)
<1>1. PICK o \in Objs : fdt[p][new] = o
  OBVIOUS
<1>2. /\ ts_fd \in [Procs -> [Fds -> Ids \cup {None}]] /\ ts_sockfd \in [Procs -> [Fds -> Endps \cup {None}]]
      /\ ts_fileptr \in [Objs -> Ids \cup {None}]
  BY DEF Typed, MapTypes
<1>3. FdEntry(o) # None => SockEntry(o) = None
  BY FdAssumption DEF FdEntry, SockEntry
<1>4. PICK m \in [Procs -> [Fds -> Ids \cup {None}]], s \in [Procs -> [Fds -> Endps \cup {None}]] :
        /\ CopyRefs(p, old, new, m, s) /\ m[p][old] = FdEntry(o) /\ s[p][old] = SockEntry(o)
        /\ \A q \in Procs, x \in Fds : q # p \/ x # new => m[q][x] = ts_fd[q][x] /\ s[q][x] = ts_sockfd[q][x]
        /\ new = old \/ FdEntry(o) # None \/ (m[p][new] = None /\ s[p][new] = None)
  <2>1. CASE CopyRefs(p, old, new, ts_fd, ts_sockfd) /\ (new = old \/ FdEntry(o) # None)
    BY <1>1, <1>2, <2>1
  <2>2. CASE new # old /\ CopyRefs(p, old, new, te_delete_fd(ts_fd, p, new), te_delete_fd(ts_sockfd, p, new))
    <3>. DEFINE m == [ts_fd EXCEPT ![p][new] = None]
                s == [ts_sockfd EXCEPT ![p][new] = None]
    <3>1. CopyRefs(p, old, new, m, s)
      BY <2>2 DEF te_delete_fd
    <3>2. /\ m \in [Procs -> [Fds -> Ids \cup {None}]] /\ s \in [Procs -> [Fds -> Endps \cup {None}]]
          /\ m[p][old] = FdEntry(o) /\ s[p][old] = SockEntry(o) /\ m[p][new] = None /\ s[p][new] = None
          /\ \A q \in Procs, x \in Fds : q # p \/ x # new => m[q][x] = ts_fd[q][x] /\ s[q][x] = ts_sockfd[q][x]
      BY <1>1, <1>2, <2>2
    <3>. HIDE DEF m, s
    <3>. QED
      BY <3>1, <3>2
  <2>. QED
    BY <1>1, <2>1, <2>2
<1>5. CASE FdEntry(o) = None
  <2>1. /\ ts_fd' = m /\ ts_fileptr' = ts_fileptr
        /\ ts_sockfd' = IF s[p][old] = None THEN s ELSE [s EXCEPT ![p][new] = s[p][old]]
    BY <1>4, <1>5 DEF CopyRefs
  <2>2. ts_fd'[p][new] = FdEntry(o)
    BY <1>4, <1>5, <2>1
  <2>3. /\ ts_sockfd' \in [Procs -> [Fds -> Endps \cup {None}]] /\ ts_sockfd'[p][new] = SockEntry(o)
        /\ \A q \in Procs, x \in Fds : q # p \/ x # new => ts_sockfd'[q][x] = s[q][x]
    BY <1>4, <1>5, <2>1
  <2>. QED
    BY <1>1, <1>2, <1>4, <1>5, <2>1, <2>2, <2>3 DEF Names
<1>6. CASE FdEntry(o) # None
  <2>. DEFINE n == [s EXCEPT ![p][new] = None]
  <2>1. n[p][old] = None
    BY <1>3, <1>4, <1>6
  <2>2. /\ ts_fd' = [m EXCEPT ![p][new] = FdEntry(o)] /\ ts_sockfd' = n
        /\ ts_fileptr' = [x \in Objs |-> IF \E fd \in {new} : fdt[p][fd] = x THEN FdEntry(o)
                                         ELSE ts_fileptr[x]]
    BY <1>4, <1>6, <2>1 DEF CopyRefs, te_store_fileptr_ref
  <2>3. FdEntry(o) \in Ids
    BY <1>4, <1>6
  <2>4. /\ ts_fd' \in [Procs -> [Fds -> Ids \cup {None}]] /\ ts_fd'[p][new] = FdEntry(o)
        /\ \A q \in Procs, x \in Fds : q # p \/ x # new => ts_fd'[q][x] = m[q][x]
    BY <2>2, <2>3
  <2>5. /\ ts_sockfd' \in [Procs -> [Fds -> Endps \cup {None}]] /\ ts_sockfd'[p][new] = SockEntry(o)
        /\ \A q \in Procs, x \in Fds : q # p \/ x # new => ts_sockfd'[q][x] = s[q][x]
    BY <1>3, <1>6, <2>2
  <2>6. /\ ts_fileptr' \in [Objs -> Ids \cup {None}]
        /\ \A x \in Objs : ts_fileptr'[x] = IF x = o THEN FdEntry(o) ELSE ts_fileptr[x]
    BY <1>1, <1>2, <2>2, <2>3
  <2>. QED
    BY <1>1, <1>4, <1>6, <2>4, <2>5, <2>6 DEF Names
<1>. QED
  BY <1>5, <1>6

(* So a return that did it keeps the invariant, if labels still follow.    *)
LEMMA NamingReturns ==
  ASSUME IInv, NEW t \in Tids, call[t] # Idle, call[t].op # "pipe", call' = [call EXCEPT ![t] = Idle],
         UNCHANGED <<alive, fdt, peer>>, know \subseteq know', held \subseteq held', LabelTypes', FlowSound',
         NEW fd \in Fds, fdt[Owner[t]][fd] \in Objs, Pending(call[t]) \subseteq {fd}, Names(Owner[t], fd),
         \/ fd \in Pending(call[t])
         \/ /\ ts_fd[Owner[t]][fd] = FdEntry(fdt[Owner[t]][fd])
            /\ ts_sockfd[Owner[t]][fd] = SockEntry(fdt[Owner[t]][fd])
  PROVE  IInv'
<1>. DEFINE p == Owner[t]
<1>1. PICK o \in Objs : o = fdt[p][fd]
  OBVIOUS
<1>2. /\ ts_fd' \in [Procs -> [Fds -> Ids \cup {None}]] /\ ts_fd'[p][fd] = FdEntry(o)
      /\ ts_sockfd' \in [Procs -> [Fds -> Endps \cup {None}]] /\ ts_sockfd'[p][fd] = SockEntry(o)
      /\ \A q \in Procs, x \in Fds : q # p \/ x \notin Pending(call[t]) =>
           ts_fd'[q][x] = ts_fd[q][x] /\ ts_sockfd'[q][x] = ts_sockfd[q][x]
      /\ ts_fileptr' \in [Objs -> Ids \cup {None}]
      /\ \A x \in Objs : ts_fileptr'[x] = IF x = o /\ FdEntry(o) # None THEN FdEntry(o) ELSE ts_fileptr[x]
  BY <1>1 DEF Names
<1>3. Leaves(t)
  <2>1. \A x \in Files : ts_fileptr'[x] \in {ts_fileptr[x], Inode(x)}
    BY <1>2 DEF Objs, FdEntry
  <2>2. \A x \in Pipes : x \notin Files
    BY FdAssumption
  <2>3. \A x \in Pipes : ts_fileptr'[x] \in {ts_fileptr[x], Fresh(x)}
    BY <1>2, <2>2 DEF Objs, FdEntry
  <2>. QED
    BY <1>2, <2>1, <2>3 DEF Leaves
<1>4. Naming(t)
  BY <1>1, <1>2 DEF Naming
<1>5. MapTypes'
  BY <1>2 DEF IInv, Typed, MapTypes
<1>. QED
  BY <1>3, <1>4, <1>5, Returns

(* A return that leaves the labels alone.                                  *)
LEMMA LabelsStay ==
  ASSUME IInv, UNCHANGED labelVars
  PROVE  know \subseteq know' /\ held \subseteq held' /\ LabelTypes' /\ FlowSound'
BY DEF IInv, Typed, LabelTypes, FlowSound, IdOf, labelVars

(* open(2) returns.                                                        *)
LEMMA OpenReturns ==
  ASSUME IInv, NEW t \in Tids, OpenRet(t)
  PROVE  IInv'
<1>. DEFINE p == Owner[t]
<1>1. PICK f \in Files, acc \in {"read", "write"}, fd \in Fds :
        call[t].args[1] = f /\ call[t].args[2] = acc /\ call[t].args[3] = fd
  BY Found DEF OpenRet, Leave, Known
<1>2. /\ p \in Procs /\ fdt[p][fd] = f /\ Typed /\ Pending(call[t]) = {fd} /\ call[t] # Idle
      /\ call[t].op = "open"
  BY <1>1, Found DEF OpenRet, Leave, NameStands, File, Known, IInv
<1>3. f \in Objs /\ f # None /\ f \notin Pipes \cup Socks \cup Addrs \cup Endps
  BY FdAssumption DEF Objs
<1>. DEFINE id == Inode(f)
            marked == f \in Secrets \/ {id, PathHash(f)} \cap ts_file # {}
            wr == acc = "write" /\ p \in ts_proc
<1>4. /\ call' = [call EXCEPT ![t] = Idle] /\ te_store_fd_with_current_file(p, fd, id)
      /\ ts_file' = (IF marked \/ wr THEN ts_file \cup {id} ELSE ts_file)
      /\ ts_proc' = (IF marked /\ acc = "read" THEN ts_proc \cup {p} ELSE ts_proc)
      /\ held' = (IF f \in Secrets THEN held \cup {f} ELSE held)
      /\ UNCHANGED <<alive, fdt, peer>> /\ ts_endp' = ts_endp /\ know' = know
  BY <1>1, <1>2, <1>3 DEF OpenRet, Leave, Claim, osVars
<1>5. id \in Ids /\ FdEntry(fdt[p][fd]) = id
  BY <1>2, <1>3, IdsKnown DEF FdEntry
<1>6. Names(p, fd)
  BY <1>2, <1>3, <1>4, <1>5, Stored
<1>7. LabelTypes'
  BY <1>2, <1>3, <1>4, <1>5 DEF Typed, LabelTypes, Channels
<1>8. FlowSound'
  <2>1. FlowSound /\ ts_proc \subseteq ts_proc' /\ ts_file \subseteq ts_file' /\ know' = know
        /\ ts_endp' = ts_endp
    BY <1>4 DEF IInv
  <2>2. \A ch \in held' : ch \in held \/ (ch = f /\ id \in ts_file')
    BY <1>4
  <2>3. IdOf(f) = id
    BY <1>3 DEF IdOf
  <2>. QED
    BY <1>3, <2>1, <2>2, <2>3 DEF FlowSound, IdOf
<1>9. fdt[p][fd] \in Objs /\ fd \in Pending(call[t]) /\ know \subseteq know' /\ held \subseteq held'
  BY <1>2, <1>3, <1>4
<1>. QED
  BY <1>2, <1>4, <1>6, <1>7, <1>8, <1>9, NamingReturns

(* pipe(2) or socketpair(2) returns.                                       *)
LEMMA PipeReturns ==
  ASSUME IInv, NEW t \in Tids, PipeRet(t)
  PROVE  IInv'
<1>. DEFINE p == Owner[t]
<1>1. PICK o \in Pipes, r, w \in Fds :
        call[t].args[1] = o /\ call[t].args[2] = r /\ call[t].args[3] = w
  BY Found DEF PipeRet, Leave, Known
<1>2. /\ p \in Procs /\ fdt[p][r] = o /\ fdt[p][w] = o /\ Typed /\ Pending(call[t]) = {r, w}
      /\ call[t] # Idle /\ call[t].op = "pipe"
  BY <1>1, Found DEF PipeRet, Leave, NameStands, File, Known, IInv
<1>3. o \in Objs /\ o # None /\ o \notin Files \cup Socks /\ Fresh(o) \in Ids
  BY FdAssumption, IdsKnown DEF Objs
<1>4. /\ call' = [call EXCEPT ![t] = Idle]
      /\ ts_fd' = [ts_fd EXCEPT ![p] = [fd \in Fds |-> IF fd \in {r, w} THEN Fresh(o) ELSE @[fd]]]
      /\ ts_sockfd' = [ts_sockfd EXCEPT ![p] = [fd \in Fds |-> IF fd \in {r, w} THEN None ELSE @[fd]]]
      /\ ts_fileptr' = [x \in Objs |-> IF \E fd \in {r, w} : fdt[p][fd] = x THEN Fresh(o)
                                       ELSE ts_fileptr[x]]
      /\ UNCHANGED <<alive, fdt, peer, names, ts_proc, ts_file, ts_endp, know, held>>
  BY <1>1 DEF PipeRet, Leave, osVars, labelVars, te_store_fileptr_ref
<1>5. /\ ts_fd \in [Procs -> [Fds -> Ids \cup {None}]] /\ ts_sockfd \in [Procs -> [Fds -> Endps \cup {None}]]
      /\ ts_fileptr \in [Objs -> Ids \cup {None}]
  BY <1>2 DEF Typed, MapTypes
<1>6. /\ ts_fd' \in [Procs -> [Fds -> Ids \cup {None}]]
      /\ \A q \in Procs, x \in Fds :
           ts_fd'[q][x] = IF q = p /\ x \in {r, w} THEN Fresh(o) ELSE ts_fd[q][x]
  BY <1>3, <1>4, <1>5, <1>2
<1>7. /\ ts_sockfd' \in [Procs -> [Fds -> Endps \cup {None}]]
      /\ \A q \in Procs, x \in Fds :
           ts_sockfd'[q][x] = IF q = p /\ x \in {r, w} THEN None ELSE ts_sockfd[q][x]
  BY <1>4, <1>5, <1>2
<1>8. /\ ts_fileptr' \in [Objs -> Ids \cup {None}]
      /\ \A x \in Objs : ts_fileptr'[x] = IF x = o THEN Fresh(o) ELSE ts_fileptr[x]
  BY <1>2, <1>3, <1>4, <1>5
<1>9. Leaves(t)
  <2>1. \A x \in Files \cup Pipes : x \in Objs
    BY DEF Objs
  <2>2. \A x \in Files : ts_fileptr'[x] = ts_fileptr[x]
    BY <1>3, <1>8, <2>1
  <2>3. \A x \in Pipes : /\ ts_fileptr'[x] \in {ts_fileptr[x], Fresh(x)}
                         /\ call[t].args[1] = x => ts_fileptr'[x] = Fresh(x)
    BY <1>1, <1>8, <2>1
  <2>4. alive' = alive /\ peer' = peer /\ fdt' = fdt /\ know' = know /\ held' = held
    BY <1>4
  <2>. QED
    BY <1>2, <1>4, <1>6, <1>7, <2>2, <2>3, <2>4 DEF Leaves
<1>10. Naming(t)
  BY <1>1, <1>2, <1>3, <1>6, <1>7 DEF Naming, FdEntry, SockEntry
<1>11. MapTypes' /\ LabelTypes' /\ FlowSound'
  BY <1>2, <1>4, <1>6, <1>7, <1>8 DEF Typed, MapTypes, LabelTypes, FlowSound, IdOf, IInv
<1>. QED
  BY <1>9, <1>10, <1>11, Returns

(* dup(2) returns; onto itself it changes nothing.                         *)
LEMMA DupReturns ==
  ASSUME IInv, NEW t \in Tids, DupRet(t)
  PROVE  IInv'
<1>. DEFINE p == Owner[t]
<1>1. PICK old \in Fds, new \in Fds : call[t].args[1] = old /\ call[t].args[2] = new
  BY Found DEF DupRet, Leave, Known
<1>2. /\ p \in Procs /\ Typed /\ Pending(call[t]) = {new} \ {old} /\ call[t] # Idle
      /\ call[t].op = "dup" /\ call[t].fds = {old, new} /\ fdt[p][old] = fdt[p][new]
  BY <1>1, Found DEF DupRet, Leave, NameStands, File, Known, IInv
<1>3. /\ fdt[p][new] \in Objs
      /\ ts_fd[p][old] = FdEntry(fdt[p][new]) /\ ts_sockfd[p][old] = SockEntry(fdt[p][new])
  BY <1>2, Found, LookedUp
<1>4. call' = [call EXCEPT ![t] = Idle] /\ UNCHANGED <<alive, fdt, peer>> /\ UNCHANGED labelVars
  BY DEF DupRet, Leave, osVars
<1>5. \/ new = old /\ CopyRefs(p, old, new, ts_fd, ts_sockfd)
      \/ new # old /\ CopyRefs(p, old, new, te_delete_fd(ts_fd, p, new), te_delete_fd(ts_sockfd, p, new))
  BY <1>1 DEF DupRet
<1>6. Names(p, new)
  BY <1>2, <1>3, <1>5, Copied
<1>7. \/ new \in Pending(call[t])
      \/ /\ ts_fd[p][new] = FdEntry(fdt[p][new]) /\ ts_sockfd[p][new] = SockEntry(fdt[p][new])
  BY <1>2, <1>3
<1>8. know \subseteq know' /\ held \subseteq held' /\ LabelTypes' /\ FlowSound'
  BY <1>4, LabelsStay
<1>. QED
  BY <1>2, <1>3, <1>4, <1>6, <1>7, <1>8, NamingReturns

(* close(2) returns: the descriptor stands for nothing any more.           *)
LEMMA CloseReturns ==
  ASSUME IInv, NEW t \in Tids, CloseRet(t)
  PROVE  IInv'
<1>. DEFINE p == Owner[t]
<1>1. PICK fd \in Fds : call[t].args[1] = fd
  BY Found DEF CloseRet, Leave, Known
<1>2. /\ p \in Procs /\ Typed /\ Pending(call[t]) = {fd} /\ call[t] # Idle /\ call[t].op = "close"
  BY <1>1, Found DEF CloseRet, Leave, Known, IInv
<1>3. /\ call' = [call EXCEPT ![t] = Idle] /\ fdt' = [fdt EXCEPT ![p][fd] = None]
      /\ alive' = alive /\ peer' = peer
      /\ ts_fd' = ts_fd /\ ts_sockfd' = ts_sockfd /\ ts_fileptr' = ts_fileptr /\ UNCHANGED labelVars
  BY <1>1 DEF CloseRet, Leave, refVars
<1>4. fdt \in [Procs -> [Fds -> Objs \cup {None}]]
  BY <1>2 DEF Typed, MapTypes
<1>5. /\ fdt' \in [Procs -> [Fds -> Objs \cup {None}]] /\ fdt'[p][fd] = None
      /\ \A q \in Procs, x \in Fds : q # p \/ x # fd => fdt'[q][x] = fdt[q][x]
  BY <1>2, <1>3, <1>4
<1>6. know \subseteq know' /\ held \subseteq held' /\ LabelTypes' /\ FlowSound'
  BY <1>3, LabelsStay
<1>7. Leaves(t)
  BY <1>2, <1>3, <1>5, <1>6 DEF Leaves
<1>8. Naming(t)
  BY <1>2, <1>5 DEF Naming
<1>9. MapTypes'
  BY <1>2, <1>3, <1>5 DEF Typed, MapTypes
<1>. QED
  BY <1>6, <1>7, <1>8, <1>9, Returns

(* bind(2) or connect(2) with an AF_UNIX address returns.                  *)
LEMMA UnixReturns ==
  ASSUME IInv, NEW t \in Tids, UnixRet(t)
  PROVE  IInv'
<1>. DEFINE p == Owner[t]
<1>1. PICK fd \in Fds, a \in Addrs : call[t].args[1] = fd /\ call[t].args[2] = a
  BY Found DEF UnixRet, Leave, Known
<1>2. /\ p \in Procs /\ Typed /\ Pending(call[t]) = {fd} /\ call[t] # Idle /\ call[t].op = "unix"
      /\ fdt[p][fd] \in Socks /\ peer[fdt[p][fd]] = a
  BY <1>1, Found DEF UnixRet, Leave, NameStands, File, Known, IInv
<1>3. /\ call' = [call EXCEPT ![t] = Idle] /\ te_store_fd_with_current_file(p, fd, PathHash(a))
      /\ UNCHANGED <<alive, fdt, peer>> /\ UNCHANGED labelVars
  BY <1>1 DEF UnixRet, Leave, osVars
<1>4. FdEntry(fdt[p][fd]) = PathHash(a) /\ PathHash(a) \in Ids /\ fdt[p][fd] \in Objs
  BY <1>1, <1>2, IdsKnown, FdAssumption DEF FdEntry, Objs
<1>5. Names(p, fd)
  BY <1>2, <1>3, <1>4, Stored
<1>6. know \subseteq know' /\ held \subseteq held' /\ LabelTypes' /\ FlowSound'
  BY <1>3, LabelsStay
<1>7. fd \in Pending(call[t]) /\ Pending(call[t]) \subseteq {fd}
  BY <1>2
<1>. QED
  BY <1>2, <1>3, <1>4, <1>5, <1>6, <1>7, NamingReturns

(* accept(2) returns: the listener's reference is the new socket's.        *)
LEMMA AcceptReturns ==
  ASSUME IInv, NEW t \in Tids, AcceptRet(t)
  PROVE  IInv'
<1>. DEFINE p == Owner[t]
<1>1. PICK lfd \in Fds, fd \in Fds : call[t].args[1] = lfd /\ call[t].args[2] = fd /\ lfd # fd
  BY Found DEF AcceptRet, Leave, Known
<1>2. /\ p \in Procs /\ Typed /\ Pending(call[t]) = {fd} /\ call[t] # Idle /\ call[t].op = "accept"
      /\ call[t].fds = {lfd, fd}
      /\ fdt[p][lfd] \in Socks /\ fdt[p][fd] \in Socks
      /\ peer[fdt[p][lfd]] \in Addrs /\ peer[fdt[p][fd]] = peer[fdt[p][lfd]]
  BY <1>1, Found DEF AcceptRet, Leave, NameStands, File, Known, IInv
<1>3. /\ call' = [call EXCEPT ![t] = Idle] /\ CopyRefs(p, lfd, fd, ts_fd, ts_sockfd)
      /\ UNCHANGED <<alive, fdt, peer>> /\ UNCHANGED labelVars
  BY <1>1 DEF AcceptRet, Leave, osVars
<1>4. /\ FdEntry(fdt[p][lfd]) = PathHash(peer[fdt[p][lfd]])
      /\ FdEntry(fdt[p][fd]) = PathHash(peer[fdt[p][lfd]])
      /\ SockEntry(fdt[p][lfd]) = None /\ SockEntry(fdt[p][fd]) = None
      /\ PathHash(peer[fdt[p][lfd]]) # None /\ fdt[p][fd] \in Objs
  BY <1>2, IdsKnown, FdAssumption DEF FdEntry, SockEntry, Objs
<1>5. ts_fd[p][lfd] = FdEntry(fdt[p][lfd]) /\ ts_sockfd[p][lfd] = SockEntry(fdt[p][lfd])
  BY <1>1, <1>2, LookedUp
<1>6. Names(p, fd)
  BY <1>2, <1>3, <1>4, <1>5, Copied
<1>7. know \subseteq know' /\ held \subseteq held' /\ LabelTypes' /\ FlowSound'
  BY <1>3, LabelsStay
<1>8. fd \in Pending(call[t]) /\ Pending(call[t]) \subseteq {fd}
  BY <1>2
<1>. QED
  BY <1>2, <1>3, <1>4, <1>6, <1>7, <1>8, NamingReturns

(* connect(2) with an IPv4 address returns: only the peer is stored.       *)
LEMMA ConnectReturns ==
  ASSUME IInv, NEW t \in Tids, ConnectRet(t)
  PROVE  IInv'
<1>. DEFINE p == Owner[t]
<1>1. PICK fd \in Fds, e \in Endps : call[t].args[1] = fd /\ call[t].args[2] = e
  BY Found DEF ConnectRet, Leave, Known
<1>2. /\ p \in Procs /\ Typed /\ Pending(call[t]) = {fd} /\ call[t] # Idle /\ call[t].op = "connect"
      /\ fdt[p][fd] \in Socks /\ peer[fdt[p][fd]] = e /\ ts_fd[p][fd] = None
  BY <1>1, Found DEF ConnectRet, Leave, NameStands, File, Known, IInv
<1>3. /\ call' = [call EXCEPT ![t] = Idle] /\ ts_sockfd' = [ts_sockfd EXCEPT ![p][fd] = e]
      /\ ts_fd' = ts_fd /\ ts_fileptr' = ts_fileptr
      /\ UNCHANGED <<alive, fdt, peer>> /\ UNCHANGED labelVars
  BY <1>1 DEF ConnectRet, Leave, osVars
<1>4. FdEntry(fdt[p][fd]) = None /\ SockEntry(fdt[p][fd]) = e /\ fdt[p][fd] \in Objs
  BY <1>1, <1>2, FdAssumption DEF FdEntry, SockEntry, Objs
<1>5. /\ ts_sockfd \in [Procs -> [Fds -> Endps \cup {None}]]
      /\ ts_fd \in [Procs -> [Fds -> Ids \cup {None}]] /\ ts_fileptr \in [Objs -> Ids \cup {None}]
  BY <1>2 DEF Typed, MapTypes
<1>6. Names(p, fd)
  <2>1. /\ ts_sockfd' \in [Procs -> [Fds -> Endps \cup {None}]] /\ ts_sockfd'[p][fd] = e
        /\ \A q \in Procs, x \in Fds : q # p \/ x # fd => ts_sockfd'[q][x] = ts_sockfd[q][x]
    BY <1>2, <1>3, <1>5
  <2>. QED
    BY <1>2, <1>3, <1>4, <1>5, <2>1 DEF Names
<1>7. know \subseteq know' /\ held \subseteq held' /\ LabelTypes' /\ FlowSound'
  BY <1>3, LabelsStay
<1>8. fd \in Pending(call[t]) /\ Pending(call[t]) \subseteq {fd}
  BY <1>2
<1>. QED
  BY <1>2, <1>3, <1>4, <1>6, <1>7, <1>8, NamingReturns

----------------------------------------------------------------------------
(* A call that only moved data returns.                                    *)
LEMMA DataReturns ==
  ASSUME IInv, NEW t \in Tids, call[t].op \in Moves, call' = [call EXCEPT ![t] = Idle],
         UNCHANGED osVars, UNCHANGED refVars,
         know \subseteq know', held \subseteq held', LabelTypes', FlowSound'
  PROVE  IInv'
<1>1. /\ alive' = alive /\ fdt' = fdt /\ peer' = peer
      /\ ts_fd' = ts_fd /\ ts_sockfd' = ts_sockfd /\ ts_fileptr' = ts_fileptr
  BY DEF osVars, refVars
<1>2. Pending(call[t]) = {} /\ call[t] # Idle /\ call[t].op # "pipe"
  BY Found DEF Known, Moves
<1>3. Leaves(t)
  BY <1>1, <1>2 DEF Leaves
<1>4. Naming(t)
  BY <1>2 DEF Naming
<1>5. MapTypes'
  BY <1>1 DEF IInv, Typed, MapTypes
<1>. QED
  BY <1>3, <1>4, <1>5, Returns

(* What is held has its label under an id that is one.                     *)
LEMMA HeldLabel ==
  ASSUME IInv, NEW ch \in held
  PROVE  /\ ch \in Endps => ch \in ts_endp /\ ch # None
         /\ ch \notin Endps => IdOf(ch) \in ts_file /\ IdOf(ch) # None
BY IdsKnown, FdAssumption DEF IInv, FlowSound, Typed, LabelTypes

(* A descriptor that reads from what is held finds the label there.        *)
LEMMA ReadFindsLabel ==
  ASSUME IInv, NEW t \in Tids, call[t].op # "none", NEW fd \in call[t].fds, fd \notin Pending(call[t]),
         ChannelOf(Owner[t], fd) \in held, ChannelOf(Owner[t], fd) # None
  PROVE  /\ ChannelOf(Owner[t], fd) \in Endps => Ref(ts_sockfd, Owner[t], fd) \cap ts_endp # {}
         /\ ChannelOf(Owner[t], fd) \notin Endps => Ref(ts_fd, Owner[t], fd) \cap ts_file # {}
BY LookedUp, HeldLabel DEF Ref

(* References are ids, peers are endpoints.                                *)
LEMMA RefTypes ==
  ASSUME Typed, NEW p \in Procs, NEW fd \in Fds
  PROVE  Ref(ts_fd, p, fd) \subseteq Ids /\ Ref(ts_sockfd, p, fd) \subseteq Endps
BY DEF Ref, Typed, MapTypes

(* read(2) returns.                                                        *)
LEMMA ReadReturns ==
  ASSUME IInv, NEW t \in Tids, ReadRet(t)
  PROVE  IInv'
<1>. DEFINE p == Owner[t]
<1>1. PICK fd \in Fds : call[t].args[1] = fd
  BY Found DEF ReadRet, Leave, Known
<1>2. /\ p \in Procs /\ Typed /\ Pending(call[t]) = {} /\ call[t].op = "read" /\ call[t].fds = {fd}
      /\ ChannelOf(p, fd) # None /\ (call[t].carries => ChannelOf(p, fd) \in held)
  BY <1>1, Found DEF ReadRet, Leave, DataStands, Known, Moves, IInv
<1>. DEFINE recv == Ref(ts_sockfd, p, fd) \cap ts_endp # {}
            read == Ref(ts_fd, p, fd) \cap ts_file # {}
<1>3. /\ call' = [call EXCEPT ![t] = Idle] /\ UNCHANGED osVars /\ UNCHANGED refVars
      /\ ts_proc' = (IF read THEN ts_proc \cup {p} ELSE ts_proc) \cup (IF recv THEN {p} ELSE {})
      /\ know' = (IF call[t].carries THEN know \cup {p} ELSE know)
      /\ ts_file' = ts_file /\ ts_endp' = ts_endp /\ held' = held
  BY <1>1 DEF ReadRet, Leave, te_read, Claim
<1>4. call[t].carries => read \/ recv
  BY <1>2, ReadFindsLabel
<1>5. LabelTypes'
  BY <1>2, <1>3 DEF Typed, LabelTypes
<1>6. FlowSound'
  BY <1>3, <1>4 DEF IInv, FlowSound, IdOf
<1>7. know \subseteq know' /\ held \subseteq held' /\ call[t].op \in Moves
  BY <1>2, <1>3 DEF Moves
<1>. QED
  BY <1>3, <1>5, <1>6, <1>7, DataReturns

(* write(2) returns.                                                       *)
LEMMA WriteReturns ==
  ASSUME IInv, NEW t \in Tids, WriteRet(t)
  PROVE  IInv'
<1>. DEFINE p == Owner[t]
<1>1. PICK fd \in Fds, ch \in Channels : call[t].args[1] = fd /\ call[t].args[2] = ch
  BY Found DEF WriteRet, Leave, Known
<1>2. /\ p \in Procs /\ Typed /\ Pending(call[t]) = {} /\ call[t].op = "write" /\ call[t].fds = {fd}
      /\ ChannelOf(p, fd) = ch /\ (call[t].carries => p \in ts_proc)
  BY <1>1, Found DEF WriteRet, Leave, DataStands, Known, Moves, IInv, FlowSound
<1>3. /\ call' = [call EXCEPT ![t] = Idle] /\ UNCHANGED osVars /\ UNCHANGED refVars
      /\ ts_file' = (IF p \in ts_proc THEN ts_file \cup Ref(ts_fd, p, fd) ELSE ts_file)
      /\ ts_endp' = (IF p \in ts_proc THEN ts_endp \cup Ref(ts_sockfd, p, fd) ELSE ts_endp)
      /\ held' = (IF call[t].carries THEN held \cup {ch} ELSE held)
      /\ ts_proc' = ts_proc /\ know' = know
  BY <1>1 DEF WriteRet, Leave, te_write_flow, te_connect_flow, Claim
<1>4. call[t].carries => IF ch \in Endps THEN ch \in ts_endp' ELSE IdOf(ch) \in ts_file'
  <2>1. ch # None /\ (IF ch \in Endps THEN ts_sockfd[p][fd] = ch ELSE ts_fd[p][fd] = IdOf(ch))
    BY <1>2, LookedUp, FdAssumption DEF Channels
  <2>2. ch \notin Endps => IdOf(ch) \in Ids
    BY IdsKnown DEF IdOf, Channels, Objs
  <2>. QED
    BY <1>2, <1>3, <2>1, <2>2, IdsKnown DEF Ref
<1>5. LabelTypes'
  BY <1>2, <1>3, RefTypes DEF Typed, LabelTypes
<1>6. FlowSound'
  BY <1>3, <1>4 DEF IInv, FlowSound, IdOf
<1>7. know \subseteq know' /\ held \subseteq held' /\ call[t].op \in Moves
  BY <1>2, <1>3 DEF Moves
<1>. QED
  BY <1>3, <1>5, <1>6, <1>7, DataReturns

(* sendto(2) returns: without a stored peer the address names the channel. *)
LEMMA SendtoReturns ==
  ASSUME IInv, NEW t \in Tids, SendtoRet(t)
  PROVE  IInv'
<1>. DEFINE p == Owner[t]
<1>1. PICK fd \in Fds, dst \in Addrs \cup Endps : call[t].args[1] = fd /\ call[t].args[2] = dst
  BY Found DEF SendtoRet, Leave, Known
<1>2. /\ p \in Procs /\ Typed /\ Pending(call[t]) = {} /\ call[t].op = "sendto" /\ call[t].fds = {fd}
      /\ fdt[p][fd] \in Socks /\ peer[fdt[p][fd]] \notin Endps /\ (call[t].carries => p \in ts_proc)
  BY <1>1, Found DEF SendtoRet, Leave, DataStands, File, Known, Moves, IInv, FlowSound
<1>. DEFINE ids == IF dst \in Addrs THEN {PathHash(dst)} ELSE {}
<1>3. Ref(ts_sockfd, p, fd) = {}
  BY <1>2, LookedUp DEF SockEntry, Ref
<1>4. /\ call' = [call EXCEPT ![t] = Idle] /\ UNCHANGED osVars /\ UNCHANGED refVars
      /\ ts_file' = (IF p \in ts_proc THEN ts_file \cup (Ref(ts_fd, p, fd) \cup ids) ELSE ts_file)
      /\ ts_endp' = (IF p \in ts_proc THEN ts_endp \cup ({dst} \cap Endps) ELSE ts_endp)
      /\ held' = (IF call[t].carries THEN held \cup {dst} ELSE held)
      /\ ts_proc' = ts_proc /\ know' = know
  BY <1>1, <1>3 DEF SendtoRet, Leave, te_write_flow, te_connect_flow, Claim
<1>5. call[t].carries => IF dst \in Endps THEN dst \in ts_endp' ELSE IdOf(dst) \in ts_file'
  BY <1>2, <1>4 DEF IdOf
<1>6. LabelTypes'
  <2>1. ids \subseteq Ids /\ dst \in Channels
    BY IdsKnown DEF Channels
  <2>2. Ref(ts_fd, p, fd) \subseteq Ids
    BY <1>2, RefTypes
  <2>. HIDE DEF ids
  <2>. QED
    BY <1>2, <1>4, <2>1, <2>2 DEF Typed, LabelTypes
<1>7. FlowSound'
  BY <1>4, <1>5 DEF IInv, FlowSound, IdOf
<1>8. know \subseteq know' /\ held \subseteq held' /\ call[t].op \in Moves
  BY <1>2, <1>4 DEF Moves
<1>. QED
  BY <1>4, <1>6, <1>7, <1>8, DataReturns

(* recvfrom(2) returns: without a stored peer the sender's address counts. *)
LEMMA RecvfromReturns ==
  ASSUME IInv, NEW t \in Tids, RecvfromRet(t)
  PROVE  IInv'
<1>. DEFINE p == Owner[t]
<1>1. PICK fd \in Fds, e \in Endps : call[t].args[1] = fd /\ call[t].args[2] = e
  BY Found DEF RecvfromRet, Leave, Known
<1>2. /\ p \in Procs /\ Typed /\ Pending(call[t]) = {} /\ call[t].op = "recvfrom" /\ call[t].fds = {fd}
      /\ fdt[p][fd] \in Socks /\ peer[fdt[p][fd]] = None /\ (call[t].carries => e \in ts_endp)
  BY <1>1, Found DEF RecvfromRet, Leave, DataStands, File, Known, Moves, IInv, FlowSound
<1>3. Ref(ts_sockfd, p, fd) = {}
  BY <1>2, LookedUp, FdAssumption DEF SockEntry, Ref
<1>. DEFINE recv == {e} \cap ts_endp # {}
            read == Ref(ts_fd, p, fd) \cap ts_file # {}
<1>4. /\ call' = [call EXCEPT ![t] = Idle] /\ UNCHANGED osVars /\ UNCHANGED refVars
      /\ ts_proc' = (IF read THEN ts_proc \cup {p} ELSE ts_proc) \cup (IF recv THEN {p} ELSE {})
      /\ know' = (IF call[t].carries THEN know \cup {p} ELSE know)
      /\ ts_file' = ts_file /\ ts_endp' = ts_endp /\ held' = held
  BY <1>1, <1>3 DEF RecvfromRet, Leave, te_read, Claim
<1>5. LabelTypes'
  BY <1>2, <1>4 DEF Typed, LabelTypes
<1>6. FlowSound'
  BY <1>2, <1>4 DEF IInv, FlowSound, IdOf
<1>7. know \subseteq know' /\ held \subseteq held' /\ call[t].op \in Moves
  BY <1>2, <1>4 DEF Moves
<1>. QED
  BY <1>4, <1>5, <1>6, <1>7, DataReturns

(* sendfile(2), copy_file_range(2) or splice(2) returns: what is read goes *)
(* into what is written.                                                   *)
LEMMA CopyingReturns ==
  ASSUME IInv, NEW t \in Tids, CopyRet(t)
  PROVE  IInv'
<1>. DEFINE p == Owner[t]
<1>1. PICK in \in Fds, out \in Fds, ch \in Channels :
        call[t].args[1] = in /\ call[t].args[2] = out /\ call[t].args[3] = ch
  BY Found DEF CopyRet, Leave, Known
<1>2. /\ p \in Procs /\ Typed /\ Pending(call[t]) = {} /\ call[t].op = "copy" /\ call[t].fds = {in, out}
      /\ ChannelOf(p, out) = ch
      /\ call[t].carries => /\ ChannelOf(p, in) \in held /\ ChannelOf(p, in) \notin Endps
                            /\ ch \notin Endps
  BY <1>1, Found DEF CopyRet, Leave, DataStands, Known, Moves, IInv
<1>. DEFINE from == Ref(ts_fd, p, in)
            to == Ref(ts_fd, p, out)
            tainted == p \in ts_proc \/ from \cap ts_file # {}
<1>3. /\ call' = [call EXCEPT ![t] = Idle] /\ UNCHANGED osVars /\ UNCHANGED refVars
      /\ ts_proc' = (IF from \cap ts_file # {} THEN ts_proc \cup {p} ELSE ts_proc)
      /\ ts_file' = (IF from # {} /\ tainted THEN ts_file \cup to ELSE ts_file)
      /\ held' = (IF call[t].carries THEN held \cup {ch} ELSE held)
      /\ ts_endp' = ts_endp /\ know' = know
  BY <1>1 DEF CopyRet, Leave, te_read, te_write_flow, Claim
<1>4. call[t].carries => IdOf(ch) \in ts_file'
  <2>. SUFFICES ASSUME call[t].carries PROVE IdOf(ch) \in ts_file'
    OBVIOUS
  <2>1. from \cap ts_file # {}
    <3>1. ChannelOf(p, in) # None
      BY <1>2, FdAssumption DEF Typed, LabelTypes, Channels
    <3>. QED
      BY <1>2, <3>1, ReadFindsLabel
  <2>2. ch # None /\ ts_fd[p][out] = IdOf(ch)
    BY <1>2, LookedUp, FdAssumption DEF Channels
  <2>3. IdOf(ch) \in Ids
    BY <1>2, IdsKnown DEF IdOf, Channels, Objs
  <2>4. IdOf(ch) \in to
    BY <2>2, <2>3, IdsKnown DEF Ref
  <2>. HIDE DEF from, to
  <2>. QED
    BY <1>3, <2>1, <2>4
<1>5. LabelTypes'
  <2>1. to \subseteq Ids
    BY <1>2, RefTypes
  <2>. HIDE DEF from, to
  <2>. QED
    BY <1>2, <1>3, <2>1 DEF Typed, LabelTypes
<1>6. FlowSound'
  <2>. HIDE DEF from, to
  <2>. QED
    BY <1>2, <1>3, <1>4 DEF IInv, FlowSound, IdOf
<1>7. know \subseteq know' /\ held \subseteq held' /\ call[t].op \in Moves
  BY <1>2, <1>3 DEF Moves
<1>. QED
  BY <1>3, <1>5, <1>6, <1>7, DataReturns

(* recvmsg(2) returns: the passed file is known by what it was stored as,  *)
(* which is right, for no pipe call that is still to store it can share    *)
(* it.                                                                     *)
LEMMA RecvmsgReturns ==
  ASSUME IInv, NEW t \in Tids, RecvmsgRet(t)
  PROVE  IInv'
<1>. DEFINE p == Owner[t]
<1>1. PICK fd \in Fds, new \in Fds : call[t].args[1] = fd /\ call[t].args[2] = new /\ fd # new
  BY Found DEF RecvmsgRet, Leave, Known
<1>2. /\ p \in Procs /\ Typed /\ Pending(call[t]) = {new} /\ call[t].op = "recvmsg" /\ call[t] # Idle
      /\ call[t].fds = {fd, new} /\ ChannelOf(p, fd) \in Addrs /\ fdt[p][new] \in Files \cup Pipes
      /\ call[t].carries => ChannelOf(p, fd) \in held
  BY <1>1, Found DEF RecvmsgRet, Leave, DataStands, File, Known, IInv
<1>3. PICK o \in Files \cup Pipes : fdt[p][new] = o
  BY <1>2
<1>4. o \in Objs /\ o # None /\ FdEntry(o) \in Ids
  BY IdsKnown, FdAssumption DEF FdEntry, Objs
<1>5. (IF ts_fileptr[o] = None THEN Inode(o) ELSE ts_fileptr[o]) = FdEntry(o)
  <2>1. CASE o \in Files
    BY <2>1 DEF FdEntry, IInv, FilesKnown
  <2>2. CASE o \in Pipes
    <3>1. ASSUME NEW u \in Tids, call[u].op = "pipe", call[u].args[1] = o
          PROVE  FALSE
      <4>1. /\ Known(call[u]) /\ File(u, call[u].args[2]) = o /\ Only(u, call[u].fds)
            /\ call[u].args[2] \in call[u].fds
        BY <3>1, Found DEF NameStands, Known
      <4>2. p = Owner[u] /\ new \in call[u].fds
        BY <1>2, <1>3, <4>1 DEF Only
      <4>3. u \in Siblings(t)
        BY <1>2, <3>1, <4>2 DEF Siblings
      <4>. QED
        BY <1>2, <3>1, <4>2, <4>3 DEF IInv, Calls, Disjoint, Moves
    <3>2. ts_fileptr[o] = Fresh(o)
      BY <1>2, <1>3, <2>2, <3>1 DEF IInv, FilesKnown
    <3>. QED
      BY <2>2, <3>2, IdsKnown, FdAssumption DEF FdEntry
  <2>. QED
    BY <2>1, <2>2
<1>6. /\ call' = [call EXCEPT ![t] = Idle] /\ te_store_fd_with_current_file(p, new, FdEntry(fdt[p][new]))
      /\ UNCHANGED <<alive, fdt, peer>> /\ ts_file' = ts_file /\ ts_endp' = ts_endp /\ held' = held
  BY <1>1, <1>3, <1>4, <1>5 DEF RecvmsgRet, Leave, osVars
<1>. DEFINE read == Ref(ts_fd, p, fd) \cap ts_file # {}
<1>7. /\ ts_proc' = (IF read THEN ts_proc \cup {p} ELSE ts_proc)
      /\ know' = (IF call[t].carries THEN know \cup {p} ELSE know)
  BY <1>1 DEF RecvmsgRet, te_read, Claim
<1>8. call[t].carries => read
  <2>1. ChannelOf(p, fd) # None /\ ChannelOf(p, fd) \notin Endps
    BY <1>2, FdAssumption
  <2>. QED
    BY <1>1, <1>2, <2>1, ReadFindsLabel
<1>9. Names(p, new)
  BY <1>2, <1>3, <1>4, <1>6, Stored
<1>10. LabelTypes'
  BY <1>2, <1>6, <1>7 DEF Typed, LabelTypes
<1>11. FlowSound'
  BY <1>6, <1>7, <1>8 DEF IInv, FlowSound, IdOf
<1>12. /\ know \subseteq know' /\ held \subseteq held' /\ fdt[p][new] \in Objs
       /\ new \in Pending(call[t]) /\ Pending(call[t]) \subseteq {new}
  BY <1>2, <1>3, <1>4, <1>6, <1>7
<1>. QED
  BY <1>2, <1>6, <1>9, <1>10, <1>11, <1>12, NamingReturns

----------------------------------------------------------------------------
(* Steps that leave every call where it is.                                *)
LEMMA Quiet ==
  ASSUME IInv, call' = call, MapTypes', LabelTypes', Dead', EntriesTrue', FilesKnown', FlowSound',
         \A u \in Tids : Stands(u)'
  PROVE  IInv'
BY DEF IInv, Typed, CallTypes, Calls, Disjoint

(* A thread in no call relies on nothing.                                  *)
LEMMA IdleStands ==
  ASSUME NEW u \in Tids, call' = call, call[u] = Idle
  PROVE  Stands(u)'
<1>1. call'[u].op = "none" /\ call'[u].fds = {}
  BY DEF Idle
<1>. QED
  BY <1>1 DEF Stands, NameStands, DataStands

(* socket(2): the new descriptor has no entry, and needs none.             *)
LEMMA SocketKeeps ==
  ASSUME Gaps = {}, IInv, NEW t \in Tids, NEW k \in Socks, Socket(t, k)
  PROVE  IInv'
<1>. DEFINE p == Owner[t]
<1>1. PICK fd \in Fds : fd = Lowest(FreeFds(p)) /\ fdt[p][fd] = None
  BY FreeLowest, FdAssumption DEF Socket
<1>2. /\ p \in alive /\ Unused(k) /\ ts_fd[p][fd] = None /\ ts_sockfd[p][fd] = None
      /\ fdt' = [fdt EXCEPT ![p][fd] = k] /\ peer' = [peer EXCEPT ![k] = None]
      /\ ts_fileptr' = [ts_fileptr EXCEPT ![k] = None]
      /\ alive' = alive /\ call' = call /\ ts_fd' = ts_fd /\ ts_sockfd' = ts_sockfd /\ UNCHANGED labelVars
  BY <1>1 DEF Socket, NoLeftover
<1>3. /\ Typed /\ fdt \in [Procs -> [Fds -> Objs \cup {None}]] /\ p \in Procs
      /\ peer \in [Socks -> Addrs \cup Endps \cup {None}] /\ ts_fileptr \in [Objs -> Ids \cup {None}]
      /\ k \in Objs /\ k \notin Files \cup Pipes
  BY FdAssumption DEF IInv, Typed, MapTypes, Objs
<1>4. /\ fdt' \in [Procs -> [Fds -> Objs \cup {None}]] /\ fdt'[p][fd] = k
      /\ \A q \in Procs, x \in Fds : q # p \/ x # fd => fdt'[q][x] = fdt[q][x]
      /\ \A q \in Procs, x \in Fds : fdt[q][x] # k
  BY <1>2, <1>3 DEF Unused
<1>5. /\ peer' \in [Socks -> Addrs \cup Endps \cup {None}]
      /\ peer'[k] = None /\ \A x \in Socks \ {k} : peer'[x] = peer[x]
  BY <1>2, <1>3
<1>6. /\ ts_fileptr' \in [Objs -> Ids \cup {None}]
      /\ \A x \in Files \cup Pipes : ts_fileptr'[x] = ts_fileptr[x]
  BY <1>2, <1>3 DEF Objs
<1>7. MapTypes'
  BY <1>2, <1>3, <1>4, <1>5, <1>6 DEF Typed, MapTypes
<1>8. know \subseteq know' /\ held \subseteq held' /\ LabelTypes' /\ FlowSound'
  BY <1>2, LabelsStay
<1>9. Dead'
  <2>1. \A q \in Procs \ alive : fdt'[q] = fdt[q]
    BY <1>2, <1>3
  <2>. QED
    BY <1>2, <2>1 DEF IInv, Calls, Dead
<1>10. ASSUME NEW u \in Tids PROVE Stands(u)'
  <2>1. /\ Stands(u) /\ Known(call[u]) /\ Owner[u] \in Procs
        /\ \A x \in call[u].fds : x \in Fds /\ File(u, x) # None /\ File(u, x) = fdt[Owner[u]][x]
    BY ThreadKnown DEF IInv, Calls, Stands, File
  <2>2. \A x \in call[u].fds : File(u, x)' = File(u, x)
    BY <1>1, <1>4, <2>1 DEF File
  <2>3. \A x \in call[u].fds : File(u, x) \in Socks => peer'[File(u, x)] = peer[File(u, x)]
    BY <1>4, <1>5, <2>1
  <2>4. \A q \in Procs, x \in Fds : \/ fdt'[q][x] \in {fdt[q][x], None}
                                    \/ \A y \in call[u].fds : fdt'[q][x] # File(u, y)
    BY <1>4, <2>1
  <2>. QED
    BY <1>2, <1>3, <1>8, <2>1, <2>2, <2>3, <2>4, StandsKept
<1>11. EntriesTrue'
  <2>. SUFFICES ASSUME NEW q \in alive', NEW x \in Fds, fdt'[q][x] # None, Settled(q, x)'
                PROVE  /\ ts_fd'[q][x] = FdEntry(fdt[q][x])'
                       /\ ts_sockfd'[q][x] = SockEntry(fdt[q][x])'
    BY DEF EntriesTrue
  <2>1. q \in alive /\ q \in Procs /\ Settled(q, x)
    BY <1>2, <1>3 DEF Typed, MapTypes, Settled
  <2>2. CASE q = p /\ x = fd
    BY <1>2, <1>3, <1>4, <1>5, <2>2, FdAssumption DEF FdEntry, SockEntry
  <2>3. CASE q # p \/ x # fd
    <3>1. fdt'[q][x] = fdt[q][x] /\ fdt[q][x] # k /\ fdt[q][x] \in Objs
      BY <1>3, <1>4, <2>1, <2>3
    <3>2. FdEntry(fdt[q][x])' = FdEntry(fdt[q][x]) /\ SockEntry(fdt[q][x])' = SockEntry(fdt[q][x])
      BY <1>5, <3>1 DEF FdEntry, SockEntry, Objs
    <3>. QED
      BY <1>2, <2>1, <3>1, <3>2 DEF IInv, EntriesTrue
  <2>. QED
    BY <2>2, <2>3
<1>12. FilesKnown'
  <2>1. \A o \in Pipes, q \in Procs, x \in Fds : fdt'[q][x] = o => fdt[q][x] = o
    BY <1>3, <1>4
  <2>. QED
    BY <1>2, <1>6, <2>1 DEF IInv, FilesKnown
<1>. QED
  BY <1>2, <1>7, <1>8, <1>9, <1>10, <1>11, <1>12, Quiet

(* fork(2): nobody is in a call on the parent's descriptors, and what the  *)
(* child has left of an earlier process is overwritten or not there.       *)
LEMMA ForkKeeps ==
  ASSUME Gaps = {}, IInv, NEW t \in Tids, NEW c \in Procs, Fork(t, c)
  PROVE  IInv'
<1>. DEFINE p == Owner[t]
<1>1. /\ p \in alive /\ call[t] = Idle /\ c \notin alive /\ p # c
      /\ alive' = alive \cup {c} /\ fdt' = [fdt EXCEPT ![c] = fdt[p]]
      /\ ts_proc' = (IF p \in ts_proc THEN ts_proc \cup {c} ELSE ts_proc)
      /\ know' = (IF p \in know THEN know \cup {c} ELSE know)
      /\ peer' = peer /\ call' = call /\ ts_fileptr' = ts_fileptr
      /\ ts_file' = ts_file /\ ts_endp' = ts_endp /\ held' = held
  BY DEF Fork
<1>2. /\ Typed /\ fdt \in [Procs -> [Fds -> Objs \cup {None}]] /\ p \in Procs
      /\ ts_fd \in [Procs -> [Fds -> Ids \cup {None}]]
      /\ ts_sockfd \in [Procs -> [Fds -> Endps \cup {None}]]
  BY FdAssumption DEF IInv, Typed, MapTypes
<1>3. \A u \in Tids : Owner[u] \in {p, c} => call[u] = Idle
  <2>1. ASSUME NEW u \in Siblings(t) PROVE call[u] = Idle
    <3>1. call[u].fds \cap Fds = {} /\ Known(call[u])
      <4>1. call[u].fds \cap Fds = {}
        BY DEF Fork, Apart, Moves
      <4>2. u \in Tids
        BY DEF Siblings
      <4>. QED
        BY <1>2, <4>1, <4>2, ThreadKnown
    <3>2. call[u].fds = {}
      BY <3>1 DEF Known
    <3>. QED
      BY <3>1, <3>2 DEF Known, Moves
  <2>2. \A u \in Tids : Owner[u] = c => call[u] = Idle
    BY <1>1 DEF IInv, Calls, Dead
  <2>. QED
    BY <1>1, <2>1, <2>2 DEF Siblings
<1>4. /\ fdt' \in [Procs -> [Fds -> Objs \cup {None}]] /\ fdt'[c] = fdt[p]
      /\ \A q \in Procs \ {c} : fdt'[q] = fdt[q]
  BY <1>1, <1>2
<1>5. /\ ts_fd' = [ts_fd EXCEPT ![c] =
           [fd \in Fds |-> IF ts_fd[p][fd] = None THEN @[fd] ELSE ts_fd[p][fd]]]
      /\ ts_sockfd' = [ts_sockfd EXCEPT ![c] =
           [fd \in Fds |-> IF ts_sockfd[p][fd] # None THEN ts_sockfd[p][fd]
                           ELSE IF ts_fd[p][fd] # None THEN None ELSE @[fd]]]
      /\ \A fd \in Fds : fdt[p][fd] # None /\ ts_fd[p][fd] = None =>
           ts_fd[c][fd] = None /\ ts_sockfd[c][fd] = None
  BY DEF Fork, NoLeftover, FreeFds
<1>6. /\ ts_fd' \in [Procs -> [Fds -> Ids \cup {None}]] /\ \A q \in Procs \ {c} : ts_fd'[q] = ts_fd[q]
      /\ \A fd \in Fds : ts_fd'[c][fd] = IF ts_fd[p][fd] = None THEN ts_fd[c][fd] ELSE ts_fd[p][fd]
  BY <1>2, <1>5
<1>7. /\ ts_sockfd' \in [Procs -> [Fds -> Endps \cup {None}]]
      /\ \A q \in Procs \ {c} : ts_sockfd'[q] = ts_sockfd[q]
      /\ \A fd \in Fds : ts_sockfd'[c][fd] = IF ts_sockfd[p][fd] # None THEN ts_sockfd[p][fd]
                                             ELSE IF ts_fd[p][fd] # None THEN None ELSE ts_sockfd[c][fd]
  BY <1>2, <1>5
<1>8. MapTypes' /\ LabelTypes'
  BY <1>1, <1>2, <1>4, <1>6, <1>7 DEF Typed, MapTypes, LabelTypes
<1>9. FlowSound'
  BY <1>1 DEF IInv, FlowSound, IdOf
<1>10. Dead'
  BY <1>1, <1>4 DEF IInv, Calls, Dead
<1>11. ASSUME NEW u \in Tids PROVE Stands(u)'
  <2>1. CASE call[u] = Idle
    BY <1>1, <2>1, IdleStands
  <2>2. CASE call[u] # Idle
    <3>1. /\ Stands(u) /\ Known(call[u]) /\ Owner[u] \in Procs \ {p, c}
          /\ \A x \in call[u].fds : x \in Fds /\ File(u, x) = fdt[Owner[u]][x]
      BY <1>2, <1>3, <2>2, ThreadKnown DEF IInv, Calls, File
    <3>2. \A x \in call[u].fds : File(u, x)' = File(u, x)
      BY <1>4, <3>1 DEF File
    <3>3. call[u].op \in {"pipe", "unix", "connect"} =>
            \A q \in Procs, x \in Fds : \/ fdt'[q][x] \in {fdt[q][x], None}
                                        \/ \A y \in call[u].fds : fdt'[q][x] # File(u, y)
      <4>. SUFFICES ASSUME call[u].op \in {"pipe", "unix", "connect"}, NEW x \in Fds, NEW y \in call[u].fds
                    PROVE  fdt[p][x] # File(u, y)
        BY <1>4
      <4>. QED
        BY <1>2, <3>1, Exclusive DEF Only
    <3>4. \A x \in call[u].fds : ts_fd'[Owner[u]][x] = ts_fd[Owner[u]][x]
      BY <1>6, <3>1
    <3>5. Owner[u] \in know => Owner[u] \in know'
      BY <1>1
    <3>. QED
      BY <1>1, <1>2, <3>1, <3>2, <3>3, <3>4, <3>5, StandsKept
  <2>. QED
    BY <2>1, <2>2
<1>12. EntriesTrue'
  <2>. SUFFICES ASSUME NEW q \in alive', NEW x \in Fds, fdt'[q][x] # None, Settled(q, x)'
                PROVE  /\ ts_fd'[q][x] = FdEntry(fdt[q][x])'
                       /\ ts_sockfd'[q][x] = SockEntry(fdt[q][x])'
    BY DEF EntriesTrue
  <2>1. q \in Procs /\ Settled(q, x)
    BY <1>1, <1>2 DEF Typed, MapTypes, Settled
  <2>2. CASE q = c
    <3>1. Settled(p, x)
      <4>1. Known(Idle)
        BY ShapesKnown
      <4>. QED
        BY <1>3, <4>1 DEF Settled, Known
    <3>2. fdt[p][x] # None /\ ts_fd[p][x] = FdEntry(fdt[p][x]) /\ ts_sockfd[p][x] = SockEntry(fdt[p][x])
      BY <1>1, <1>4, <2>2, <3>1 DEF IInv, EntriesTrue
    <3>3. ts_fd'[c][x] = FdEntry(fdt[p][x])
      BY <1>5, <1>6, <3>2
    <3>4. ts_sockfd'[c][x] = SockEntry(fdt[p][x])
      <4>1. FdEntry(fdt[p][x]) # None => SockEntry(fdt[p][x]) = None
        BY FdAssumption DEF FdEntry, SockEntry
      <4>. QED
        BY <1>5, <1>7, <3>2, <4>1
    <3>5. /\ FdEntry(fdt[q][x])' = FdEntry(fdt[p][x])
          /\ SockEntry(fdt[q][x])' = SockEntry(fdt[p][x])
      BY <1>1, <1>4, <2>2 DEF FdEntry, SockEntry
    <3>. QED
      BY <2>2, <3>3, <3>4, <3>5
  <2>3. CASE q # c
    <3>1. /\ q \in alive /\ fdt'[q][x] = fdt[q][x]
          /\ ts_fd'[q][x] = ts_fd[q][x] /\ ts_sockfd'[q][x] = ts_sockfd[q][x]
      BY <1>1, <1>4, <1>6, <1>7, <2>1, <2>3
    <3>2. FdEntry(fdt[q][x])' = FdEntry(fdt[q][x]) /\ SockEntry(fdt[q][x])' = SockEntry(fdt[q][x])
      BY <1>1, <3>1 DEF FdEntry, SockEntry
    <3>. QED
      BY <2>1, <3>1, <3>2 DEF IInv, EntriesTrue
  <2>. QED
    BY <2>2, <2>3
<1>13. FilesKnown'
  <2>1. \A o \in Pipes, q \in Procs, x \in Fds : fdt'[q][x] = o => \E r \in Procs : fdt[r][x] = o
    BY <1>2, <1>4
  <2>. QED
    BY <1>1, <2>1 DEF IInv, FilesKnown
<1>. QED
  BY <1>1, <1>8, <1>9, <1>10, <1>11, <1>12, <1>13, Quiet

(* Where descriptors of a process that is in no call are only closed, what *)
(* is said of calls and entries holds on.                                  *)
LEMMA ClosingKeeps ==
  ASSUME IInv, NEW p \in Procs, \A u \in Tids : Owner[u] = p => call[u] = Idle,
         fdt' \in [Procs -> [Fds -> Objs \cup {None}]],
         \A q \in Procs \ {p} : fdt'[q] = fdt[q], \A x \in Fds : fdt'[p][x] \in {fdt[p][x], None},
         alive' \subseteq alive, call' = call, peer' = peer, ts_fd' = ts_fd, ts_sockfd' = ts_sockfd,
         ts_fileptr' = ts_fileptr, held' = held, know \ {p} \subseteq know',
         LabelTypes', FlowSound', Dead'
  PROVE  IInv'
<1>1. Typed /\ fdt \in [Procs -> [Fds -> Objs \cup {None}]] /\ None \notin Objs
  BY FdAssumption DEF IInv, Typed, MapTypes
<1>2. MapTypes'
  BY <1>1 DEF Typed, MapTypes
<1>3. \A q \in Procs, x \in Fds : fdt'[q][x] \in {fdt[q][x], None}
  OBVIOUS
<1>4. ASSUME NEW u \in Tids PROVE Stands(u)'
  <2>1. CASE call[u] = Idle
    BY <2>1, IdleStands
  <2>2. CASE call[u] # Idle
    <3>1. /\ Stands(u) /\ Known(call[u]) /\ Owner[u] \in Procs \ {p}
          /\ \A x \in call[u].fds : x \in Fds /\ File(u, x) = fdt[Owner[u]][x]
      BY <1>1, <2>2, ThreadKnown DEF IInv, Calls, File
    <3>2. \A x \in call[u].fds : File(u, x)' = File(u, x)
      BY <3>1 DEF File
    <3>3. Owner[u] \in know => Owner[u] \in know'
      BY <3>1
    <3>. QED
      BY <1>1, <1>3, <3>1, <3>2, <3>3, StandsKept
  <2>. QED
    BY <2>1, <2>2
<1>5. EntriesTrue'
  <2>. SUFFICES ASSUME NEW q \in alive', NEW x \in Fds, fdt'[q][x] # None, Settled(q, x)'
                PROVE  /\ ts_fd'[q][x] = FdEntry(fdt[q][x])'
                       /\ ts_sockfd'[q][x] = SockEntry(fdt[q][x])'
    BY DEF EntriesTrue
  <2>1. q \in alive /\ q \in Procs /\ Settled(q, x) /\ fdt'[q][x] = fdt[q][x]
    BY <1>1, <1>3 DEF Typed, MapTypes, Settled
  <2>2. FdEntry(fdt[q][x])' = FdEntry(fdt[q][x]) /\ SockEntry(fdt[q][x])' = SockEntry(fdt[q][x])
    BY <2>1 DEF FdEntry, SockEntry
  <2>. QED
    BY <2>1, <2>2 DEF IInv, EntriesTrue
<1>6. FilesKnown'
  <2>1. \A o \in Pipes, q \in Procs, x \in Fds : fdt'[q][x] = o => fdt[q][x] = o
    BY <1>1, <1>3 DEF Objs
  <2>. QED
    BY <2>1 DEF IInv, FilesKnown
<1>. QED
  BY <1>2, <1>4, <1>5, <1>6, Quiet

(* execve(2) closes descriptors of a process whose threads are in no call. *)
LEMMA ExecKeeps ==
  ASSUME IInv, NEW t \in Tids, NEW closed \in SUBSET Fds, Exec(t, closed)
  PROVE  IInv'
<1>. DEFINE p == Owner[t]
<1>1. /\ p \in alive /\ p \in Procs /\ \A u \in Tids : Owner[u] = p => call[u] = Idle
      /\ fdt' = [fdt EXCEPT ![p] = [fd \in Fds |-> IF fd \in closed THEN None ELSE @[fd]]]
      /\ alive' = alive /\ peer' = peer /\ call' = call
      /\ ts_fd' = ts_fd /\ ts_sockfd' = ts_sockfd /\ ts_fileptr' = ts_fileptr /\ UNCHANGED labelVars
  BY FdAssumption DEF Exec, Siblings, refVars
<1>2. fdt \in [Procs -> [Fds -> Objs \cup {None}]]
  BY DEF IInv, Typed, MapTypes
<1>3. /\ fdt' \in [Procs -> [Fds -> Objs \cup {None}]]
      /\ \A q \in Procs \ {p} : fdt'[q] = fdt[q]
      /\ \A x \in Fds : fdt'[p][x] \in {fdt[p][x], None}
  BY <1>1, <1>2
<1>4. know \subseteq know' /\ LabelTypes' /\ FlowSound' /\ held' = held
  BY <1>1, LabelsStay DEF labelVars
<1>5. Dead'
  BY <1>1, <1>3 DEF IInv, Calls, Dead
<1>. QED
  BY <1>1, <1>3, <1>4, <1>5, ClosingKeeps

(* exit(2) closes all of them.                                             *)
LEMMA ExitKeeps ==
  ASSUME IInv, NEW p \in Procs, Exit(p)
  PROVE  IInv'
<1>1. /\ p \in alive /\ \A u \in Tids : Owner[u] = p => call[u] = Idle
      /\ fdt' = [fdt EXCEPT ![p] = NoFds] /\ alive' = alive \ {p}
      /\ ts_proc' = ts_proc \ {p} /\ know' = know \ {p}
      /\ peer' = peer /\ call' = call
      /\ ts_fd' = ts_fd /\ ts_sockfd' = ts_sockfd /\ ts_fileptr' = ts_fileptr
      /\ ts_file' = ts_file /\ ts_endp' = ts_endp /\ held' = held
  BY DEF Exit, refVars
<1>2. fdt \in [Procs -> [Fds -> Objs \cup {None}]] /\ NoFds \in [Fds -> Objs \cup {None}]
  BY DEF IInv, Typed, MapTypes, NoFds
<1>3. /\ fdt' \in [Procs -> [Fds -> Objs \cup {None}]] /\ fdt'[p] = NoFds
      /\ \A q \in Procs \ {p} : fdt'[q] = fdt[q]
      /\ \A x \in Fds : fdt'[p][x] \in {fdt[p][x], None}
  BY <1>1, <1>2 DEF NoFds
<1>4. LabelTypes' /\ FlowSound'
  BY <1>1 DEF IInv, Typed, LabelTypes, FlowSound, IdOf
<1>5. Dead'
  BY <1>1, <1>3 DEF IInv, Calls, Dead
<1>. QED
  BY <1>1, <1>3, <1>4, <1>5, ClosingKeeps

----------------------------------------------------------------------------
(* At the start there is no descriptor and no label.                       *)
LEMMA InitIInv == Init => IInv
<1>. SUFFICES ASSUME Init PROVE IInv
  OBVIOUS
<1>1. /\ NoFds \in [Fds -> Objs \cup {None}] /\ NoFds \in [Fds -> Ids \cup {None}]
      /\ NoFds \in [Fds -> Endps \cup {None}] /\ \A fd \in Fds : NoFds[fd] = None
  BY DEF NoFds
<1>2. MapTypes
  BY <1>1, FdAssumption DEF Init, MapTypes
<1>3. LabelTypes /\ FlowSound
  BY DEF Init, LabelTypes, FlowSound
<1>4. \A t \in Tids : call[t] = Idle
  BY DEF Init
<1>5. CallTypes
  BY <1>4 DEF Init, CallTypes
<1>6. Calls
  <2>1. Dead
    BY <1>4 DEF Init, Dead
  <2>2. Disjoint
    BY <1>4 DEF Disjoint, Siblings, Idle
  <2>3. ASSUME NEW t \in Tids PROVE Stands(t)
    <3>1. call[t].op = "none" /\ call[t].fds = {}
      BY <1>4 DEF Idle
    <3>. QED
      BY <3>1 DEF Stands, NameStands, DataStands
  <2>. QED
    BY <2>1, <2>2, <2>3 DEF Calls
<1>7. \A p \in Procs, fd \in Fds : fdt[p][fd] = None
  BY <1>1 DEF Init
<1>8. EntriesTrue
  BY <1>2, <1>7 DEF EntriesTrue, MapTypes
<1>9. FilesKnown
  <2>1. \A o \in Files : ts_fileptr[o] = None
    BY DEF Init, Objs
  <2>2. None \notin Pipes
    BY FdAssumption DEF Objs
  <2>. QED
    BY <1>7, <2>1, <2>2 DEF FilesKnown
<1>. QED
  BY <1>2, <1>3, <1>5, <1>6, <1>8, <1>9 DEF IInv, Typed

(* Every step keeps the invariant.                                         *)
LEMMA NextIInv ==
  ASSUME Gaps = {}, IInv, [Next]_vars
  PROVE  IInv'
<1>1. ASSUME NEW t \in Tids, NameCalls(t) PROVE IInv'
  BY <1>1, OpenBegins, PipeBegins, DupBegins, CloseBegins, SocketKeeps, UnixBegins, AcceptBegins,
     ConnectBegins DEF NameCalls
<1>2. ASSUME NEW t \in Tids, DataCalls(t) PROVE IInv'
  BY <1>2, ReadBegins, WriteBegins, SendtoBegins, RecvfromBegins, CopyBegins, RecvmsgBegins
     DEF DataCalls
<1>3. ASSUME NEW t \in Tids, NameRets(t) PROVE IInv'
  BY <1>3, OpenReturns, PipeReturns, DupReturns, CloseReturns, UnixReturns, AcceptReturns,
     ConnectReturns DEF NameRets
<1>4. ASSUME NEW t \in Tids, DataRets(t) PROVE IInv'
  BY <1>4, ReadReturns, WriteReturns, SendtoReturns, RecvfromReturns, CopyingReturns, RecvmsgReturns
     DEF DataRets
<1>5. ASSUME NEW t \in Tids, NEW c \in Procs, Fork(t, c) PROVE IInv'
  BY <1>5, ForkKeeps
<1>6. ASSUME NEW t \in Tids, NEW closed \in SUBSET Fds, Exec(t, closed) PROVE IInv'
  BY <1>6, ExecKeeps
<1>7. ASSUME NEW p \in Procs, Exit(p) PROVE IInv'
  BY <1>7, ExitKeeps
<1>8. CASE UNCHANGED vars
  <2>1. /\ alive' = alive /\ fdt' = fdt /\ peer' = peer /\ call' = call
        /\ ts_fd' = ts_fd /\ ts_sockfd' = ts_sockfd /\ ts_fileptr' = ts_fileptr
        /\ ts_proc' = ts_proc /\ ts_file' = ts_file /\ ts_endp' = ts_endp
        /\ know' = know /\ held' = held
    BY <1>8 DEF vars
  <2>2. MapTypes' /\ LabelTypes' /\ FlowSound' /\ FilesKnown' /\ Dead'
    BY <2>1 DEF IInv, Typed, Calls, MapTypes, LabelTypes, FlowSound, IdOf, FilesKnown, Dead
  <2>3. EntriesTrue'
    BY <2>1 DEF IInv, EntriesTrue, Settled, FdEntry, SockEntry
  <2>4. \A u \in Tids : Stands(u)'
    <3>. SUFFICES ASSUME NEW u \in Tids PROVE Stands(u)'
      OBVIOUS
    <3>1. Stands(u) /\ Typed
      BY DEF IInv, Calls
    <3>2. \A x : File(u, x)' = File(u, x)
      BY <2>1 DEF File
    <3>. QED
      BY <2>1, <3>1, <3>2, StandsKept
  <2>. QED
    BY <2>1, <2>2, <2>3, <2>4, Quiet
<1>. QED
  BY <1>1, <1>2, <1>3, <1>4, <1>5, <1>6, <1>7, <1>8 DEF Next

(* Outside the known gaps, what each call in progress relies on holds      *)
(* until its sys_exit program has run (handle_*_exit of bpf/process.bpf.c).*)
THEOREM InductiveInvariant ==
  ASSUME Gaps = {}
  PROVE  Spec => []IInv
<1>1. IInv /\ [Next]_vars => IInv'
  BY NextIInv
<1>. QED
  BY <1>1, InitIInv, PTL DEF Spec

(* The maps of descriptors, files and labels hold values of their types.   *)
THEOREM TypeCorrect ==
  ASSUME Gaps = {}
  PROVE  Spec => []TypeOK
<1>1. IInv => TypeOK
  BY TypedTypeOK DEF IInv
<1>. QED
  BY <1>1, InductiveInvariant, PTL

(* ts_fd and ts_sockfd lead the handlers to the object the kernel reads    *)
(* and writes through a descriptor that no call is naming.                 *)
THEOREM DescriptorsAligned ==
  ASSUME Gaps = {}
  PROVE  Spec => []FdAligned
<1>1. IInv => FdAligned
  <2>. SUFFICES ASSUME IInv, NEW p \in alive, NEW fd \in Fds, ChannelOf(p, fd) # None,
                       \A t \in Tids : Owner[t] = p => fd \notin call[t].fds
                PROVE  IF ChannelOf(p, fd) \in Endps THEN ts_sockfd[p][fd] = ChannelOf(p, fd)
                       ELSE ts_fd[p][fd] = IdOf(ChannelOf(p, fd))
    BY DEF FdAligned
  <2>1. Typed /\ p \in Procs
    BY DEF IInv, Typed, MapTypes
  <2>2. Settled(p, fd)
    BY <2>1, ThreadKnown DEF Settled, Known
  <2>3. fdt[p][fd] # None
    BY <2>1, ChannelKnown
  <2>4. ts_fd[p][fd] = FdEntry(fdt[p][fd]) /\ ts_sockfd[p][fd] = SockEntry(fdt[p][fd])
    BY <2>2, <2>3 DEF IInv, EntriesTrue
  <2>. QED
    BY <2>1, <2>4, EntryAligned
<1>. QED
  BY <1>1, InductiveInvariant, PTL

(* A label follows its data through files, pipes, sockets, passed          *)
(* descriptors and forks (handle_io_exit_read, _write, _addr,              *)
(* handle_fd_copy_exit).                                                   *)
THEOREM LabelsFollowFlow ==
  ASSUME Gaps = {}
  PROVE  Spec => []FlowSound
<1>1. IInv => FlowSound
  BY DEF IInv
<1>. QED
  BY <1>1, InductiveInvariant, PTL
=============================================================================
