-------------------------- MODULE TaintLife_proofs --------------------------
(***************************************************************************)
(* Proofs about the life of a process in TaintEngine, for every policy and *)
(* every bound: what a pid leaves in the maps when it is freed, who is     *)
(* subject to a policy, and that labels are lost nowhere.                  *)
(*                                                                         *)
(* The theorems hold where no process starts a thread (Threads = {}):      *)
(* handle_exit looks at the leader of a process only, so a thread leaves   *)
(* its entries behind, and a leader that leaves before its threads takes   *)
(* the entries of the process with it.                                     *)
(***************************************************************************)
EXTENDS TaintEngine_proofs, FiniteSetTheorems

----------------------------------------------------------------------------
(* The invariant of the process maps.                                      *)

Alone == \A p \in Pids : os[p] \in {"free", "leader"}

(* Only a process under policy is bound to a domain.                       *)
Bound == \A p \in Pids : te_pid_active(p) => p \in managed

(* A pending entry, its epoch included, lies in the chain of a bound pid.  *)
Pended ==
  \A p \in Pids, d \in DomIds :
    ts_exit_gates[p][d] # NoPend => te_pid_active(p) /\ d \in Chain(p)

LifeInv == TypeOK /\ Alone /\ FreeClean /\ Bound /\ Pended

(* Without threads a process that runs is its leader, and is alone.        *)
LEMMA RunsAlone ==
  ASSUME Alone, NEW p \in Pids
  PROVE  /\ Running(p) => os[p] = "leader"
         /\ ThreadsOf(p) = {}
BY DEF Alone, Running, ThreadsOf

(* Every process is outside every domain when the engine is attached.      *)
LEMMA InitLife == Init => LifeInv
<1>. SUFFICES ASSUME Init PROVE LifeInv
  OBVIOUS
<1>1. TypeOK
  BY InitType
<1>2. \A p \in Pids : os[p] \in {"free", "leader"} /\ cap_task[p] = Global
  BY DEF Init
<1>3. \A p \in Pids : ts_root[p] = p /\ ts_exit_gates[p] = ByDom(NoPend)
  BY DEF Init
<1>4. \A p \in Pids : ts_proc[p][Global] = NoProc
  BY DEF Init, ByDom, DomIds
<1>5. \A p \in Pids, d \in DomIds : ts_exit_gates[p][d] = NoPend
  BY <1>3 DEF ByDom
<1>. QED
  BY <1>1, <1>2, <1>3, <1>4, <1>5
  DEF LifeInv, Alone, FreeClean, Bound, Pended, te_pid_active

(* A step that binds nobody, leaves the pending gates alone and writes no  *)
(* labels of a free pid keeps the invariant.                               *)
LEMMA FlowKeepsLife ==
  ASSUME LifeInv, TypeOK',
         os' = os, cap_task' = cap_task, ts_root' = ts_root,
         managed' = managed, ts_exit_gates' = ts_exit_gates,
         \A q \in Pids : os[q] = "free" => ts_proc'[q] = ts_proc[q]
  PROVE  LifeInv'
<1>1. Alone' /\ Bound' /\ Pended'
  BY DEF LifeInv, Alone, Bound, Pended, te_pid_active, Chain
<1>2. FreeClean'
  BY DEF LifeInv, FreeClean, te_pid_active
<1>. QED
  BY <1>1, <1>2 DEF LifeInv

(* seed_label puts a process under policy that had no entry of its own.    *)
LEMMA SeedKeepsLife ==
  ASSUME LifeInv, TypeOK', NEW p \in Pids, NEW d \in Doms, Seed(p, d)
  PROVE  LifeInv'
<1>1. /\ os[p] = "leader" /\ ~te_pid_active(p)
      /\ os' = os /\ ts_exit_gates' = ts_exit_gates
      /\ managed' = managed \cup {p}
  BY DEF Seed, osVars, gateVars
<1>2. \A q \in Pids \ {p} : /\ cap_task'[q] = cap_task[q]
                            /\ ts_root'[q] = ts_root[q]
                            /\ ts_proc'[q] = ts_proc[q]
  BY DEF Seed, LifeInv, TypeOK
<1>3. Alone' /\ Bound'
  BY <1>1, <1>2 DEF LifeInv, Alone, Bound, te_pid_active
<1>4. FreeClean'
  BY <1>1, <1>2 DEF LifeInv, FreeClean, te_pid_active
<1>5. Pended'
  BY <1>1, <1>2 DEF LifeInv, Pended, te_pid_active, Chain
<1>. QED
  BY <1>3, <1>4, <1>5 DEF LifeInv

(* bind_child_domain only lengthens the chain of a process it binds, so    *)
(* what is pending stays in reach of the exit.                             *)
LEMMA BindKeepsLife ==
  ASSUME LifeInv, TypeOK', NEW pp \in Pids, NEW p \in Pids, NEW d \in Doms,
         bind_child_domain(pp, p, d)
  PROVE  LifeInv'
<1>1. /\ os[p] = "leader"
      /\ ~te_pid_active(p) \/ cap_task[p] = Parent[d]
      /\ os' = os /\ ts_exit_gates' = ts_exit_gates
      /\ managed' = managed \cup {p}
  BY DEF bind_child_domain, BindRequest, osVars, gateVars
<1>2. \A q \in Pids \ {p} : /\ cap_task'[q] = cap_task[q]
                            /\ ts_root'[q] = ts_root[q]
                            /\ ts_proc'[q] = ts_proc[q]
  BY DEF bind_child_domain, LifeInv, TypeOK
<1>3. cap_task'[p] = d /\ d # Global
  BY DomainAssumption DEF bind_child_domain, LifeInv, TypeOK
<1>4. Alone' /\ Bound'
  BY <1>1, <1>2 DEF LifeInv, Alone, Bound, te_pid_active
<1>5. FreeClean'
  BY <1>1, <1>2 DEF LifeInv, FreeClean, te_pid_active
<1>6. Pended'
  <2>1. ASSUME NEW q \in Pids, NEW e \in DomIds,
               ts_exit_gates'[q][e] # NoPend
        PROVE  (te_pid_active(q) /\ e \in Chain(q))'
    <3>1. te_pid_active(q) /\ e \in Chain(q)
      BY <1>1, <2>1 DEF LifeInv, Pended
    <3>2. CASE q # p
      BY <1>2, <3>1, <3>2 DEF te_pid_active, Chain
    <3>3. CASE q = p
      BY <1>1, <1>3, <3>1, <3>3, ChainAssumption DEF te_pid_active, Chain
    <3>. QED
      BY <3>2, <3>3
  <2>. QED
    BY <2>1 DEF Pended
<1>. QED
  BY <1>4, <1>5, <1>6 DEF LifeInv

(* handle_fork: a child is bound only when its parent was, and starts with *)
(* nothing pending.                                                        *)
LEMMA ForkKeepsLife ==
  ASSUME LifeInv, TypeOK', NEW p \in Pids, NEW c \in Pids, Fork(p, c)
  PROVE  LifeInv'
<1>1. /\ os[c] = "free" /\ os' = [os EXCEPT ![c] = "leader"]
      /\ te_fork(p, c) /\ ts_exit_gates' = ts_exit_gates
      /\ managed' = IF p \in managed THEN managed \cup {c} ELSE managed \ {c}
  BY DEF Fork, gateVars
<1>2. ~te_pid_active(c) /\ ts_exit_gates[c] = ByDom(NoPend)
  BY <1>1 DEF LifeInv, FreeClean
<1>3. \A q \in Pids \ {c} : /\ cap_task'[q] = cap_task[q]
                            /\ ts_root'[q] = ts_root[q]
                            /\ ts_proc'[q] = ts_proc[q]
                            /\ os'[q] = os[q]
  BY <1>1 DEF te_fork, LifeInv, TypeOK
<1>4. cap_task'[c] # Global => te_pid_active(p)
  BY <1>1, <1>2 DEF te_fork, te_pid_active
<1>5. os'[c] = "leader"
  BY <1>1 DEF LifeInv, TypeOK
<1>6. Alone'
  BY <1>3, <1>5 DEF LifeInv, Alone
<1>7. Bound'
  BY <1>1, <1>3, <1>4 DEF LifeInv, Bound, te_pid_active
<1>8. FreeClean'
  BY <1>1, <1>3, <1>5 DEF LifeInv, FreeClean, te_pid_active
<1>9. Pended'
  <2>1. \A d \in DomIds : ts_exit_gates'[c][d] = NoPend
    BY <1>1, <1>2 DEF ByDom
  <2>. QED
    BY <1>1, <1>3, <2>1 DEF LifeInv, Pended, te_pid_active, Chain
<1>. QED
  BY <1>6, <1>7, <1>8, <1>9 DEF LifeInv

(* te_exit leaves no entry of the pid that its next owner would meet.      *)
LEMMA ExitKeepsLife ==
  ASSUME LifeInv, TypeOK', NEW p \in Pids, NEW status, Exit(p, status)
  PROVE  LifeInv'
<1>1. /\ te_exit(p, status) /\ managed' = managed \ {p}
      /\ os' = [q \in Pids |-> IF q = p \/ q \in ThreadsOf(p) THEN "free"
                               ELSE os[q]]
  BY DEF Exit
<1>2. \A q \in Pids : os'[q] = IF q = p THEN "free" ELSE os[q]
  BY <1>1, RunsAlone DEF LifeInv
<1>3. \A q \in Pids \ {p} : /\ cap_task'[q] = cap_task[q]
                            /\ ts_root'[q] = ts_root[q]
                            /\ ts_proc'[q] = ts_proc[q]
                            /\ ts_exit_gates'[q] = ts_exit_gates[q]
  BY <1>1 DEF te_exit, cap_exit, LifeInv, TypeOK
<1>4. cap_task'[p] = Global /\ ts_root'[p] = p
  BY <1>1 DEF te_exit, cap_exit, LifeInv, TypeOK
<1>5. cap_task[p] \in DomIds /\ Global \in DomIds
  BY DEF LifeInv, TypeOK, DomIds
<1>6. ts_proc'[p][Global] = NoProc
  <2>1. ts_proc'[p] = Cleared(p, ts_proc[p], NoProc)
    BY <1>1 DEF te_exit, LifeInv, TypeOK
  <2>2. Global \in Chain(p)
    BY <1>5, DomainsType DEF Chain
  <2>. QED
    BY <1>5, <2>1, <2>2 DEF Cleared
<1>7. ts_exit_gates'[p] = ByDom(NoPend)
  <2>1. ts_exit_gates'[p] = Cleared(p, ts_exit_gates[p], NoPend)
    BY <1>1 DEF te_exit, LifeInv, TypeOK
  <2>2. \A d \in DomIds : d \notin Chain(p) => ts_exit_gates[p][d] = NoPend
    BY DEF LifeInv, Pended
  <2>. QED
    BY <2>1, <2>2 DEF Cleared, ByDom
<1>8. Alone'
  BY <1>2 DEF LifeInv, Alone
<1>9. Bound'
  BY <1>1, <1>3, <1>4 DEF LifeInv, Bound, te_pid_active
<1>10. FreeClean'
  BY <1>2, <1>3, <1>4, <1>6, <1>7 DEF LifeInv, FreeClean, te_pid_active
<1>11. Pended'
  <2>1. \A d \in DomIds : ts_exit_gates'[p][d] = NoPend
    BY <1>7 DEF ByDom
  <2>. QED
    BY <1>3, <2>1 DEF LifeInv, Pended, te_pid_active, Chain
<1>. QED
  BY <1>8, <1>9, <1>10, <1>11 DEF LifeInv

(* An exec gives pending gates to a bound process only, in its chain.      *)
LEMMA ExecKeepsLife ==
  ASSUME LifeInv, TypeOK', NEW p \in Pids, NEW x \in Progs, Exec(p, x)
  PROVE  LifeInv'
<1>1. os[p] = "leader" /\ ThreadsOf(p) = {}
  BY RunsAlone DEF Exec, LifeInv
<1>2. \A q \in Pids : os'[q] = os[q]
  BY <1>1 DEF Exec
<1>3. cap_task' = cap_task /\ ts_root' = ts_root /\ managed' = managed
  BY DEF Exec, bindVars
<1>4. \A q \in Pids \ {p} : /\ ts_proc'[q] = ts_proc[q]
                            /\ ts_exit_gates'[q] = ts_exit_gates[q]
  <2>1. CASE ~te_pid_active(p)
    BY <2>1 DEF Exec, gateVars
  <2>2. CASE te_pid_active(p)
    <3>1. PICK pr, ex : /\ ts_proc' = [ts_proc EXCEPT ![p] = pr]
                        /\ ts_exit_gates' = [ts_exit_gates EXCEPT ![p] = ex]
      BY <2>2 DEF Exec
    <3>. QED
      BY <3>1 DEF LifeInv, TypeOK
  <2>. QED
    BY <2>1, <2>2
<1>5. \A d \in DomIds :
        ts_exit_gates'[p][d] # NoPend => te_pid_active(p) /\ d \in Chain(p)
  <2>1. CASE ~te_pid_active(p)
    <3>1. ts_exit_gates' = ts_exit_gates
      BY <2>1 DEF Exec, gateVars
    <3>. QED
      BY <3>1 DEF LifeInv, Pended
  <2>2. CASE te_pid_active(p)
    <3>1. PICK new : ts_exit_gates' = [ts_exit_gates EXCEPT ![p] =
            [d \in DomIds |-> IF d \notin Chain(p) THEN ts_exit_gates[p][d]
                              ELSE new[d]]]
      <4>. DEFINE r == ts_root[p]
                  exits(d) == ExitGatesOf("exec", x, d)
                  ss == [d \in DomIds |->
                    IF d \in Chain(p)
                    THEN te_event(ts_sess[r][d],
                           \/ GatesOf("exec", x, d) \cup exits(d) # {}
                           \/ InvalsOf("exec", x, d) # {},
                           GatesOf("exec", x, d), InvalsOf("exec", x, d))
                    ELSE ts_sess[r][d]]
                  new == [d \in DomIds |->
                    IF exits(d) = {} THEN NoPend
                    ELSE [gates |-> exits(d), epoch |-> ss[d].epoch]]
      <4>1. ts_exit_gates' = [ts_exit_gates EXCEPT ![p] =
              [d \in DomIds |-> IF d \notin Chain(p) THEN ts_exit_gates[p][d]
                 ELSE IF exits(d) = {} THEN NoPend
                 ELSE [gates |-> exits(d), epoch |-> ss[d].epoch]]]
        BY <2>2 DEF Exec
      <4>2. [d \in DomIds |-> IF d \notin Chain(p) THEN ts_exit_gates[p][d]
                              ELSE new[d]]
              = [d \in DomIds |-> IF d \notin Chain(p) THEN ts_exit_gates[p][d]
                   ELSE IF exits(d) = {} THEN NoPend
                   ELSE [gates |-> exits(d), epoch |-> ss[d].epoch]]
        OBVIOUS
      <4>. HIDE DEF new, ss, exits
      <4>. QED
        BY <4>1, <4>2
    <3>2. \A d \in DomIds : d \notin Chain(p)
            => ts_exit_gates'[p][d] = ts_exit_gates[p][d]
      BY <3>1 DEF LifeInv, TypeOK
    <3>. QED
      BY <2>2, <3>2 DEF LifeInv, Pended
  <2>. QED
    BY <2>1, <2>2
<1>6. Alone' /\ Bound'
  BY <1>2, <1>3 DEF LifeInv, Alone, Bound, te_pid_active
<1>7. FreeClean'
  BY <1>1, <1>2, <1>3, <1>4 DEF LifeInv, FreeClean, te_pid_active
<1>8. Pended'
  BY <1>3, <1>4, <1>5 DEF LifeInv, Pended, te_pid_active, Chain
<1>. QED
  BY <1>6, <1>7, <1>8 DEF LifeInv

(* Every step keeps the invariant.                                         *)
LEMMA NextLife ==
  ASSUME Threads = {}
  PROVE  LifeInv /\ [Next]_vars => LifeInv'
<1>. SUFFICES ASSUME LifeInv, [Next]_vars PROVE LifeInv'
  OBVIOUS
<1>. USE DEF LifeInv
<1>1. TypeOK'
  BY NextType
<1>2. ASSUME NEW p \in Pids, Running(p), UNCHANGED <<os, bindVars>>,
             ts_exit_gates' = ts_exit_gates,
             \A q \in Pids \ {p} : ts_proc'[q] = ts_proc[q]
      PROVE  LifeInv'
  BY <1>1, <1>2, RunsAlone, FlowKeepsLife DEF bindVars
<1>3. CASE UNCHANGED vars
  BY <1>1, <1>3, FlowKeepsLife DEF vars
<1>4. ASSUME NEW p \in Pids, NEW d \in Doms, Seed(p, d)
      PROVE  LifeInv'
  BY <1>1, <1>4, SeedKeepsLife
<1>5. ASSUME NEW pp \in Pids, NEW p \in Pids, NEW d \in Doms,
             bind_child_domain(pp, p, d)
      PROVE  LifeInv'
  BY <1>1, <1>5, BindKeepsLife
<1>6. ASSUME NEW p \in Pids, NEW c \in Pids, Fork(p, c)
      PROVE  LifeInv'
  BY <1>1, <1>6, ForkKeepsLife
<1>7. ASSUME NEW p \in Pids, NEW t \in Pids, CloneThread(p, t)
      PROVE  LifeInv'
  BY <1>7 DEF CloneThread
<1>8. ASSUME NEW t \in Pids, ThreadExit(t)
      PROVE  LifeInv'
  BY <1>8 DEF ThreadExit, Alone
<1>9. ASSUME NEW p \in Pids, NEW st, Exit(p, st)
      PROVE  LifeInv'
  BY <1>1, <1>9, ExitKeepsLife
<1>10. ASSUME NEW p \in Pids, NEW st, LeaderExit(p, st)
       PROVE  LifeInv'
  BY <1>10, RunsAlone DEF LeaderExit
<1>11. ASSUME NEW p \in Pids, NEW x \in Progs, Exec(p, x)
       PROVE  LifeInv'
  BY <1>1, <1>11, ExecKeepsLife
<1>12. ASSUME NEW p \in Pids, NEW f \in Paths, NEW acc \in Accesses,
              NEW i \in Inodes, Open(p, f, acc, i)
       PROVE  LifeInv'
  <2>1. /\ Running(p) /\ UNCHANGED <<os, bindVars>>
        /\ ts_exit_gates' = ts_exit_gates
    BY <1>12 DEF Open
  <2>2. \E pr : ts_proc' = [ts_proc EXCEPT ![p] = pr]
    <3>1. CASE te_pid_active(p)
      BY <1>12, <3>1 DEF Open
    <3>2. CASE ~te_pid_active(p)
      <4>1. ts_proc' = ts_proc
        BY <1>12, <3>2 DEF Open
      <4>2. ts_proc = [ts_proc EXCEPT ![p] = ts_proc[p]]
        BY DEF TypeOK
      <4>. QED
        BY <4>1, <4>2
    <3>. QED
      BY <3>1, <3>2
  <2>3. \A q \in Pids \ {p} : ts_proc'[q] = ts_proc[q]
    BY <2>2 DEF TypeOK
  <2>. QED
    BY <1>2, <2>1, <2>3
<1>13. ASSUME NEW p \in Pids, NEW f \in Paths, NEW ok \in BOOLEAN,
              Unlink(p, f, ok)
       PROVE  LifeInv'
  BY <1>2, <1>13 DEF Unlink
<1>14. ASSUME NEW p \in Pids, NEW f \in Paths, Truncate(p, f)
       PROVE  LifeInv'
  BY <1>2, <1>14 DEF Truncate
<1>15. ASSUME NEW p \in Pids, NEW a \in Paths, NEW b \in Paths,
              NEW x \in BOOLEAN, Rename(p, a, b, x)
       PROVE  LifeInv'
  BY <1>2, <1>15 DEF Rename
<1>16. ASSUME NEW p \in Pids, NEW e \in Endps, Connect(p, e)
       PROVE  LifeInv'
  <2>1. \A q \in Pids \ {p} : ts_proc'[q] = ts_proc[q]
    BY <1>16 DEF Connect, TypeOK
  <2>2. /\ Running(p) /\ UNCHANGED <<os, bindVars>>
        /\ ts_exit_gates' = ts_exit_gates
    BY <1>16 DEF Connect, gateVars
  <2>. QED
    BY <1>2, <2>1, <2>2
<1>17. ASSUME NEW p \in Pids, NEW e \in Endps, Recv(p, e)
       PROVE  LifeInv'
  <2>1. \A q \in Pids \ {p} : ts_proc'[q] = ts_proc[q]
    BY <1>17 DEF Recv, TypeOK
  <2>2. /\ Running(p) /\ UNCHANGED <<os, bindVars>>
        /\ ts_exit_gates' = ts_exit_gates
    BY <1>17 DEF Recv, gateVars
  <2>. QED
    BY <1>2, <2>1, <2>2
<1>. HIDE DEF LifeInv
<1>. QED
  BY <1>3, <1>4, <1>5, <1>6, <1>7, <1>8, <1>9, <1>10, <1>11, <1>12, <1>13,
     <1>14, <1>15, <1>16, <1>17 DEF Next

(* The invariant of the process maps holds in every run without threads.   *)
THEOREM ProcessInvariant ==
  ASSUME Threads = {}
  PROVE  Spec => []LifeInv
<1>1. LifeInv /\ [Next]_vars => LifeInv'
  BY NextLife
<1>. QED
  BY <1>1, InitLife, PTL DEF Spec

(* FreeClean: te_exit removes what te_fork and the userspace calls gave    *)
(* the pid, so its next owner starts without a binding, a session root, a  *)
(* pending gate or global labels.                                          *)
THEOREM FreePidsAreClean ==
  ASSUME Threads = {}
  PROVE  Spec => []FreeClean
<1>1. LifeInv => FreeClean
  BY DEF LifeInv
<1>. QED
  BY <1>1, ProcessInvariant, PTL

(* NoStray: a live process is subject to a policy only when it was put     *)
(* under it, or descends from a process that was.                          *)
THEOREM NobodyStrays ==
  ASSUME Threads = {}
  PROVE  Spec => []NoStray
<1>1. LifeInv => NoStray
  BY DEF LifeInv, Bound, NoStray
<1>. QED
  BY <1>1, ProcessInvariant, PTL

----------------------------------------------------------------------------
(* Room in cap_task.                                                       *)

(* Only live processes hold entries of cap_task, so there is room for a    *)
(* new one while no more processes exist than the table has entries.       *)
LEMMA RoomForChild ==
  ASSUME LifeInv, IsFiniteSet(Pids), NEW c \in Pids, os[c] = "free",
         NEW B \in SUBSET Pids, \A q \in Pids : os[q] # "free" => q \in B,
         c \in B, Cardinality(B) <= TaskCap
  PROVE  TaskRoom(c)
<1>. DEFINE A == {q \in Pids : te_pid_active(q)}
<1>1. IsFiniteSet(B) /\ IsFiniteSet(B \ {c})
  BY FS_Subset
<1>2. A \subseteq B \ {c}
  BY DEF LifeInv, FreeClean
<1>3. Cardinality(A) <= Cardinality(B \ {c})
  BY <1>1, <1>2, FS_Subset
<1>4. Cardinality(B \ {c}) = Cardinality(B) - 1
  BY <1>1, FS_RemoveElement
<1>5. IsFiniteSet(A) /\ Cardinality(A) \in Nat /\ Cardinality(B) \in Nat
  BY <1>1, <1>2, FS_Subset, FS_CardinalityType
<1>. HIDE DEF A
<1>6. Cardinality(A) < TaskCap
  BY <1>3, <1>4, <1>5, PidAssumption
<1>. QED
  BY <1>6 DEF A, TaskRoom

(* A child that te_fork finds room for is bound like its parent.           *)
LEMMA ForkBinds ==
  ASSUME TypeOK, NEW p \in Pids, NEW c \in Pids, te_fork(p, c),
         te_pid_active(p), TaskRoom(c)
  PROVE  cap_task'[c] = cap_task[p] /\ cap_task'[c] # Global
BY DEF te_fork, te_pid_active, TypeOK

(* Who may come under policy in a step, and how.                           *)
LEMMA NewlyManaged ==
  ASSUME TypeOK, [Next]_vars, Threads = {}, NEW c \in managed', c \notin managed
  PROVE  \/ cap_task'[c] # Global
         \/ c \in Pids /\ \E p \in Pids : Fork(p, c) /\ p \in managed
<1>1. ASSUME NEW p \in Pids, NEW d \in Doms, Seed(p, d)
      PROVE  c = p /\ cap_task'[p] = d
  BY <1>1 DEF Seed, TypeOK
<1>2. ASSUME NEW pp \in Pids, NEW p \in Pids, NEW d \in Doms,
             bind_child_domain(pp, p, d)
      PROVE  c = p /\ cap_task'[p] = d
  BY <1>2 DEF bind_child_domain, TypeOK
<1>3. ASSUME NEW p \in Pids, NEW k \in Pids, Fork(p, k)
      PROVE  c = k /\ p \in managed
  BY <1>3 DEF Fork
<1>4. ASSUME managed' \subseteq managed
      PROVE  FALSE
  BY <1>4
<1>5. CASE UNCHANGED vars
  BY <1>4, <1>5 DEF vars
<1>6. /\ \A p, t \in Pids : ~CloneThread(p, t)
      /\ \A t \in Pids : ~ThreadExit(t)
  BY <1>4 DEF CloneThread, ThreadExit
<1>7. \A p \in Pids : \A st : ~Exit(p, st) /\ ~LeaderExit(p, st)
  BY <1>4 DEF Exit, LeaderExit
<1>8. ASSUME UNCHANGED bindVars
      PROVE  FALSE
  BY <1>4, <1>8 DEF bindVars
<1>9. ASSUME NEW p \in Pids, NEW x \in Progs, Exec(p, x)
      PROVE  FALSE
  BY <1>8, <1>9 DEF Exec
<1>10. ASSUME NEW p \in Pids, NEW f \in Paths, NEW acc \in Accesses,
              NEW i \in Inodes, Open(p, f, acc, i)
       PROVE  FALSE
  BY <1>8, <1>10 DEF Open
<1>11. ASSUME NEW p \in Pids, NEW f \in Paths, NEW ok \in BOOLEAN,
              Unlink(p, f, ok)
       PROVE  FALSE
  BY <1>8, <1>11 DEF Unlink
<1>12. ASSUME NEW p \in Pids, NEW f \in Paths, Truncate(p, f)
       PROVE  FALSE
  BY <1>8, <1>12 DEF Truncate
<1>13. ASSUME NEW p \in Pids, NEW a \in Paths, NEW b \in Paths,
              NEW x \in BOOLEAN, Rename(p, a, b, x)
       PROVE  FALSE
  BY <1>8, <1>13 DEF Rename
<1>14. ASSUME NEW p \in Pids, NEW e \in Endps, Connect(p, e) \/ Recv(p, e)
       PROVE  FALSE
  BY <1>8, <1>14 DEF Connect, Recv
<1>15. \A d \in Doms : d # Global
  BY DomainAssumption
<1>. QED
  BY <1>1, <1>2, <1>3, <1>5, <1>6, <1>7, <1>9, <1>10, <1>11, <1>12, <1>13,
     <1>14, <1>15 DEF Next

(* ForkTracked: while every managed process is tracked and no more tasks   *)
(* exist than cap_task has room for, te_fork binds a managed process's     *)
(* child (cap_fork would ignore a full table).                             *)
THEOREM ChildrenAreTracked ==
  ASSUME Threads = {}, IsFiniteSet(Pids)
  PROVE  Spec => ForkTracked
<1>. DEFINE A == \A c \in managed' \ managed :
       /\ ManagedTracked
       /\ Cardinality({q \in Pids : os'[q] # "free"}) <= TaskCap
       => cap_task'[c] # Global
<1>1. LifeInv /\ [Next]_vars => A
  <2>. SUFFICES ASSUME LifeInv, [Next]_vars, NEW c \in managed' \ managed,
                       ManagedTracked,
                       Cardinality({q \in Pids : os'[q] # "free"}) <= TaskCap
                PROVE  cap_task'[c] # Global
    OBVIOUS
  <2>1. CASE ~ \E p \in Pids : c \in Pids /\ Fork(p, c) /\ p \in managed
    BY <2>1, NewlyManaged DEF LifeInv
  <2>2. ASSUME NEW p \in Pids, c \in Pids, Fork(p, c), p \in managed
        PROVE  cap_task'[c] # Global
    <3>1. te_pid_active(p)
      BY <2>2 DEF Fork, Running, ManagedTracked, Live
    <3>2. os[c] = "free" /\ te_fork(p, c) /\ os' = [os EXCEPT ![c] = "leader"]
      BY <2>2 DEF Fork
    <3>3. \A q \in Pids : os'[q] # "free" <=> os[q] # "free" \/ q = c
      BY <2>2, <3>2 DEF LifeInv, TypeOK
    <3>4. TaskRoom(c)
      <4>. DEFINE B == {q \in Pids : os'[q] # "free"}
      <4>1. /\ B \in SUBSET Pids /\ c \in B
            /\ \A q \in Pids : os[q] # "free" => q \in B
        BY <2>2, <3>3
      <4>. HIDE DEF B
      <4>2. Cardinality(B) <= TaskCap
        BY DEF B
      <4>. QED
        BY <2>2, <3>2, <4>1, <4>2, RoomForChild
    <3>. QED
      BY <2>2, <3>1, <3>2, <3>4, ForkBinds DEF LifeInv
  <2>. QED
    BY <2>1, <2>2
<1>2. LifeInv /\ [Next]_vars => [A]_vars
  BY <1>1
<1>. QED
  BY <1>2, ProcessInvariant, PTL DEF Spec, ForkTracked

(* Every process under policy is live and bound.                           *)
Track == \A p \in managed : os[p] = "leader" /\ te_pid_active(p)

TrackInv == LifeInv /\ Track

(* Where cap_task has an entry for every pid, nobody under policy is lost. *)
LEMMA NextTrack ==
  ASSUME Threads = {}, IsFiniteSet(Pids), Cardinality(Pids) <= TaskCap
  PROVE  TrackInv /\ [Next]_vars => TrackInv'
<1>. SUFFICES ASSUME LifeInv, Track, [Next]_vars PROVE Track'
  BY NextLife DEF TrackInv
<1>. USE DEF LifeInv
<1>0. TypeOK' /\ LifeInv'
  BY NextLife
<1>1. ASSUME NEW c \in managed', c \notin managed
      PROVE  (os[c] = "leader" /\ te_pid_active(c))'
  <2>1. CASE cap_task'[c] # Global
    <3>1. os'[c] # "free"
      BY <1>0, <2>1 DEF TypeOK, FreeClean, te_pid_active
    <3>. QED
      BY <1>0, <2>1, <3>1 DEF TypeOK, Alone, te_pid_active
  <2>2. ASSUME NEW p \in Pids, c \in Pids, Fork(p, c), p \in managed
        PROVE  cap_task'[c] # Global
    <3>1. te_pid_active(p) /\ os[c] = "free" /\ te_fork(p, c)
      BY <2>2 DEF Fork, Track
    <3>2. TaskRoom(c)
      BY <2>2, <3>1, RoomForChild
    <3>. QED
      BY <2>2, <3>1, <3>2, ForkBinds
  <2>. QED
    BY <1>1, <2>1, <2>2, NewlyManaged
<1>2. ASSUME NEW c \in managed, c \in managed'
      PROVE  (os[c] = "leader" /\ te_pid_active(c))'
  <2>1. os[c] = "leader" /\ te_pid_active(c) /\ c \in Pids
    BY <1>2 DEF Track, TypeOK
  <2>2. ASSUME NEW p \in Pids, NEW d \in Doms, Seed(p, d)
        PROVE  cap_task'[c] # Global
    BY <2>1, <2>2 DEF Seed, TypeOK, te_pid_active
  <2>3. ASSUME NEW pp \in Pids, NEW p \in Pids, NEW d \in Doms,
               bind_child_domain(pp, p, d)
        PROVE  cap_task'[c] # Global
    BY <2>1, <2>3, DomainAssumption DEF bind_child_domain, TypeOK, te_pid_active
  <2>4. ASSUME NEW p \in Pids, NEW k \in Pids, Fork(p, k)
        PROVE  cap_task'[c] # Global
    <3>1. k # c
      BY <2>1, <2>4 DEF Fork
    <3>. QED
      BY <2>1, <2>4, <3>1 DEF Fork, te_fork, TypeOK, te_pid_active
  <2>5. ASSUME NEW p \in Pids, NEW st, Exit(p, st)
        PROVE  cap_task'[c] # Global
    <3>1. p # c
      BY <1>2, <2>5 DEF Exit
    <3>. QED
      BY <2>1, <2>5, <3>1 DEF Exit, te_exit, cap_exit, TypeOK, te_pid_active
  <2>6. ASSUME NEW p \in Pids, NEW st, LeaderExit(p, st)
        PROVE  FALSE
    BY <2>6, RunsAlone DEF LeaderExit
  <2>7. /\ \A p, t \in Pids : ~CloneThread(p, t)
        /\ \A t \in Pids : ~ThreadExit(t)
    BY DEF CloneThread, ThreadExit, Alone
  <2>8. ASSUME UNCHANGED cap_task
        PROVE  cap_task'[c] # Global
    BY <2>1, <2>8 DEF te_pid_active
  <2>9. ASSUME UNCHANGED vars
        PROVE  cap_task'[c] # Global
    BY <2>8, <2>9 DEF vars
  <2>10. ASSUME NEW p \in Pids, NEW x \in Progs, Exec(p, x)
         PROVE  cap_task'[c] # Global
    BY <2>8, <2>10 DEF Exec, bindVars
  <2>11. ASSUME NEW p \in Pids, NEW f \in Paths, NEW acc \in Accesses,
                NEW i \in Inodes, Open(p, f, acc, i)
         PROVE  cap_task'[c] # Global
    BY <2>8, <2>11 DEF Open, bindVars
  <2>12. ASSUME NEW p \in Pids, NEW f \in Paths, NEW ok \in BOOLEAN,
                Unlink(p, f, ok)
         PROVE  cap_task'[c] # Global
    BY <2>8, <2>12 DEF Unlink, bindVars
  <2>13. ASSUME NEW p \in Pids, NEW f \in Paths, Truncate(p, f)
         PROVE  cap_task'[c] # Global
    BY <2>8, <2>13 DEF Truncate, bindVars
  <2>14. ASSUME NEW p \in Pids, NEW a \in Paths, NEW b \in Paths,
                NEW x \in BOOLEAN, Rename(p, a, b, x)
         PROVE  cap_task'[c] # Global
    BY <2>8, <2>14 DEF Rename, bindVars
  <2>15. ASSUME NEW p \in Pids, NEW e \in Endps, Connect(p, e) \/ Recv(p, e)
         PROVE  cap_task'[c] # Global
    BY <2>8, <2>15 DEF Connect, Recv, bindVars
  <2>16. cap_task'[c] # Global
    BY <2>2, <2>3, <2>4, <2>5, <2>6, <2>7, <2>9, <2>10, <2>11, <2>12, <2>13,
       <2>14, <2>15 DEF Next
  <2>17. os'[c] = "leader"
    BY <1>0, <2>1, <2>16 DEF Alone, FreeClean, te_pid_active
  <2>. QED
    BY <2>16, <2>17 DEF te_pid_active
<1>. QED
  BY <1>1, <1>2 DEF Track

(* Nobody is under policy at first.                                        *)
LEMMA InitTrack == Init => TrackInv
<1>1. Init => managed = {}
  BY DEF Init
<1>. QED
  BY <1>1, InitLife DEF TrackInv, Track

(* ManagedTracked: without threads, and with an entry of cap_task for      *)
(* every pid, each descendant of a watched process is tracked, through pid *)
(* reuse and changes of domain (te_fork, cap_fork, handle_exit).           *)
THEOREM DescendantsAreTracked ==
  ASSUME Threads = {}, IsFiniteSet(Pids), Cardinality(Pids) <= TaskCap
  PROVE  Spec => []ManagedTracked
<1>1. TrackInv /\ [Next]_vars => TrackInv'
  BY NextTrack
<1>2. TrackInv => ManagedTracked
  BY DEF TrackInv, Track, ManagedTracked
<1>. QED
  BY <1>1, <1>2, InitTrack, PTL DEF Spec

----------------------------------------------------------------------------
(* Sinks.                                                                  *)

(* Every kill rule on connect asks for at most one label.  A rule that     *)
(* asks for two is not evaluated against what an endpoint already carries, *)
(* so two processes may each bring one.                                    *)
OneLabelSinks ==
  \A r \in Rules : r.effect = "kill" /\ r.op = "connect" =>
    \A a, b \in r.req : a = b

(* Connect sources belong to the global domain or to a domain without      *)
(* children: te_rule_effect shows the rules of an intermediate ancestor    *)
(* none of the source labels that te_connect_flow goes on to record.       *)
NearSources ==
  \A u \in Updates : u.op = "connect" /\ u.add # {} =>
    u.dom = Global \/ \A d \in Doms : u.dom \in te_domains[d] => d = u.dom

(* Rules are looked up at least as far as labels are written.              *)
LEMMA RulesReachChain ==
  ASSUME NEW d \in DomIds
  PROVE  te_domains[d] \subseteq cap_domain_matches[d]
BY DomainAssumption DEF te_domains, cap_domain_matches

(* The rule scan of trace_connect sees every label that the same handler   *)
(* records at the endpoint.                                                *)
LEMMA ConnectGuarded ==
  ASSUME OneLabelSinks, NearSources, TypeOK,
         NEW p \in Pids, NEW k \in Endps, Connect(p, k),
         NEW r \in Rules, NEW e \in Endps,
         r.effect = "kill", r.op = "connect", r.cond = "none",
         r.forbid = {}, e \in r.targets,
         r.req \subseteq ts_endp'[e][r.dom],
         ~(r.req \subseteq ts_endp[e][r.dom])
  PROVE  r \in dying'[p] \ dying[p]
<1>. DEFINE D == r.dom
            src == Sources("connect", k, p)
            pr == [d \in DomIds |-> te_add_labels(ts_proc[p][d], src[d])]
            out == [d \in DomIds |-> IF d \in Chain(p)
                                     THEN te_labels(pr[d], d) ELSE {}]
<1>1. D \in DomIds /\ cap_task[p] \in Doms /\ dying[p] = {}
  BY TableAssumption DEF RuleType, Connect, Running, te_pid_active, TypeOK, DomIds
<1>2. ts_endp' = [ts_endp EXCEPT ![k] = Join(ts_endp[k], out)]
  BY DEF Connect
<1>. HIDE DEF D, out
<1>3. e = k /\ ts_endp'[e][D] = ts_endp[e][D] \cup out[D]
  BY <1>1, <1>2 DEF TypeOK, Join, LabelMap, D
<1>4. PICK a \in r.req : a \notin ts_endp[e][D]
  BY DEF D
<1>5. a \in out[D]
  BY <1>3, <1>4 DEF D
<1>6. r.req \subseteq out[D]
  BY <1>4, <1>5 DEF OneLabelSinks
<1>7. D \in Chain(p) /\ out[D] = te_labels(pr[D], D)
  BY <1>1, <1>5 DEF out
<1>8. te_labels(pr[D], D) = te_labels(ts_proc[p][D], D) \cup src[D]
  BY <1>1 DEF te_labels, te_add_labels
<1>9. src[D] # {} => D = Global \/ D = cap_task[p]
  <2>. SUFFICES ASSUME src[D] # {} PROVE D = Global \/ D = cap_task[p]
    OBVIOUS
  <2>1. AddOf("connect", k, D) # {}
    BY <1>1, <1>7 DEF Sources
  <2>2. PICK u \in Updates : u.op = "connect" /\ u.dom = D /\ u.add # {}
    BY <2>1 DEF AddOf, Hits
  <2>. QED
    BY <1>1, <1>7, <2>2 DEF NearSources, Chain
<1>10. RuleFires(r, cap_task[p], ts_proc[p], Sess(p), "connect", k,
                 ByDom({}), src, FALSE)
  <2>1. r.req \subseteq te_labels(ts_proc[p][D], D)
          \cup (IF D \in {Global, cap_task[p]} THEN src[D] ELSE {})
    BY <1>6, <1>7, <1>8, <1>9
  <2>2. D \in cap_domain_matches[cap_task[p]]
    BY <1>1, <1>7, RulesReachChain DEF Chain, DomIds
  <2>3. ~te_cond_satisfied(r, ts_proc[p][D], Sess(p)[D], k)
    BY DEF te_cond_satisfied
  <2>. HIDE DEF src
  <2>. QED
    BY <1>1, <1>3, <2>1, <2>2, <2>3 DEF RuleFires, ByDom, D
<1>11. r \in Killers(p, ts_proc[p], Sess(p), "connect", k, ByDom({}), src, FALSE)
  BY <1>10 DEF Killers
<1>12. Kill(p, Killers(p, ts_proc[p], Sess(p), "connect", k, ByDom({}), src, FALSE))
  BY DEF Connect
<1>13. r \in dying'[p]
  BY <1>11, <1>12 DEF Kill, TypeOK
<1>. QED
  BY <1>1, <1>13

(* SinkGuarded: whatever labels reach a sink endpoint, the step that       *)
(* records a kill rule's label there leaves its process dying by that very *)
(* rule: te_connect_flow writes no label that the rule scan missed.        *)
THEOREM SinksAreGuarded ==
  ASSUME OneLabelSinks, NearSources
  PROVE  Spec => SinkGuarded
<1>. DEFINE A == \A r \in Rules, e \in Endps :
       /\ r.effect = "kill" /\ r.op = "connect" /\ r.cond = "none"
       /\ r.forbid = {} /\ e \in r.targets
       /\ r.req \subseteq ts_endp'[e][r.dom]
       /\ ~(r.req \subseteq ts_endp[e][r.dom])
       => \E p \in Pids : r \in dying'[p] \ dying[p]
<1>1. TypeOK /\ [Next]_vars => A
  <2>. SUFFICES ASSUME TypeOK, [Next]_vars PROVE A
    OBVIOUS
  <2>1. ASSUME NEW p \in Pids, NEW k \in Endps, Connect(p, k)
        PROVE  A
    BY <2>1, ConnectGuarded
  <2>2. ASSUME UNCHANGED ts_endp
        PROVE  A
    BY <2>2
  <2>3. ASSUME UNCHANGED flowVars
        PROVE  A
    BY <2>2, <2>3 DEF flowVars
  <2>. HIDE DEF A
  <2>4. ASSUME UNCHANGED vars
        PROVE  A
    BY <2>2, <2>4 DEF vars
  <2>5. ASSUME NEW p \in Pids, NEW d \in Doms, Seed(p, d)
        PROVE  A
    BY <2>3, <2>5 DEF Seed
  <2>6. ASSUME NEW pp \in Pids, NEW p \in Pids, NEW d \in Doms,
               bind_child_domain(pp, p, d)
        PROVE  A
    BY <2>3, <2>6 DEF bind_child_domain
  <2>7. ASSUME NEW p \in Pids, NEW c \in Pids, Fork(p, c) \/ CloneThread(p, c)
        PROVE  A
    BY <2>3, <2>7 DEF Fork, CloneThread
  <2>8. ASSUME NEW t \in Pids, ThreadExit(t)
        PROVE  A
    BY <2>3, <2>8 DEF ThreadExit
  <2>9. ASSUME NEW p \in Pids, NEW st, Exit(p, st) \/ LeaderExit(p, st)
        PROVE  A
    BY <2>3, <2>9 DEF Exit, LeaderExit
  <2>10. ASSUME NEW p \in Pids, NEW x \in Progs, Exec(p, x)
         PROVE  A
    BY <2>3, <2>10 DEF Exec
  <2>11. ASSUME NEW p \in Pids, NEW f \in Paths, NEW acc \in Accesses,
                NEW i \in Inodes, Open(p, f, acc, i)
         PROVE  A
    BY <2>2, <2>11 DEF Open
  <2>12. ASSUME NEW p \in Pids, NEW f \in Paths, NEW ok \in BOOLEAN,
                Unlink(p, f, ok)
         PROVE  A
    BY <2>2, <2>12 DEF Unlink
  <2>13. ASSUME NEW p \in Pids, NEW f \in Paths, Truncate(p, f)
         PROVE  A
    BY <2>2, <2>13 DEF Truncate
  <2>14. ASSUME NEW p \in Pids, NEW a \in Paths, NEW b \in Paths,
                NEW x \in BOOLEAN, Rename(p, a, b, x)
         PROVE  A
    BY <2>2, <2>14 DEF Rename
  <2>15. ASSUME NEW p \in Pids, NEW e \in Endps, Recv(p, e)
         PROVE  A
    BY <2>3, <2>15 DEF Recv
  <2>. QED
    BY <2>1, <2>4, <2>5, <2>6, <2>7, <2>8, <2>9, <2>10, <2>11, <2>12, <2>13,
       <2>14, <2>15 DEF Next
<1>2. TypeOK /\ [Next]_vars => [A]_vars
  BY <1>1
<1>. QED
  BY <1>2, TypeCorrect, PTL DEF Spec, SinkGuarded

----------------------------------------------------------------------------
(* Kills.                                                                  *)

(* No event that a kill rule guards resets the gate the rule asks for: an  *)
(* exec is evaluated after its own invalidators are stamped, and a rename  *)
(* evaluates its second path after the write event of its first.           *)
NoSelfInvalidation ==
  \A r \in Rules : r.effect = "kill" /\ r.cond = "after" =>
    /\ r.op = "exec" => \A x \in r.targets :
         InvalsOf("exec", x, r.dom) \cap r.since = {}
    /\ r.op = "write" => \A a \in Paths : \A b \in r.targets :
         a # b => InvalsOf("write", a, r.dom) \cap r.since = {}

(* A gate that is fresh stays fresh through an event that hits none of the *)
(* invalidators it is compared with.                                       *)
LEMMA FreshStays ==
  ASSUME NEW s \in SessType, Clocked(s), NEW due \in BOOLEAN,
         NEW G \in SUBSET Gates, NEW I \in SUBSET Invals,
         NEW g \in Gates, NEW S \in SUBSET Invals, I \cap S = {},
         te_after_satisfied(s, g, S)
  PROVE  te_after_satisfied(te_event(s, due, G, I), g, S)
<1>1. CASE ~due
  BY <1>1 DEF te_event
<1>2. CASE due
  <2>. DEFINE t == te_event(s, due, G, I)
  <2>1. t = te_stamp(te_tick(s), s.epoch + 1, G, I)
    BY <1>2 DEF te_event
  <2>2. te_tick(s).bits = s.bits
    BY DEF te_tick, SessType
  <2>3. /\ t.bits = s.bits \cup G
        /\ t.gate[g] = IF g \in G THEN s.epoch + 1 ELSE s.gate[g]
        /\ \A i \in S : t.inval[i] = s.inval[i]
    BY <2>1, <2>2, TickType DEF te_stamp
  <2>4. /\ s.epoch \in Nat /\ s.gate[g] \in Nat
        /\ \A i \in S : s.inval[i] \in Nat /\ s.inval[i] <= s.epoch
    BY DEF SessType, Clocked
  <2>. HIDE DEF t
  <2>5. te_after_satisfied(t, g, S)
    BY <2>3, <2>4 DEF te_after_satisfied
  <2>. QED
    BY <2>5 DEF t
<1>. QED
  BY <1>1, <1>2

(* A kill marks the process of the event with the rules that fired on it.  *)
LEMMA KillMarks ==
  ASSUME TypeOK, NEW p \in Pids, NEW rules, Kill(p, rules),
         NEW q \in Pids, NEW k \in dying'[q] \ dying[q]
  PROVE  q = p /\ k \in rules
BY DEF Kill, TypeOK

(* Rule r does not find its gate fresh in the sessions of p.               *)
Justified(p, r) ==
  ~(/\ r.cond = "after"
    /\ te_after_satisfied(Sess(p)[r.dom], r.gate, r.since))

(* A rule scan on the sessions as the event found them kills rightly.      *)
LEMMA ScanJustified ==
  ASSUME NEW p \in Pids, NEW pr, NEW op, NEW o, NEW stored, NEW src,
         NEW fileRead,
         NEW k \in Killers(p, pr, Sess(p), op, o, stored, src, fileRead)
  PROVE  Justified(p, k)
<1>1. RuleFires(k, cap_task[p], pr, Sess(p), op, o, stored, src, fileRead)
  BY DEF Killers
<1>2. ~te_cond_satisfied(k, pr[k.dom], Sess(p)[k.dom], o)
  BY <1>1 DEF RuleFires
<1>. QED
  BY <1>2 DEF Justified, te_cond_satisfied

(* The sessions ss are as fresh as those of p for the rules on o.          *)
KeepsFresh(p, ss, op, o) ==
  \A r \in Rules :
    /\ r.effect = "kill" /\ r.op = op /\ o \in r.targets
    /\ r.cond = "after"
    /\ te_after_satisfied(Sess(p)[r.dom], r.gate, r.since)
    => te_after_satisfied(ss[r.dom], r.gate, r.since)

(* So does a scan on sessions that an event has changed, when the event    *)
(* resets no gate the rule asks for.                                       *)
LEMMA LateScanJustified ==
  ASSUME NEW p \in Pids, NEW ss, NEW pr, NEW op, NEW o, NEW stored,
         NEW src, NEW fileRead, KeepsFresh(p, ss, op, o),
         NEW k \in Killers(p, pr, ss, op, o, stored, src, fileRead)
  PROVE  Justified(p, k)
<1>1. /\ k \in Rules /\ k.effect = "kill"
      /\ RuleFires(k, cap_task[p], pr, ss, op, o, stored, src, fileRead)
  BY DEF Killers
<1>2. /\ ~te_cond_satisfied(k, pr[k.dom], ss[k.dom], o)
      /\ k.op = op /\ o \in k.targets
  BY <1>1 DEF RuleFires
<1>. QED
  BY <1>1, <1>2 DEF Justified, KeepsFresh, te_cond_satisfied

(* What an event leaves of the gates of the process's sessions.            *)
LEMMA SessionsStayFresh ==
  ASSUME IInv, NEW p \in Pids, NEW r \in Rules, NEW due \in BOOLEAN,
         NEW G \in SUBSET Gates, NEW I \in SUBSET Invals, I \cap r.since = {},
         te_after_satisfied(Sess(p)[r.dom], r.gate, r.since)
  PROVE  te_after_satisfied(te_event(Sess(p)[r.dom], due, G, I), r.gate, r.since)
<1>1. r.dom \in DomIds /\ r.gate \in Gates /\ r.since \in SUBSET Invals
  BY TableAssumption DEF RuleType
<1>2. ts_root[p] \in Pids
  BY DEF IInv, TypeOK
<1>3. Sess(p)[r.dom] \in SessType
  BY <1>1, <1>2 DEF IInv, TypeOK, Sess
<1>4. Clocked(Sess(p)[r.dom])
  BY <1>1, <1>2 DEF IInv, SessionsGood, GoodAt, Sess
<1>. QED
  BY <1>1, <1>3, <1>4, FreshStays

(* Exec: the rules are scanned after the exec's own gates and invalidators *)
(* are stamped.                                                            *)
LEMMA ExecJustified ==
  ASSUME NoSelfInvalidation, IInv, NEW p \in Pids, NEW x \in Progs, Exec(p, x),
         NEW q \in Pids, NEW k \in dying'[q] \ dying[q]
  PROVE  q = p /\ Justified(p, k)
<1>. DEFINE r == ts_root[p]
            gates(d) == GatesOf("exec", x, d)
            exits(d) == ExitGatesOf("exec", x, d)
            invals(d) == InvalsOf("exec", x, d)
            due(d) == gates(d) \cup exits(d) # {} \/ invals(d) # {}
            pr == [d \in DomIds |->
               IF d \in Chain(p)
               THEN [in |-> TRUE,
                     labels |-> (ts_proc[p][d].labels \cup AddOf("exec", x, d))
                                  \ DelOf("exec", x, d),
                     lin |-> ts_proc[p][d].lin \cup gates(d)]
               ELSE ts_proc[p][d]]
            ss == [d \in DomIds |->
               IF d \in Chain(p)
               THEN te_event(ts_sess[r][d], due(d), gates(d), invals(d))
               ELSE ts_sess[r][d]]
            hit == Killers(p, pr, ss, "exec", x, ByDom({}), ByDom({}), FALSE)
<1>1. te_pid_active(p)
  BY DEF Exec
<1>2. Kill(p, hit)
  BY <1>1 DEF Exec
<1>3. q = p /\ k \in hit
  <2>. HIDE DEF hit
  <2>. QED
    BY <1>2, KillMarks DEF IInv
<1>4. ASSUME NEW u \in Rules, u.effect = "kill", u.op = "exec",
             x \in u.targets, u.cond = "after",
             te_after_satisfied(Sess(p)[u.dom], u.gate, u.since)
      PROVE  te_after_satisfied(ss[u.dom], u.gate, u.since)
  <2>1. u.dom \in DomIds
    BY TableAssumption DEF RuleType
  <2>2. invals(u.dom) \cap u.since = {}
    BY <1>4 DEF NoSelfInvalidation
  <2>3. gates(u.dom) \in SUBSET Gates /\ invals(u.dom) \in SUBSET Invals
    BY RowTypes
  <2>4. due(u.dom) \in BOOLEAN
    OBVIOUS
  <2>5. ss[u.dom] = IF u.dom \in Chain(p)
                    THEN te_event(Sess(p)[u.dom], due(u.dom), gates(u.dom),
                                  invals(u.dom))
                    ELSE Sess(p)[u.dom]
    BY <2>1 DEF Sess
  <2>. HIDE DEF ss, due, gates, invals
  <2>6. te_after_satisfied(te_event(Sess(p)[u.dom], due(u.dom), gates(u.dom),
                                    invals(u.dom)), u.gate, u.since)
    BY <1>4, <2>2, <2>3, <2>4, SessionsStayFresh
  <2>. QED
    BY <1>4, <2>5, <2>6
<1>5. Justified(p, k)
  <2>1. k \in Killers(p, pr, ss, "exec", x, ByDom({}), ByDom({}), FALSE)
    BY <1>3
  <2>. HIDE DEF pr, ss
  <2>2. KeepsFresh(p, ss, "exec", x)
    BY <1>4 DEF KeepsFresh
  <2>3. PICK fr \in BOOLEAN :
          k \in Killers(p, pr, ss, "exec", x, ByDom({}), ByDom({}), fr)
    BY <2>1
  <2>. QED
    BY <2>2, <2>3, LateScanJustified
<1>. QED
  BY <1>3, <1>5

(* A rename scans the rules for its second path after the write event of   *)
(* the first.                                                              *)
LEMMA RenameJustified ==
  ASSUME NoSelfInvalidation, IInv, NEW p \in Pids, NEW a \in Paths,
         NEW b \in Paths, NEW exchange \in BOOLEAN, Rename(p, a, b, exchange),
         NEW q \in Pids, NEW k \in dying'[q] \ dying[q]
  PROVE  q = p /\ Justified(p, k)
<1>. DEFINE s1 == Touch(p, Sess(p), "write", a, Own(p))
            kills(f, ss) == Killers(p, ts_proc[p], ss, "write", f,
                                   ByDom({}), ByDom({}), FALSE)
<1>1. te_pid_active(p) /\ a # b
  BY DEF Rename
<1>2. Kill(p, kills(a, Sess(p)) \cup kills(b, s1))
  BY <1>1 DEF Rename
<1>3. q = p /\ k \in kills(a, Sess(p)) \cup kills(b, s1)
  <2>. HIDE DEF kills, s1
  <2>. QED
    BY <1>2, KillMarks DEF IInv
<1>4. CASE k \in kills(a, Sess(p))
  BY <1>3, <1>4, ScanJustified
<1>5. CASE k \in kills(b, s1)
  <2>1. ASSUME NEW u \in Rules, u.effect = "kill", u.op = "write",
               b \in u.targets, u.cond = "after",
               te_after_satisfied(Sess(p)[u.dom], u.gate, u.since)
        PROVE  te_after_satisfied(s1[u.dom], u.gate, u.since)
    <3>. DEFINE G == GatesOf("write", a, u.dom)
                I == InvalsOf("write", a, u.dom)
                due == G # {} \/ I # {} \/ Own(p)[u.dom] # {}
    <3>1. u.dom \in DomIds
      BY TableAssumption DEF RuleType
    <3>2. I \cap u.since = {}
      BY <1>1, <2>1 DEF NoSelfInvalidation
    <3>3. G \in SUBSET Gates /\ I \in SUBSET Invals /\ due \in BOOLEAN
      BY RowTypes
    <3>4. s1[u.dom] = IF u.dom \in Chain(p)
                      THEN te_event(Sess(p)[u.dom], due, G, I)
                      ELSE Sess(p)[u.dom]
      BY <3>1 DEF Touch
    <3>. HIDE DEF G, I, due, s1
    <3>5. te_after_satisfied(te_event(Sess(p)[u.dom], due, G, I),
                             u.gate, u.since)
      BY <2>1, <3>2, <3>3, SessionsStayFresh
    <3>. QED
      BY <2>1, <3>4, <3>5
  <2>2. k \in Killers(p, ts_proc[p], s1, "write", b, ByDom({}), ByDom({}), FALSE)
    BY <1>5
  <2>. HIDE DEF s1
  <2>3. KeepsFresh(p, s1, "write", b)
    BY <2>1 DEF KeepsFresh
  <2>4. PICK fr \in BOOLEAN :
          k \in Killers(p, ts_proc[p], s1, "write", b, ByDom({}), ByDom({}), fr)
    BY <2>2
  <2>5. Justified(p, k)
    BY <2>3, <2>4, LateScanJustified
  <2>. QED
    BY <1>3, <2>5
<1>. QED
  BY <1>3, <1>4, <1>5

(* A write event by path scans the rules on the sessions it found.         *)
LEMMA PathWriteJustified ==
  ASSUME TypeOK, NEW p \in Pids, NEW f \in Paths, NEW src, PathWrite(p, f, src),
         NEW q \in Pids, NEW k \in dying'[q] \ dying[q]
  PROVE  q = p /\ Justified(p, k)
<1>. DEFINE hit == Killers(p, ts_proc[p], Sess(p), "write", f,
                          ByDom({}), ByDom({}), FALSE)
<1>1. Kill(p, hit)
  BY DEF PathWrite
<1>2. q = p /\ k \in hit
  <2>. HIDE DEF hit
  <2>. QED
    BY <1>1, KillMarks
<1>. QED
  BY <1>2, ScanJustified

(* So does an open, for each kind of access.                               *)
LEMMA OpenJustified ==
  ASSUME TypeOK, NEW p \in Pids, NEW f \in Paths, NEW acc, NEW i \in Inodes,
         Open(p, f, acc, i), NEW q \in Pids, NEW k \in dying'[q] \ dying[q]
  PROVE  q = p /\ Justified(p, k)
<1>. DEFINE rd == "read" \in acc
            wr == "write" \in acc
            src == Sources("open", f, p)
            obj == Join(Join(ts_file[i], Promoted(p, f)), src)
            seen == [d \in DomIds |-> IF rd /\ d \in Chain(p) THEN obj[d]
                                      ELSE {}]
            from == IF rd THEN src ELSE ByDom({})
            kills(op) == Killers(p, ts_proc[p], Sess(p), op, f, seen, from, rd)
<1>1. te_pid_active(p)
  BY DEF Open
<1>2. Kill(p, (IF rd THEN kills("open") ELSE {})
                \cup (IF wr THEN kills("write") ELSE {}))
  BY <1>1 DEF Open
<1>3. q = p /\ k \in kills("open") \cup kills("write")
  <2>. HIDE DEF kills
  <2>1. /\ q = p
        /\ k \in (IF rd THEN kills("open") ELSE {}) \cup (IF wr THEN kills("write") ELSE {})
    BY <1>2, KillMarks
  <2>. QED
    BY <2>1
<1>4. PICK op : k \in kills(op)
  <2>. HIDE DEF kills
  <2>. QED
    BY <1>3
<1>5. rd \in BOOLEAN
  OBVIOUS
<1>. HIDE DEF seen, from, rd
<1>. QED
  BY <1>3, <1>4, <1>5, ScanJustified

(* So do connect and receive.                                              *)
LEMMA NetJustified ==
  ASSUME TypeOK, NEW p \in Pids, NEW e \in Endps, Connect(p, e) \/ Recv(p, e),
         NEW q \in Pids, NEW k \in dying'[q] \ dying[q]
  PROVE  q = p /\ Justified(p, k)
<1>1. CASE Connect(p, e)
  <2>. DEFINE hit == Killers(p, ts_proc[p], Sess(p), "connect", e,
                            ByDom({}), Sources("connect", e, p), FALSE)
  <2>1. Kill(p, hit)
    BY <1>1 DEF Connect
  <2>2. q = p /\ k \in hit
    <3>. HIDE DEF hit
    <3>. QED
      BY <2>1, KillMarks
  <2>. QED
    BY <2>2, ScanJustified
<1>2. CASE Recv(p, e)
  <2>. DEFINE stored == [d \in DomIds |-> IF d \in Chain(p) THEN ts_endp[e][d]
                                          ELSE {}]
              hit == Killers(p, ts_proc[p], Sess(p), "recv", e,
                            stored, Sources("recv", e, p), FALSE)
  <2>1. Kill(p, hit)
    BY <1>2 DEF Recv
  <2>2. q = p /\ k \in hit
    <3>. HIDE DEF hit
    <3>. QED
      BY <2>1, KillMarks
  <2>. QED
    BY <2>2, ScanJustified
<1>. QED
  BY <1>1, <1>2

(* KillJustified: under a policy whose events do not reset the gates their *)
(* own rules ask for, every kill rule that fires on a process had a gate   *)
(* that was not fresh when the event began, whoever else stamped the       *)
(* session.                                                                *)
THEOREM KillsAreJustified ==
  ASSUME NoSelfInvalidation
  PROVE  Spec => KillJustified
<1>. DEFINE A == \A p \in Pids : \A r \in dying'[p] \ dying[p] :
       ~(/\ r.cond = "after"
         /\ te_after_satisfied(Sess(p)[r.dom], r.gate, r.since))
<1>1. IInv /\ [Next]_vars => A
  <2>. SUFFICES ASSUME IInv, [Next]_vars,
                       NEW q \in Pids, NEW k \in dying'[q] \ dying[q]
                PROVE  Justified(q, k)
    BY DEF Justified
  <2>. TypeOK
    BY DEF IInv
  <2>1. ASSUME dying'[q] \subseteq dying[q]
        PROVE  Justified(q, k)
    BY <2>1
  <2>2. ASSUME UNCHANGED vars
        PROVE  Justified(q, k)
    BY <2>1, <2>2 DEF vars
  <2>3. ASSUME NEW p \in Pids, NEW d \in Doms, Seed(p, d)
        PROVE  Justified(q, k)
    BY <2>1, <2>3 DEF Seed, osVars
  <2>4. ASSUME NEW pp \in Pids, NEW p \in Pids, NEW d \in Doms,
               bind_child_domain(pp, p, d)
        PROVE  Justified(q, k)
    BY <2>1, <2>4 DEF bind_child_domain, osVars
  <2>5. ASSUME NEW p \in Pids, NEW c \in Pids, Fork(p, c) \/ CloneThread(p, c)
        PROVE  Justified(q, k)
    BY <2>1, <2>5 DEF Fork, CloneThread
  <2>6. ASSUME NEW t \in Pids, ThreadExit(t)
        PROVE  Justified(q, k)
    BY <2>1, <2>6 DEF ThreadExit
  <2>7. ASSUME NEW p \in Pids, NEW st, Exit(p, st) \/ LeaderExit(p, st)
        PROVE  Justified(q, k)
    BY <2>1, <2>7 DEF Exit, LeaderExit, TypeOK
  <2>8. ASSUME NEW p \in Pids, NEW x \in Progs, Exec(p, x)
        PROVE  Justified(q, k)
    BY <2>8, ExecJustified
  <2>9. ASSUME NEW p \in Pids, NEW f \in Paths, NEW acc \in Accesses,
               NEW i \in Inodes, Open(p, f, acc, i)
        PROVE  Justified(q, k)
    BY <2>9, OpenJustified
  <2>10. ASSUME NEW p \in Pids, NEW f \in Paths, NEW ok \in BOOLEAN,
                Unlink(p, f, ok)
         PROVE  Justified(q, k)
    BY <2>10, PathWriteJustified DEF Unlink
  <2>11. ASSUME NEW p \in Pids, NEW f \in Paths, Truncate(p, f)
         PROVE  Justified(q, k)
    BY <2>11, PathWriteJustified DEF Truncate
  <2>12. ASSUME NEW p \in Pids, NEW a \in Paths, NEW b \in Paths,
                NEW x \in BOOLEAN, Rename(p, a, b, x)
         PROVE  Justified(q, k)
    BY <2>12, RenameJustified
  <2>13. ASSUME NEW p \in Pids, NEW e \in Endps, Connect(p, e) \/ Recv(p, e)
         PROVE  Justified(q, k)
    BY <2>13, NetJustified
  <2>. QED
    BY <2>2, <2>3, <2>4, <2>5, <2>6, <2>7, <2>8, <2>9, <2>10, <2>11, <2>12,
       <2>13 DEF Next
<1>2. IInv /\ [Next]_vars => [A]_vars
  BY <1>1
<1>. QED
  BY <1>2, InductiveInvariant, PTL DEF Spec, KillJustified

----------------------------------------------------------------------------
(* Labels.                                                                 *)

(* One runtime without child domains: every bound process is evaluated in  *)
(* every domain.  te_copy_file_state moves the labels of a renamed path in *)
(* the domains of the renamer only.                                        *)
OneChain == \A d \in Doms : te_domains[d] = DomIds

(* Nothing is claimed of a process outside every policy.                   *)
Unknowing == \A p \in Pids : p \notin managed => know[p] = ByDom({})

(* No two paths name one inode.                                            *)
OneName == \A f, b \in Paths : at[f] = at[b] /\ at[f] # NoInode => f = b

(* A missing entry of ts_proc has no labels, so te_fork loses none when it *)
(* skips it.                                                               *)
Absent == \A p \in Pids, d \in DomIds :
            ~ts_proc[p][d].in => ts_proc[p][d].labels = {}

(* The two halves of LabelSound.                                           *)
ProcSound ==
  \A p \in managed, d \in DomIds :
    know[p][d] \subseteq te_labels(ts_proc[p][d], d)
FileSound ==
  \A f \in Paths, d \in DomIds :
    at[f] # NoInode => held[at[f]][d] \subseteq ts_file[at[f]][d]
                                                 \cup ts_file[f][d]

ProcHalf == ProcSound /\ Unknowing /\ Absent
FileHalf == FileSound /\ OneName
LabelInv == TrackInv /\ ProcHalf /\ FileHalf

(* A running process is bound exactly when it is under policy, and is then *)
(* evaluated in every domain.                                              *)
LEMMA BoundIsManaged ==
  ASSUME OneChain, TrackInv, NEW p \in Pids
  PROVE  /\ te_pid_active(p) <=> p \in managed
         /\ te_pid_active(p) => Chain(p) = DomIds
         /\ os[p] = "free" => p \notin managed
<1>1. te_pid_active(p) <=> p \in managed
  BY DEF TrackInv, LifeInv, Track, Bound
<1>2. te_pid_active(p) => cap_task[p] \in Doms
  BY DEF TrackInv, LifeInv, TypeOK, te_pid_active, DomIds
<1>. QED
  BY <1>1, <1>2 DEF OneChain, Chain, TrackInv, Track

(* A step that touches the labels of one process keeps the process half    *)
(* when it keeps it there.                                                 *)
LEMMA OneProcess ==
  ASSUME TypeOK, ProcHalf, NEW p \in Pids, managed' = managed,
         \A q \in Pids \ {p} : know'[q] = know[q] /\ ts_proc'[q] = ts_proc[q],
         p \notin managed => know'[p] = know[p],
         \A d \in DomIds :
           p \in managed => know'[p][d] \subseteq te_labels(ts_proc'[p][d], d),
         \A d \in DomIds : ~ts_proc'[p][d].in => ts_proc'[p][d].labels = {}
  PROVE  ProcHalf'
<1>1. ProcSound'
  BY DEF ProcHalf, ProcSound, TypeOK
<1>2. Unknowing'
  BY DEF ProcHalf, Unknowing, ByDom
<1>3. Absent'
  BY DEF ProcHalf, Absent
<1>. QED
  BY <1>1, <1>2, <1>3 DEF ProcHalf

(* A step that touches no labels of a process keeps the process half.      *)
LEMMA NoProcess ==
  ASSUME ProcHalf, managed' = managed, know' = know, ts_proc' = ts_proc
  PROVE  ProcHalf'
BY DEF ProcHalf, ProcSound, Unknowing, Absent, ByDom

(* A step that touches no file keeps the file half.                        *)
LEMMA NoFile ==
  ASSUME FileHalf, at' = at, ts_file' = ts_file, held' = held
  PROVE  FileHalf'
BY DEF FileHalf, FileSound, OneName

(* seed_label gives a process the labels it is then known to have.         *)
LEMMA SeedLabelSound ==
  ASSUME OneChain, TrackInv, ProcHalf, NEW p \in Pids, NEW d \in Doms,
         Seed(p, d)
  PROVE  ProcHalf'
<1>1. TypeOK /\ d # Global /\ Global \in DomIds /\ d \in DomIds
  BY DomainAssumption DEF TrackInv, LifeInv, DomIds
<1>2. managed' = managed \cup {p}
  BY DEF Seed
<1>3. \A q \in Pids \ {p} : know'[q] = know[q] /\ ts_proc'[q] = ts_proc[q]
  BY <1>1 DEF Seed, TypeOK
<1>4. \A e \in DomIds :
        know'[p][e] = IF e = Global THEN SeedLabels
                      ELSE IF e = d THEN CapLabels[d] ELSE {}
  BY <1>1 DEF Seed, TypeOK
<1>5. /\ ts_proc'[p][Global] = [in |-> TRUE, labels |-> SeedLabels, lin |-> {}]
      /\ ts_proc'[p][d] = [in |-> TRUE, labels |-> {}, lin |-> {}]
      /\ \A e \in DomIds \ {Global, d} : ts_proc'[p][e] = ts_proc[p][e]
  BY <1>1 DEF Seed, TypeOK
<1>6. ProcSound'
  <2>1. \A e \in DomIds : know'[p][e] \subseteq te_labels(ts_proc'[p][e], e)
    BY <1>1, <1>4, <1>5 DEF te_labels
  <2>. QED
    BY <1>1, <1>2, <1>3, <2>1 DEF ProcHalf, ProcSound, TypeOK
<1>7. Unknowing'
  BY <1>2, <1>3 DEF ProcHalf, Unknowing, ByDom
<1>8. Absent'
  BY <1>3, <1>5 DEF ProcHalf, Absent
<1>. QED
  BY <1>6, <1>7, <1>8 DEF ProcHalf

(* bind_child_domain adds the child domain's own labels to what a process  *)
(* carries already.                                                        *)
LEMMA BindLabelSound ==
  ASSUME OneChain, TrackInv, ProcHalf, NEW pp \in Pids, NEW p \in Pids,
         NEW d \in Doms, bind_child_domain(pp, p, d)
  PROVE  ProcHalf'
<1>1. TypeOK /\ d # Global /\ d \in DomIds
  BY DomainAssumption DEF TrackInv, LifeInv, DomIds
<1>2. managed' = managed \cup {p}
  BY DEF bind_child_domain
<1>3. \A q \in Pids \ {p} : know'[q] = know[q] /\ ts_proc'[q] = ts_proc[q]
  BY <1>1 DEF bind_child_domain, TypeOK
<1>4. know'[p][d] = CapLabels[d]
  BY <1>1 DEF bind_child_domain, TypeOK, LabelMap
<1>5. ts_proc'[p][d] = [in |-> TRUE, labels |-> {}, lin |-> {}]
  BY <1>1 DEF bind_child_domain, TypeOK
<1>6. \A e \in DomIds \ {d} : /\ know'[p][e] = know[p][e]
                              /\ ts_proc'[p][e] = ts_proc[p][e]
  BY <1>1 DEF bind_child_domain, TypeOK, LabelMap
<1>7. \A e \in DomIds : know[p][e] \subseteq te_labels(ts_proc[p][e], e)
  BY DEF ProcHalf, ProcSound, Unknowing, ByDom
<1>8. ProcSound'
  <2>1. \A e \in DomIds : know'[p][e] \subseteq te_labels(ts_proc'[p][e], e)
    BY <1>1, <1>4, <1>5, <1>6, <1>7 DEF te_labels
  <2>. QED
    BY <1>1, <1>2, <1>3, <2>1 DEF ProcHalf, ProcSound, TypeOK
<1>9. Unknowing'
  BY <1>2, <1>3 DEF ProcHalf, Unknowing, ByDom
<1>10. Absent'
  BY <1>3, <1>5, <1>6 DEF ProcHalf, Absent
<1>. QED
  BY <1>8, <1>9, <1>10 DEF ProcHalf

(* te_fork copies every label the child is known to inherit.               *)
LEMMA ForkLabelSound ==
  ASSUME OneChain, TrackInv, ProcHalf, NEW p \in Pids, NEW c \in Pids,
         Fork(p, c)
  PROVE  ProcHalf'
<1>1. TypeOK
  BY DEF TrackInv, LifeInv
<1>2. /\ os[c] = "free" /\ te_fork(p, c)
      /\ managed' = IF p \in managed THEN managed \cup {c} ELSE managed \ {c}
      /\ know' = [know EXCEPT ![c] = IF p \in managed THEN know[p]
                                     ELSE ByDom({})]
  BY DEF Fork
<1>3. c \notin managed
  BY <1>2, BoundIsManaged
<1>4. \A q \in Pids \ {c} : know'[q] = know[q] /\ ts_proc'[q] = ts_proc[q]
  BY <1>1, <1>2 DEF te_fork, TypeOK
<1>5. know'[c] = IF p \in managed THEN know[p] ELSE ByDom({})
  BY <1>1, <1>2 DEF TypeOK
<1>6. \A d \in DomIds :
        \/ ts_proc'[c][d] = ts_proc[c][d] /\ ~ts_proc[p][d].in
        \/ ts_proc'[c][d] = ts_proc[p][d]
        \/ p \notin managed /\ ts_proc'[c][d] = ts_proc[c][d]
  <2>1. CASE ~te_pid_active(p)
    BY <1>2, <2>1, BoundIsManaged DEF te_fork
  <2>2. CASE te_pid_active(p)
    <3>1. Chain(p) = DomIds
      BY <2>2, BoundIsManaged
    <3>2. ts_proc'[c] = [d \in DomIds |->
            IF d \in Chain(p) /\ ts_proc[p][d].in
            THEN ts_proc[p][d] ELSE ts_proc[c][d]]
      BY <1>1, <1>2, <2>2 DEF te_fork, TypeOK
    <3>. QED
      BY <3>1, <3>2
  <2>. QED
    BY <2>1, <2>2
<1>7. Absent'
  BY <1>4, <1>6 DEF ProcHalf, Absent
<1>8. Unknowing'
  BY <1>2, <1>3, <1>4, <1>5 DEF ProcHalf, Unknowing, ByDom
<1>9. ProcSound'
  <2>1. ASSUME p \in managed, NEW d \in DomIds
        PROVE  know[p][d] \subseteq te_labels(ts_proc'[c][d], d)
    <3>1. know[p][d] \subseteq te_labels(ts_proc[p][d], d)
      BY <2>1 DEF ProcHalf, ProcSound
    <3>2. CASE ts_proc'[c][d] = ts_proc[p][d]
      BY <3>1, <3>2
    <3>3. CASE ~ts_proc[p][d].in
      <4>1. ts_proc[p][d].labels = {}
        BY <3>3 DEF ProcHalf, Absent
      <4>2. know[p][d] \subseteq (IF d = Global THEN {} ELSE CapLabels[d])
        BY <3>1, <4>1 DEF te_labels
      <4>. QED
        BY <4>2 DEF te_labels
    <3>. QED
      BY <1>6, <2>1, <3>2, <3>3
  <2>2. \A q \in managed' :
          (q = c /\ p \in managed) \/ (q \in managed /\ q # c)
    BY <1>2, <1>3
  <2>3. managed \subseteq Pids
    BY <1>1 DEF TypeOK
  <2>. QED
    BY <1>4, <1>5, <2>1, <2>2, <2>3 DEF ProcHalf, ProcSound
<1>. QED
  BY <1>7, <1>8, <1>9 DEF ProcHalf

(* An exit forgets the process whose entries it deletes.                   *)
LEMMA ExitLabelSound ==
  ASSUME OneChain, TrackInv, ProcHalf, NEW p \in Pids, NEW status,
         Exit(p, status)
  PROVE  ProcHalf'
<1>1. TypeOK
  BY DEF TrackInv, LifeInv
<1>2. /\ te_exit(p, status) /\ managed' = managed \ {p}
      /\ know' = [know EXCEPT ![p] = ByDom({})]
  BY DEF Exit
<1>3. \A q \in Pids \ {p} : know'[q] = know[q] /\ ts_proc'[q] = ts_proc[q]
  BY <1>1, <1>2 DEF te_exit, TypeOK
<1>4. know'[p] = ByDom({})
  BY <1>1, <1>2 DEF TypeOK
<1>5. \A d \in DomIds : \/ ts_proc'[p][d] = NoProc
                        \/ ts_proc'[p][d] = ts_proc[p][d]
  BY <1>1, <1>2 DEF te_exit, Cleared, TypeOK
<1>6. ProcSound'
  BY <1>1, <1>2, <1>3 DEF ProcHalf, ProcSound, TypeOK
<1>7. Unknowing'
  BY <1>2, <1>3, <1>4 DEF ProcHalf, Unknowing, ByDom
<1>8. Absent'
  BY <1>3, <1>5 DEF ProcHalf, Absent, NoProc
<1>. QED
  BY <1>6, <1>7, <1>8 DEF ProcHalf

(* An exec adds and removes the same labels in the maps and in what the    *)
(* process is known to have.                                               *)
LEMMA ExecLabelSound ==
  ASSUME OneChain, TrackInv, ProcHalf, NEW p \in Pids, NEW x \in Progs,
         Exec(p, x)
  PROVE  ProcHalf'
<1>1. TypeOK /\ managed' = managed
  BY DEF TrackInv, LifeInv, Exec, bindVars
<1>2. \A q \in Pids \ {p} : know'[q] = know[q]
  BY <1>1 DEF Exec, TypeOK
<1>3. CASE ~te_pid_active(p)
  <2>1. ts_proc' = ts_proc
    BY <1>3 DEF Exec
  <2>2. know' = know
    BY <1>1, <1>3 DEF Exec, TypeOK, LabelMap
  <2>. QED
    BY <1>1, <2>1, <2>2, NoProcess
<1>4. CASE te_pid_active(p)
  <2>1. Chain(p) = DomIds /\ p \in managed
    BY <1>4, BoundIsManaged
  <2>2. \A q \in Pids \ {p} : ts_proc'[q] = ts_proc[q]
    <3>1. PICK pr : ts_proc' = [ts_proc EXCEPT ![p] = pr]
      BY <1>4 DEF Exec
    <3>. QED
      BY <1>1, <3>1 DEF TypeOK
  <2>3. \A d \in DomIds :
          ts_proc'[p][d] =
            [in |-> TRUE,
             labels |-> (ts_proc[p][d].labels \cup AddOf("exec", x, d))
                          \ DelOf("exec", x, d),
             lin |-> ts_proc[p][d].lin \cup GatesOf("exec", x, d)]
    BY <1>1, <1>4, <2>1 DEF Exec, TypeOK
  <2>4. \A d \in DomIds :
          know'[p][d] = (know[p][d] \cup AddOf("exec", x, d))
                          \ DelOf("exec", x, d)
    BY <1>1, <1>4, <2>1 DEF Exec, TypeOK
  <2>5. \A d \in DomIds : know'[p][d] \subseteq te_labels(ts_proc'[p][d], d)
    <3>. DEFINE add(d) == AddOf("exec", x, d)
                del(d) == DelOf("exec", x, d)
    <3>. SUFFICES ASSUME NEW d \in DomIds
                  PROVE  know'[p][d] \subseteq te_labels(ts_proc'[p][d], d)
      OBVIOUS
    <3>1. know[p][d] \subseteq te_labels(ts_proc[p][d], d)
      BY <2>1 DEF ProcHalf, ProcSound
    <3>2. ts_proc'[p][d] =
            [in |-> TRUE,
             labels |-> (ts_proc[p][d].labels \cup add(d)) \ del(d),
             lin |-> ts_proc[p][d].lin \cup GatesOf("exec", x, d)]
      BY <2>3
    <3>3. know'[p][d] = (know[p][d] \cup add(d)) \ del(d)
      BY <2>4
    <3>. HIDE DEF add, del
    <3>4. ts_proc'[p][d].labels = (ts_proc[p][d].labels \cup add(d)) \ del(d)
      BY <3>2
    <3>. QED
      BY <3>1, <3>3, <3>4 DEF te_labels
  <2>6. ASSUME NEW d \in DomIds
        PROVE  ts_proc'[p][d].in = TRUE
    <3>. DEFINE L == (ts_proc[p][d].labels \cup AddOf("exec", x, d))
                       \ DelOf("exec", x, d)
                G == ts_proc[p][d].lin \cup GatesOf("exec", x, d)
    <3>1. ts_proc'[p][d] = [in |-> TRUE, labels |-> L, lin |-> G]
      BY <2>3
    <3>. HIDE DEF L, G
    <3>. QED
      BY <3>1
  <2>. QED
    BY <1>1, <1>2, <2>1, <2>2, <2>5, <2>6, OneProcess
<1>. QED
  BY <1>3, <1>4

(* A process that absorbs more labels than it is known to learn keeps the  *)
(* process half.                                                           *)
LEMMA AbsorbSound ==
  ASSUME TypeOK, ProcHalf, NEW p \in managed, managed' = managed,
         NEW L \in LabelMap, NEW K \in LabelMap,
         \A d \in DomIds : K[d] \subseteq L[d],
         ts_proc' = [ts_proc EXCEPT ![p] =
           [d \in DomIds |-> te_add_labels(ts_proc[p][d], L[d])]],
         know' = [know EXCEPT ![p] = Join(know[p], K)]
  PROVE  ProcHalf'
<1>1. p \in Pids
  BY DEF TypeOK
<1>2. \A q \in Pids \ {p} : know'[q] = know[q] /\ ts_proc'[q] = ts_proc[q]
  BY <1>1 DEF TypeOK
<1>3. \A d \in DomIds :
        /\ ts_proc'[p][d] = te_add_labels(ts_proc[p][d], L[d])
        /\ know'[p][d] = know[p][d] \cup K[d]
  BY <1>1 DEF TypeOK, Join
<1>4. \A d \in DomIds : know'[p][d] \subseteq te_labels(ts_proc'[p][d], d)
  <2>. SUFFICES ASSUME NEW d \in DomIds
                PROVE  know'[p][d] \subseteq te_labels(ts_proc'[p][d], d)
    OBVIOUS
  <2>1. know[p][d] \subseteq te_labels(ts_proc[p][d], d)
    BY DEF ProcHalf, ProcSound
  <2>2. ts_proc'[p][d] = te_add_labels(ts_proc[p][d], L[d])
    BY <1>3
  <2>3. ts_proc'[p][d].labels = ts_proc[p][d].labels \cup L[d]
    BY <2>2 DEF te_add_labels
  <2>. QED
    BY <1>3, <2>1, <2>3 DEF te_labels
<1>5. \A d \in DomIds : ~ts_proc'[p][d].in => ts_proc'[p][d].labels = {}
  <2>. SUFFICES ASSUME NEW d \in DomIds, ~ts_proc'[p][d].in
                PROVE  ts_proc'[p][d].labels = {}
    OBVIOUS
  <2>0. ts_proc'[p][d] = te_add_labels(ts_proc[p][d], L[d])
    BY <1>3
  <2>1. ~ts_proc[p][d].in /\ L[d] = {}
    <3>1. ts_proc[p][d].in \in BOOLEAN
      BY <1>1 DEF TypeOK, ProcType
    <3>2. ts_proc'[p][d].in = (ts_proc[p][d].in \/ L[d] # {})
      BY <2>0 DEF te_add_labels
    <3>. QED
      BY <3>1, <3>2
  <2>2. ts_proc[p][d].labels = {}
    BY <1>1, <2>1 DEF ProcHalf, Absent
  <2>. QED
    BY <2>0, <2>1, <2>2 DEF te_add_labels
<1>. QED
  BY <1>1, <1>2, <1>4, <1>5, OneProcess

(* trace_connect and the receive of te_handle_net_ip add to the process    *)
(* what it is known to learn.                                              *)
LEMMA NetLabelSound ==
  ASSUME OneChain, TrackInv, ProcHalf, NEW p \in Pids, NEW e \in Endps,
         Connect(p, e) \/ Recv(p, e)
  PROVE  ProcHalf'
<1>1. TypeOK /\ p \in managed
  BY BoundIsManaged DEF TrackInv, LifeInv, Connect, Recv
<1>2. managed' = managed
  BY DEF Connect, Recv, bindVars
<1>3. CASE Connect(p, e)
  <2>. DEFINE src == Sources("connect", e, p)
  <2>1. src \in LabelMap
    BY <1>1, FlowTypes
  <2>2. /\ ts_proc' = [ts_proc EXCEPT ![p] =
             [d \in DomIds |-> te_add_labels(ts_proc[p][d], src[d])]]
        /\ know' = [know EXCEPT ![p] = Join(know[p], src)]
    BY <1>3 DEF Connect
  <2>. HIDE DEF src
  <2>. QED
    BY <1>1, <1>2, <2>1, <2>2, AbsorbSound
<1>4. CASE Recv(p, e)
  <2>. DEFINE src == Sources("recv", e, p)
              stored == [d \in DomIds |-> IF d \in Chain(p) THEN ts_endp[e][d]
                                          ELSE {}]
              seen == Join(stored, src)
  <2>1. src \in LabelMap /\ stored \in LabelMap
    BY <1>1, FlowTypes DEF TypeOK, LabelMap
  <2>2. seen \in LabelMap
    <3>. HIDE DEF src, stored
    <3>. QED
      BY <2>1, JoinType
  <2>3. /\ ts_proc' = [ts_proc EXCEPT ![p] =
             [d \in DomIds |-> te_add_labels(ts_proc[p][d], seen[d])]]
        /\ know' = [know EXCEPT ![p] = Join(know[p], seen)]
    BY <1>4 DEF Recv
  <2>. HIDE DEF seen
  <2>. QED
    BY <1>1, <1>2, <2>2, <2>3, AbsorbSound
<1>. QED
  BY <1>3, <1>4

(* What handle_open_exit does with labels, domain by domain.               *)
LEMMA OpenEffects ==
  ASSUME OneChain, LabelInv, NEW p \in Pids, NEW f \in Paths, NEW acc,
         NEW i \in Inodes, Open(p, f, acc, i), te_pid_active(p)
  PROVE  \E L \in LabelMap, K \in LabelMap :
           /\ \A d \in DomIds : K[d] \subseteq L[d]
           /\ ts_proc' = [ts_proc EXCEPT ![p] =
                [d \in DomIds |-> te_add_labels(ts_proc[p][d], L[d])]]
           /\ know' = [know EXCEPT ![p] = Join(know[p], K)]
           /\ \A q \in FileIds : q # i => ts_file'[q] = ts_file[q]
           /\ \A q \in Inodes : q # i => held'[q] = held[q]
           /\ \A d \in DomIds : held'[i][d] \subseteq ts_file'[i][d]
<1>. DEFINE rd == "read" \in acc
            wr == "write" \in acc
            src == Sources("open", f, p)
            obj == Join(Join(ts_file[i], Promoted(p, f)), src)
            seen == [d \in DomIds |-> IF rd /\ d \in Chain(p) THEN obj[d]
                                      ELSE {}]
            pr == [d \in DomIds |-> te_add_labels(ts_proc[p][d], seen[d])]
            out == [d \in DomIds |-> IF wr /\ d \in Chain(p)
                                     THEN te_labels(pr[d], d) ELSE {}]
            had == Join(IF at[f] = i THEN held[i] ELSE ByDom({}), src)
            K == [d \in DomIds |-> IF rd /\ d \in Chain(p) THEN had[d] ELSE {}]
            learn == [d \in DomIds |-> know[p][d] \cup
                        (IF rd /\ d \in Chain(p) THEN had[d] ELSE {})]
<1>1. TypeOK /\ Chain(p) = DomIds /\ p \in managed
  BY BoundIsManaged DEF LabelInv, TrackInv, LifeInv
<1>2. /\ ts_file' = [ts_file EXCEPT ![i] = Join(obj, out)]
      /\ ts_proc' = [ts_proc EXCEPT ![p] = pr]
      /\ know' = [know EXCEPT ![p] = learn]
      /\ held' = [held EXCEPT ![i] = IF wr THEN Join(had, learn) ELSE had]
  BY DEF Open
<1>3. src \in LabelMap /\ Promoted(p, f) \in LabelMap
  BY <1>1, FlowTypes
<1>4. /\ ts_file[i] \in LabelMap /\ held[i] \in LabelMap
      /\ ByDom({}) \in LabelMap
  BY <1>1 DEF TypeOK, FileIds, LabelMap, ByDom
<1>5. obj \in LabelMap /\ had \in LabelMap
  <2>. HIDE DEF src
  <2>. QED
    BY <1>3, <1>4, JoinType
<1>6. \A d \in DomIds : had[d] \subseteq obj[d]
  <2>. SUFFICES ASSUME NEW d \in DomIds PROVE had[d] \subseteq obj[d]
    OBVIOUS
  <2>1. at[f] = i => held[i][d] \subseteq ts_file[i][d] \cup ts_file[f][d]
    BY PidAssumption DEF LabelInv, FileHalf, FileSound
  <2>2. Promoted(p, f)[d] = ts_file[f][d]
    BY <1>1 DEF Promoted
  <2>3. obj[d] = ts_file[i][d] \cup ts_file[f][d] \cup src[d]
    BY <2>2 DEF Join
  <2>4. had[d] = (IF at[f] = i THEN held[i][d] ELSE {}) \cup src[d]
    BY DEF Join, ByDom
  <2>. HIDE DEF src, obj, had
  <2>. QED
    BY <2>1, <2>3, <2>4
<1>. HIDE DEF src, obj, had
<1>7. seen \in LabelMap /\ K \in LabelMap
  BY <1>5 DEF LabelMap
<1>8. \A d \in DomIds : K[d] \subseteq seen[d]
  BY <1>6
<1>9. learn = Join(know[p], K)
  BY DEF Join
<1>10. \A d \in DomIds : learn[d] \subseteq te_labels(pr[d], d)
  <2>. SUFFICES ASSUME NEW d \in DomIds
                PROVE  learn[d] \subseteq te_labels(pr[d], d)
    OBVIOUS
  <2>1. know[p][d] \subseteq te_labels(ts_proc[p][d], d)
    BY <1>1 DEF LabelInv, ProcHalf, ProcSound
  <2>2. pr[d].labels = ts_proc[p][d].labels \cup seen[d]
    BY DEF te_add_labels
  <2>3. learn[d] = know[p][d] \cup K[d]
    OBVIOUS
  <2>. HIDE DEF learn, pr, seen, K
  <2>. QED
    BY <1>8, <2>1, <2>2, <2>3 DEF te_labels
<1>11. \A d \in DomIds : held'[i][d] \subseteq ts_file'[i][d]
  <2>. SUFFICES ASSUME NEW d \in DomIds
                PROVE  held'[i][d] \subseteq ts_file'[i][d]
    OBVIOUS
  <2>1. ts_file'[i][d] = obj[d] \cup out[d]
    BY <1>1, <1>2 DEF TypeOK, FileIds, Join
  <2>2. held'[i][d] = IF wr THEN had[d] \cup learn[d] ELSE had[d]
    BY <1>1, <1>2 DEF TypeOK, Join
  <2>3. wr => out[d] = te_labels(pr[d], d)
    BY <1>1
  <2>. HIDE DEF learn, pr, out, wr
  <2>. QED
    BY <1>6, <1>10, <2>1, <2>2, <2>3
<1>12. /\ \A q \in FileIds : q # i => ts_file'[q] = ts_file[q]
       /\ \A q \in Inodes : q # i => held'[q] = held[q]
  BY <1>1, <1>2 DEF TypeOK
<1>13. ts_proc' = [ts_proc EXCEPT ![p] =
         [d \in DomIds |-> te_add_labels(ts_proc[p][d], seen[d])]]
  BY <1>2
<1>. HIDE DEF seen, K, learn, pr
<1>. QED
  BY <1>2, <1>5, <1>7, <1>8, <1>9, <1>11, <1>12, <1>13

(* handle_open_exit: the reader absorbs what the file is known to hold,    *)
(* under its path or its inode, and the file what its writer knows.        *)
LEMMA OpenLabelSound ==
  ASSUME OneChain, LabelInv, NEW p \in Pids, NEW f \in Paths, NEW acc,
         NEW i \in Inodes, Open(p, f, acc, i)
  PROVE  ProcHalf' /\ FileHalf'
<1>1. TypeOK /\ managed' = managed
  BY DEF LabelInv, TrackInv, LifeInv, Open, bindVars
<1>2. /\ at' = [at EXCEPT ![f] = i]
      /\ at[f] = i \/ \A b \in Paths : at[b] # i
  BY DEF Open
<1>3. /\ at'[f] = i
      /\ \A b \in Paths : b # f => at'[b] = at[b] /\ at[b] # i
  BY <1>1, <1>2, PidAssumption DEF TypeOK, LabelInv, FileHalf, OneName
<1>4. OneName'
  BY <1>3 DEF LabelInv, FileHalf, OneName
<1>5. ASSUME \A q \in FileIds : q # i => ts_file'[q] = ts_file[q],
             \A q \in Inodes : q # i => held'[q] = held[q],
             \A d \in DomIds : held'[i][d] \subseteq ts_file'[i][d]
                                                      \cup ts_file'[f][d]
      PROVE  FileHalf'
  <2>1. ASSUME NEW b \in Paths, NEW d \in DomIds, b # f, at'[b] # NoInode
        PROVE  held'[at'[b]][d] \subseteq ts_file'[at'[b]][d]
                                           \cup ts_file'[b][d]
    <3>1. at'[b] = at[b] /\ at[b] # i /\ at[b] \in Inodes
      BY <1>1, <1>3, <2>1 DEF TypeOK
    <3>2. b \in FileIds /\ b # i /\ at[b] \in FileIds
      BY <3>1, PidAssumption DEF FileIds
    <3>3. held[at[b]][d] \subseteq ts_file[at[b]][d] \cup ts_file[b][d]
      BY <2>1, <3>1 DEF LabelInv, FileHalf, FileSound
    <3>. QED
      BY <1>5, <3>1, <3>2, <3>3
  <2>. QED
    BY <1>3, <1>4, <1>5, <2>1 DEF FileHalf, FileSound
<1>6. CASE te_pid_active(p)
  <2>1. p \in managed
    BY <1>6, BoundIsManaged DEF LabelInv
  <2>2. PICK L \in LabelMap, K \in LabelMap :
           /\ \A d \in DomIds : K[d] \subseteq L[d]
           /\ ts_proc' = [ts_proc EXCEPT ![p] =
                [d \in DomIds |-> te_add_labels(ts_proc[p][d], L[d])]]
           /\ know' = [know EXCEPT ![p] = Join(know[p], K)]
           /\ \A q \in FileIds : q # i => ts_file'[q] = ts_file[q]
           /\ \A q \in Inodes : q # i => held'[q] = held[q]
           /\ \A d \in DomIds : held'[i][d] \subseteq ts_file'[i][d]
    BY <1>6, OpenEffects
  <2>3. ProcHalf'
    BY <1>1, <2>1, <2>2, AbsorbSound DEF LabelInv
  <2>4. FileHalf'
    BY <1>5, <2>2
  <2>. QED
    BY <2>3, <2>4
<1>7. CASE ~te_pid_active(p)
  <2>1. /\ ts_proc' = ts_proc /\ know' = know /\ ts_file' = ts_file
        /\ held' = [held EXCEPT ![i] = IF at[f] = i THEN held[i] ELSE ByDom({})]
    BY <1>7 DEF Open
  <2>2. ProcHalf'
    BY <1>1, <2>1, NoProcess DEF LabelInv
  <2>3. \A d \in DomIds : held'[i][d] \subseteq ts_file'[i][d]
                                                 \cup ts_file'[f][d]
    <3>1. CASE at[f] = i
      BY <1>1, <2>1, <3>1, PidAssumption
      DEF TypeOK, LabelInv, FileHalf, FileSound
    <3>2. CASE at[f] # i
      BY <1>1, <2>1, <3>2 DEF TypeOK, ByDom
    <3>. QED
      BY <3>1, <3>2
  <2>4. FileHalf'
    BY <1>1, <1>5, <2>1, <2>3 DEF TypeOK
  <2>. QED
    BY <2>2, <2>4
<1>. QED
  BY <1>6, <1>7

(* A write event by path only adds labels, and for a bound process adds    *)
(* the sources it materializes and the writer's own labels.                *)
LEMMA PathWriteGrows ==
  ASSUME TypeOK, NEW p \in Pids, NEW f \in Paths, NEW src \in LabelMap,
         PathWrite(p, f, src)
  PROVE  /\ \A q \in FileIds, d \in DomIds :
              ts_file[q][d] \subseteq ts_file'[q][d]
         /\ te_pid_active(p) => \A d \in DomIds :
              src[d] \cup Own(p)[d] \subseteq ts_file'[f][d]
<1>1. CASE ~te_pid_active(p)
  BY <1>1 DEF PathWrite
<1>2. CASE te_pid_active(p)
  <2>1. ts_file' = [ts_file EXCEPT ![f] =
          Join(Join(ts_file[f], src), Own(p))]
    BY <1>2 DEF PathWrite
  <2>2. f \in FileIds
    BY DEF FileIds
  <2>3. ts_file'[f] = Join(Join(ts_file[f], src), Own(p))
    BY <2>1, <2>2 DEF TypeOK
  <2>4. \A d \in DomIds :
          ts_file'[f][d] = ts_file[f][d] \cup src[d] \cup Own(p)[d]
    BY <2>3 DEF Join
  <2>5. \A q \in FileIds : q # f => ts_file'[q] = ts_file[q]
    BY <2>1 DEF TypeOK
  <2>. QED
    BY <2>4, <2>5
<1>. QED
  BY <1>1, <1>2

(* A file half survives more labels in ts_file and names that disappear.   *)
LEMMA FilesGrow ==
  ASSUME TypeOK, FileHalf, held' = held,
         \A q \in FileIds, d \in DomIds : ts_file[q][d] \subseteq ts_file'[q][d],
         \A b \in Paths : at'[b] = at[b] \/ at'[b] = NoInode
  PROVE  FileHalf'
<1>1. OneName'
  BY DEF FileHalf, OneName
<1>2. ASSUME NEW b \in Paths, NEW d \in DomIds, at'[b] # NoInode
      PROVE  held'[at'[b]][d] \subseteq ts_file'[at'[b]][d] \cup ts_file'[b][d]
  <2>1. at'[b] = at[b] /\ at[b] \in FileIds /\ b \in FileIds
    BY <1>2 DEF TypeOK, FileIds
  <2>2. held[at[b]][d] \subseteq ts_file[at[b]][d] \cup ts_file[b][d]
    BY <1>2, <2>1 DEF FileHalf, FileSound
  <2>. QED
    BY <2>1, <2>2
<1>. QED
  BY <1>1, <1>2 DEF FileHalf, FileSound

(* trace_unlink records the writer's labels and takes a name away.         *)
LEMMA UnlinkLabelSound ==
  ASSUME LabelInv, NEW p \in Pids, NEW f \in Paths, NEW ok \in BOOLEAN,
         Unlink(p, f, ok)
  PROVE  ProcHalf' /\ FileHalf'
<1>1. TypeOK
  BY DEF LabelInv, TrackInv, LifeInv
<1>2. /\ managed' = managed /\ ts_proc' = ts_proc
      /\ know' = know /\ held' = held
  BY DEF Unlink, bindVars
<1>3. \A b \in Paths : at'[b] = at[b] \/ at'[b] = NoInode
  BY <1>1 DEF Unlink, TypeOK
<1>4. \A q \in FileIds, d \in DomIds : ts_file[q][d] \subseteq ts_file'[q][d]
  <2>1. ByDom({}) \in LabelMap
    BY DEF ByDom, LabelMap
  <2>2. PathWrite(p, f, ByDom({}))
    BY DEF Unlink
  <2>. QED
    BY <1>1, <2>1, <2>2, PathWriteGrows
<1>5. ProcHalf'
  BY <1>2, NoProcess DEF LabelInv
<1>. QED
  BY <1>1, <1>2, <1>3, <1>4, <1>5, FilesGrow DEF LabelInv

(* trace_truncate_exit records under the path what the file now holds.     *)
LEMMA TruncateLabelSound ==
  ASSUME OneChain, LabelInv, NEW p \in Pids, NEW f \in Paths, Truncate(p, f)
  PROVE  ProcHalf' /\ FileHalf'
<1>. DEFINE src == Sources("open", f, p)
            i == at[f]
<1>1. TypeOK
  BY DEF LabelInv, TrackInv, LifeInv
<1>2. managed' = managed /\ ts_proc' = ts_proc /\ know' = know /\ at' = at
  BY DEF Truncate, bindVars
<1>3. i \in Inodes /\ src \in LabelMap
  BY <1>1, FlowTypes DEF Truncate, TypeOK
<1>4. PathWrite(p, f, src)
  BY DEF Truncate
<1>5. held' = [held EXCEPT ![i] =
         IF te_pid_active(p) THEN Join(Join(held[i], src), know[p])
         ELSE held[i]]
  BY DEF Truncate
<1>. HIDE DEF src
<1>6. \A q \in FileIds, d \in DomIds : ts_file[q][d] \subseteq ts_file'[q][d]
  BY <1>1, <1>3, <1>4, PathWriteGrows
<1>7. ProcHalf'
  BY <1>2, NoProcess DEF LabelInv
<1>8. CASE ~te_pid_active(p)
  <2>1. held' = held
    BY <1>1, <1>5, <1>8 DEF TypeOK
  <2>. QED
    BY <1>1, <1>2, <1>6, <1>7, <2>1, FilesGrow DEF LabelInv
<1>9. CASE te_pid_active(p)
  <2>1. Chain(p) = DomIds /\ p \in managed
    BY <1>9, BoundIsManaged DEF LabelInv
  <2>2. \A d \in DomIds : held'[i][d] = held[i][d] \cup src[d] \cup know[p][d]
    BY <1>1, <1>3, <1>5, <1>9 DEF TypeOK, Join
  <2>3. \A d \in DomIds : src[d] \cup Own(p)[d] \subseteq ts_file'[f][d]
    BY <1>1, <1>3, <1>4, <1>9, PathWriteGrows
  <2>4. \A d \in DomIds : know[p][d] \subseteq Own(p)[d]
    BY <2>1 DEF LabelInv, ProcHalf, ProcSound, Own
  <2>5. OneName'
    BY <1>2 DEF LabelInv, FileHalf, OneName
  <2>6. ASSUME NEW b \in Paths, NEW d \in DomIds, at[b] # NoInode
        PROVE  held'[at[b]][d] \subseteq ts_file'[at[b]][d] \cup ts_file'[b][d]
    <3>1. at[b] \in Inodes /\ at[b] \in FileIds /\ b \in FileIds
      BY <1>1, <2>6 DEF TypeOK, FileIds
    <3>2. held[at[b]][d] \subseteq ts_file[at[b]][d] \cup ts_file[b][d]
      BY <2>6 DEF LabelInv, FileHalf, FileSound
    <3>3. CASE b # f
      <4>1. at[b] # i
        BY <2>6, <3>3 DEF LabelInv, FileHalf, OneName
      <4>2. held'[at[b]] = held[at[b]]
        BY <1>1, <1>5, <3>1, <4>1 DEF TypeOK
      <4>. QED
        BY <1>6, <3>1, <3>2, <4>2
    <3>4. CASE b = f
      <4>. HIDE DEF i
      <4>1. at[b] = i
        BY <3>4 DEF i
      <4>. QED
        BY <1>6, <2>2, <2>3, <2>4, <3>1, <3>2, <3>4, <4>1
    <3>. QED
      BY <3>3, <3>4
  <2>7. FileSound'
    BY <1>2, <2>6 DEF FileSound
  <2>. QED
    BY <1>7, <2>5, <2>7 DEF FileHalf
<1>. QED
  BY <1>8, <1>9

(* te_handle_rename_exit: labels recorded under a path follow the file the *)
(* path named, and the sources of the old names are materialized first.    *)
LEMMA RenameLabelSound ==
  ASSUME OneChain, LabelInv, NEW p \in Pids, NEW a \in Paths, NEW b \in Paths,
         NEW exchange \in BOOLEAN, Rename(p, a, b, exchange)
  PROVE  ProcHalf' /\ FileHalf'
<1>. DEFINE srcA == Sources("open", a, p)
            srcB == Sources("open", b, p)
            fa == Join(Join(ts_file[a], srcA), Own(p))
            fb == Join(Join(ts_file[b], IF exchange THEN srcB ELSE ByDom({})),
                       Own(p))
            inA == [d \in DomIds |-> IF d \notin Chain(p) THEN ts_file[a][d]
                                     ELSE IF exchange THEN fb[d] ELSE {}]
            inB == [d \in DomIds |-> IF d \notin Chain(p) THEN ts_file[b][d]
                                     ELSE fa[d]]
            more(x) == [d \in DomIds |->
                          (IF x = at[a] THEN srcA[d] ELSE {})
                            \cup (IF exchange /\ x = at[b] THEN srcB[d] ELSE {})]
<1>1. TypeOK /\ FileSound /\ OneName
  BY DEF LabelInv, TrackInv, LifeInv, FileHalf
<1>2. managed' = managed /\ ts_proc' = ts_proc /\ know' = know
  BY DEF Rename, bindVars
<1>3. /\ a # b /\ at[a] # NoInode
      /\ exchange => at[b] # NoInode
      /\ at' = [at EXCEPT ![b] = at[a],
                          ![a] = IF exchange THEN at[b] ELSE NoInode]
  BY DEF Rename
<1>4. /\ at'[b] = at[a]
      /\ at'[a] = IF exchange THEN at[b] ELSE NoInode
      /\ \A c \in Paths : c # a /\ c # b => at'[c] = at[c]
  BY <1>1, <1>3 DEF TypeOK
<1>5. at[a] # at[b]
  BY <1>1, <1>3 DEF OneName
<1>6. ProcHalf'
  BY <1>2, NoProcess DEF LabelInv
<1>7. OneName'
  <2>1. ASSUME NEW c \in Paths, NEW e \in Paths, at'[c] = at'[e],
               at'[c] # NoInode
        PROVE  c = e
    BY <1>1, <1>3, <1>4, <1>5, <2>1 DEF OneName
  <2>. QED
    BY <2>1 DEF OneName
<1>8. at[a] \in Inodes /\ (exchange => at[b] \in Inodes)
  BY <1>1, <1>3 DEF TypeOK
<1>9. \A c \in Paths : c # a /\ c # b /\ at[c] # NoInode
        => at[c] \in Inodes /\ at[c] # at[a] /\ at[c] # at[b]
  BY <1>1 DEF TypeOK, OneName
<1>10. \A c \in Paths : \A x \in Inodes : c # x
  BY PidAssumption
<1>11. CASE ~te_pid_active(p)
  <2>1. /\ ts_file' = ts_file
        /\ held' = [x \in Inodes |->
             IF x = at[a] \/ (exchange /\ x = at[b]) THEN ByDom({})
             ELSE held[x]]
    BY <1>11 DEF Rename
  <2>2. FileSound'
    <3>1. ASSUME NEW c \in Paths, NEW d \in DomIds, at'[c] # NoInode
          PROVE  held'[at'[c]][d] \subseteq ts_file'[at'[c]][d]
                                             \cup ts_file'[c][d]
      <4>1. CASE c = a \/ c = b
        <5>1. at'[c] \in Inodes /\ held'[at'[c]] = ByDom({})
          BY <1>4, <1>8, <2>1, <3>1, <4>1
        <5>. QED
          BY <5>1 DEF ByDom
      <4>2. CASE c # a /\ c # b
        BY <1>1, <1>4, <1>9, <2>1, <3>1, <4>2 DEF FileSound
      <4>. QED
        BY <4>1, <4>2
    <3>. QED
      BY <3>1 DEF FileSound
  <2>. QED
    BY <1>6, <1>7, <2>2 DEF FileHalf
<1>12. CASE te_pid_active(p)
  <2>1. Chain(p) = DomIds
    BY <1>12, BoundIsManaged DEF LabelInv
  <2>2. /\ ts_file' = [ts_file EXCEPT ![a] = inA, ![b] = inB]
        /\ held' = [x \in Inodes |-> Join(held[x], more(x))]
    BY <1>12 DEF Rename
  <2>. HIDE DEF srcA, srcB
  <2>3. \A d \in DomIds :
          /\ ts_file[a][d] \cup srcA[d] \subseteq inB[d]
          /\ exchange => ts_file[b][d] \cup srcB[d] \subseteq inA[d]
    BY <2>1 DEF Join
  <2>4. \A x \in Inodes, d \in DomIds :
          held'[x][d] = held[x][d]
                          \cup (IF x = at[a] THEN srcA[d] ELSE {})
                          \cup (IF exchange /\ x = at[b] THEN srcB[d] ELSE {})
    BY <2>2 DEF Join
  <2>. HIDE DEF fa, fb, inA, inB, more
  <2>5. /\ ts_file'[a] = inA /\ ts_file'[b] = inB
        /\ \A q \in FileIds : q # a /\ q # b => ts_file'[q] = ts_file[q]
    BY <1>1, <1>3, <2>2 DEF TypeOK, FileIds
  <2>6. ASSUME NEW c \in Paths, NEW d \in DomIds, at'[c] # NoInode
        PROVE  held'[at'[c]][d] \subseteq ts_file'[at'[c]][d]
                                           \cup ts_file'[c][d]
    <3>1. CASE c = b
      <4>1. held'[at[a]][d] = held[at[a]][d] \cup srcA[d]
        BY <1>5, <1>8, <2>4
      <4>2. held[at[a]][d] \subseteq ts_file[at[a]][d] \cup ts_file[a][d]
        BY <1>1, <1>3 DEF FileSound
      <4>3. ts_file'[at[a]] = ts_file[at[a]]
        BY <1>8, <1>10, <2>5 DEF FileIds
      <4>. QED
        BY <1>4, <2>3, <2>5, <3>1, <4>1, <4>2, <4>3
    <3>2. CASE c = a
      <4>1. exchange /\ at'[c] = at[b]
        BY <1>4, <2>6, <3>2
      <4>2. held'[at[b]][d] = held[at[b]][d] \cup srcB[d]
        BY <1>5, <1>8, <2>4, <4>1
      <4>3. held[at[b]][d] \subseteq ts_file[at[b]][d] \cup ts_file[b][d]
        BY <1>1, <1>3, <4>1 DEF FileSound
      <4>4. ts_file'[at[b]] = ts_file[at[b]]
        BY <1>8, <1>10, <2>5, <4>1 DEF FileIds
      <4>. QED
        BY <2>3, <2>5, <3>2, <4>1, <4>2, <4>3, <4>4
    <3>3. CASE c # a /\ c # b
      <4>1. /\ at'[c] = at[c] /\ at[c] \in Inodes
            /\ at[c] # at[a] /\ at[c] # at[b]
        BY <1>4, <1>9, <2>6, <3>3
      <4>. DEFINE x == at[c]
      <4>2. held'[x][d] = held[x][d]
        <5>1. x \in Inodes /\ x # at[a] /\ x # at[b]
          BY <4>1
        <5>. HIDE DEF x
        <5>2. held'[x][d] = held[x][d] \cup {} \cup {}
          BY <2>4, <5>1
        <5>. QED
          BY <5>2
      <4>3. held[at[c]][d] \subseteq ts_file[at[c]][d] \cup ts_file[c][d]
        BY <1>1, <2>6, <4>1 DEF FileSound
      <4>4. ts_file'[at[c]] = ts_file[at[c]] /\ ts_file'[c] = ts_file[c]
        BY <1>10, <2>5, <3>3, <4>1 DEF FileIds
      <4>. QED
        BY <4>1, <4>2, <4>3, <4>4
    <3>. QED
      BY <3>1, <3>2, <3>3
  <2>7. FileSound'
    BY <2>6 DEF FileSound
  <2>. QED
    BY <1>6, <1>7, <2>7 DEF FileHalf
<1>. QED
  BY <1>11, <1>12

(* Nothing is claimed at first.                                            *)
LEMMA InitLabel == Init => LabelInv
<1>. SUFFICES ASSUME Init PROVE LabelInv
  OBVIOUS
<1>1. TrackInv
  BY InitTrack
<1>2. ProcHalf
  <2>1. managed = {} /\ know = [p \in Pids |-> ByDom({})]
    BY DEF Init
  <2>2. \A p \in Pids, d \in DomIds : ts_proc[p][d] = NoProc
    BY DEF Init, ByDom
  <2>. QED
    BY <2>1, <2>2 DEF ProcHalf, ProcSound, Unknowing, Absent, NoProc
<1>3. OneName
  <2>1. PICK files \in SUBSET Paths, f \in [Paths -> Inodes] :
          /\ \A a, b \in files : f[a] = f[b] => a = b
          /\ at = [a \in Paths |-> IF a \in files THEN f[a] ELSE NoInode]
    BY DEF Init
  <2>. QED
    BY <2>1 DEF OneName
<1>4. FileSound
  <2>1. \A x \in Inodes, d \in DomIds : held[x][d] = {}
    BY DEF Init, ByDom
  <2>2. \A f \in Paths : at[f] # NoInode => at[f] \in Inodes
    BY InitType DEF TypeOK
  <2>. QED
    BY <2>1, <2>2 DEF FileSound
<1>. QED
  BY <1>1, <1>2, <1>3, <1>4 DEF LabelInv, FileHalf

(* Every step keeps the invariant.                                         *)
LEMMA NextLabel ==
  ASSUME Threads = {}, IsFiniteSet(Pids), Cardinality(Pids) <= TaskCap, OneChain
  PROVE  LabelInv /\ [Next]_vars => LabelInv'
<1>. SUFFICES ASSUME LabelInv, [Next]_vars PROVE ProcHalf' /\ FileHalf'
  BY NextTrack DEF LabelInv
<1>1. TrackInv /\ ProcHalf /\ FileHalf
  BY DEF LabelInv
<1>2. ASSUME UNCHANGED <<at, ts_file, held>>, ProcHalf'
      PROVE  ProcHalf' /\ FileHalf'
  BY <1>1, <1>2, NoFile
<1>3. ASSUME UNCHANGED vars
      PROVE  ProcHalf' /\ FileHalf'
  BY <1>1, <1>3, NoFile, NoProcess DEF vars
<1>4. ASSUME NEW p \in Pids, NEW d \in Doms, Seed(p, d)
      PROVE  ProcHalf' /\ FileHalf'
  BY <1>1, <1>2, <1>4, SeedLabelSound DEF Seed, osVars, flowVars
<1>5. ASSUME NEW pp \in Pids, NEW p \in Pids, NEW d \in Doms,
             bind_child_domain(pp, p, d)
      PROVE  ProcHalf' /\ FileHalf'
  BY <1>1, <1>2, <1>5, BindLabelSound DEF bind_child_domain, osVars, flowVars
<1>6. ASSUME NEW p \in Pids, NEW c \in Pids, Fork(p, c)
      PROVE  ProcHalf' /\ FileHalf'
  BY <1>1, <1>2, <1>6, ForkLabelSound DEF Fork, flowVars
<1>7. /\ \A p, t \in Pids : ~CloneThread(p, t)
      /\ \A t \in Pids : ~ThreadExit(t)
      /\ \A p \in Pids : \A st : ~LeaderExit(p, st)
  <2>1. Alone
    BY <1>1 DEF TrackInv, LifeInv
  <2>. QED
    BY <2>1, RunsAlone DEF CloneThread, ThreadExit, LeaderExit, Alone
<1>8. ASSUME NEW p \in Pids, NEW st, Exit(p, st)
      PROVE  ProcHalf' /\ FileHalf'
  BY <1>1, <1>2, <1>8, ExitLabelSound DEF Exit, flowVars
<1>9. ASSUME NEW p \in Pids, NEW x \in Progs, Exec(p, x)
      PROVE  ProcHalf' /\ FileHalf'
  BY <1>1, <1>2, <1>9, ExecLabelSound DEF Exec, flowVars
<1>10. ASSUME NEW p \in Pids, NEW f \in Paths, NEW acc \in Accesses,
              NEW i \in Inodes, Open(p, f, acc, i)
       PROVE  ProcHalf' /\ FileHalf'
  BY <1>10, OpenLabelSound
<1>11. ASSUME NEW p \in Pids, NEW f \in Paths, NEW ok \in BOOLEAN,
              Unlink(p, f, ok)
       PROVE  ProcHalf' /\ FileHalf'
  BY <1>11, UnlinkLabelSound
<1>12. ASSUME NEW p \in Pids, NEW f \in Paths, Truncate(p, f)
       PROVE  ProcHalf' /\ FileHalf'
  BY <1>12, TruncateLabelSound
<1>13. ASSUME NEW p \in Pids, NEW a \in Paths, NEW b \in Paths,
              NEW x \in BOOLEAN, Rename(p, a, b, x)
       PROVE  ProcHalf' /\ FileHalf'
  BY <1>13, RenameLabelSound
<1>14. ASSUME NEW p \in Pids, NEW e \in Endps, Connect(p, e)
       PROVE  ProcHalf' /\ FileHalf'
  BY <1>1, <1>2, <1>14, NetLabelSound DEF Connect
<1>15. ASSUME NEW p \in Pids, NEW e \in Endps, Recv(p, e)
       PROVE  ProcHalf' /\ FileHalf'
  BY <1>1, <1>2, <1>15, NetLabelSound DEF Recv, flowVars
<1>. QED
  BY <1>3, <1>4, <1>5, <1>6, <1>7, <1>8, <1>9, <1>10, <1>11, <1>12, <1>13,
     <1>14, <1>15 DEF Next

(* LabelSound: in a runtime without threads and child domains, with room   *)
(* in cap_task for every pid, a process and the file a path names carry    *)
(* every label whose information reached them, whatever the order of       *)
(* forks, execs, opens, renames, unlinks and reuse of pids and inodes.     *)
THEOREM LabelsAreKept ==
  ASSUME Threads = {}, IsFiniteSet(Pids), Cardinality(Pids) <= TaskCap, OneChain
  PROVE  Spec => []LabelSound
<1>1. LabelInv /\ [Next]_vars => LabelInv'
  BY NextLabel
<1>2. LabelInv => LabelSound
  BY DEF LabelInv, ProcHalf, ProcSound, FileHalf, FileSound, LabelSound
<1>. QED
  BY <1>1, <1>2, InitLabel, PTL DEF Spec
============================================================================
