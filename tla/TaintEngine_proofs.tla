------------------------ MODULE TaintEngine_proofs -------------------------
(***************************************************************************)
(* Proofs about TaintEngine for every policy, every set of processes and   *)
(* domains and every bound: the maps keep their types, and a `since' gate  *)
(* that te_after_satisfied accepts is never stale.                         *)
(***************************************************************************)
EXTENDS TaintEngine, TLAPS

----------------------------------------------------------------------------
(* The operators of TaintPolicy.                                           *)

(* What a matching set of update rows contributes is made of known bits.   *)
LEMMA RowTypes ==
  ASSUME NEW op, NEW o, NEW d
  PROVE  /\ AddOf(op, o, d) \subseteq Labels
         /\ DelOf(op, o, d) \subseteq Labels
         /\ GatesOf(op, o, d) \subseteq Gates
         /\ ExitGatesOf(op, o, d) \subseteq Gates
         /\ InvalsOf(op, o, d) \subseteq Invals
<1>1. \A u \in Updates :
        /\ u.add \subseteq Labels /\ u.del \subseteq Labels
        /\ u.gates \subseteq Gates /\ u.invals \subseteq Invals
  BY TableAssumption DEF UpdateType
<1>2. Hits(op, o, d) \subseteq Updates
  BY DEF Hits
<1>. QED
  BY <1>1, <1>2 DEF AddOf, DelOf, GatesOf, ExitGatesOf, InvalsOf

(* An exit opens only gates that were pending.                             *)
LEMMA ExitGateHitsType ==
  ASSUME NEW d, NEW pending, NEW status
  PROVE  te_exit_gate_hits(d, pending, status) \subseteq pending
BY DEF te_exit_gate_hits

(* The domains a process is evaluated in are domain ids, and the global    *)
(* domain is always one of them.                                           *)
LEMMA DomainsType ==
  ASSUME NEW d \in DomIds
  PROVE  te_domains[d] \subseteq DomIds /\ Global \in te_domains[d]
BY DEF te_domains, DomIds

(* Labels of a process, and the entry te_add_labels leaves.                *)
LEMMA ProcTypes ==
  ASSUME NEW ps \in ProcType, NEW d \in DomIds, NEW add \in SUBSET Labels
  PROVE  /\ te_labels(ps, d) \subseteq Labels
         /\ te_add_labels(ps, add) \in ProcType
BY DomainAssumption DEF ProcType, te_labels, te_add_labels, DomIds

----------------------------------------------------------------------------
(* One session.                                                            *)

(* No stamp is ahead of the session's own clock.                           *)
Clocked(s) ==
  /\ \A g \in Gates : s.gate[g] <= s.epoch
  /\ \A i \in Invals : s.inval[i] <= s.epoch

(* The history c of a session's gates covers what its stamps say.          *)
Covers(s, c) ==
  \A g \in Gates, i \in Invals : s.gate[g] > s.inval[i] => i \in c[g]

(* A run that started at epoch e, with history pc, may be stamped in s.    *)
Stampable(e, s, pc) ==
  /\ e <= s.epoch
  /\ \A i \in Invals : e > s.inval[i] => i \in pc

(* The history of a session's gates after an event that hits G and I.      *)
After(c, G, I) == [g \in Gates |-> (IF g \in G THEN Invals ELSE c[g]) \ I]

(* The same when the gates G are stamped for a run with history pc.        *)
Inherit(c, G, pc) == [g \in Gates |-> IF g \in G THEN pc ELSE c[g]]

(* te_stamp keeps the type of a session.                                   *)
LEMMA StampType ==
  ASSUME NEW s \in SessType, NEW ep \in Nat,
         NEW G \in SUBSET Gates, NEW I \in SUBSET Invals
  PROVE  te_stamp(s, ep, G, I) \in SessType
BY DEF te_stamp, SessType

(* te_tick keeps the type of a session.                                    *)
LEMMA TickType ==
  ASSUME NEW s \in SessType
  PROVE  /\ te_tick(s) \in SessType
         /\ te_tick(s).epoch = s.epoch + 1
         /\ te_tick(s).gate = s.gate
         /\ te_tick(s).inval = s.inval
BY DEF te_tick, SessType

(* An event keeps a session's clock and its history in step, and leaves    *)
(* every pending run as stampable as the event's own invalidators allow.   *)
LEMMA EventSound ==
  ASSUME NEW s \in SessType, Clocked(s),
         NEW c \in [Gates -> SUBSET Invals], Covers(s, c),
         NEW G \in SUBSET Gates, NEW I \in SUBSET Invals,
         NEW due \in BOOLEAN, G # {} \/ I # {} => due
  PROVE  LET t == te_event(s, due, G, I) IN
         /\ t \in SessType
         /\ Clocked(t)
         /\ After(c, G, I) \in [Gates -> SUBSET Invals]
         /\ Covers(t, After(c, G, I))
         /\ due => Stampable(t.epoch, t, Invals \ I)
         /\ \A e \in Nat, pc \in SUBSET Invals :
              Stampable(e, s, pc) => Stampable(e, t, pc \ I)
<1>. DEFINE t == te_event(s, due, G, I)
<1>1. After(c, G, I) \in [Gates -> SUBSET Invals]
  BY DEF After
<1>2. CASE ~due
  <2>1. t = s /\ G = {} /\ I = {}
    BY <1>2 DEF te_event
  <2>2. After(c, G, I) = c
    BY <2>1 DEF After
  <2>. QED
    BY <1>1, <1>2, <2>1, <2>2 DEF Stampable
<1>3. CASE due
  <2>1. t = te_stamp(te_tick(s), s.epoch + 1, G, I)
    BY <1>3 DEF te_event
  <2>2. s.epoch \in Nat /\ s.gate \in [Gates -> Nat] /\ s.inval \in [Invals -> Nat]
    BY DEF SessType
  <2>3. t \in SessType
    BY <2>1, <2>2, TickType, StampType
  <2>4. /\ t.epoch = s.epoch + 1
        /\ \A g \in Gates : t.gate[g] = IF g \in G THEN s.epoch + 1 ELSE s.gate[g]
        /\ \A i \in Invals : t.inval[i] = IF i \in I THEN s.epoch + 1 ELSE s.inval[i]
    BY <2>1, TickType DEF te_stamp
  <2>5. Clocked(t)
    BY <2>2, <2>4 DEF Clocked
  <2>6. Covers(t, After(c, G, I))
    BY <2>2, <2>4 DEF Clocked, Covers, After
  <2>7. Stampable(t.epoch, t, Invals \ I)
    BY <2>2, <2>4 DEF Stampable
  <2>8. \A e \in Nat, pc \in SUBSET Invals :
          Stampable(e, s, pc) => Stampable(e, t, pc \ I)
    BY <2>2, <2>4 DEF Stampable
  <2>. HIDE DEF t
  <2>. QED
    BY <1>1, <2>3, <2>5, <2>6, <2>7, <2>8 DEF t
<1>. QED
  BY <1>2, <1>3

(* A matching exit stamps its gates at the epoch of the run's exec, which  *)
(* is sound because the run's history is what the gate inherits.           *)
LEMMA ExitSound ==
  ASSUME NEW s \in SessType, Clocked(s),
         NEW c \in [Gates -> SUBSET Invals], Covers(s, c),
         NEW e \in Nat, NEW pc \in SUBSET Invals,
         NEW G \in SUBSET Gates, G # {} => Stampable(e, s, pc)
  PROVE  LET t == te_stamp(s, e, G, {})
             k == Inherit(c, G, pc) IN
         /\ t \in SessType
         /\ Clocked(t)
         /\ k \in [Gates -> SUBSET Invals]
         /\ Covers(t, k)
         /\ \A f \in Nat, qc \in SUBSET Invals :
              Stampable(f, s, qc) => Stampable(f, t, qc)
<1>. DEFINE t == te_stamp(s, e, G, {})
            k == Inherit(c, G, pc)
<1>1. t \in SessType
  BY StampType
<1>2. s.epoch \in Nat /\ s.gate \in [Gates -> Nat] /\ s.inval \in [Invals -> Nat]
  BY DEF SessType
<1>3. /\ t.epoch = s.epoch
      /\ \A g \in Gates : t.gate[g] = IF g \in G THEN e ELSE s.gate[g]
      /\ \A i \in Invals : t.inval[i] = s.inval[i]
  BY DEF te_stamp
<1>4. Clocked(t)
  BY <1>2, <1>3 DEF Clocked, Stampable
<1>5. k \in [Gates -> SUBSET Invals]
  BY DEF Inherit
<1>6. Covers(t, k)
  BY <1>2, <1>3 DEF Covers, Stampable, Inherit
<1>7. \A f \in Nat, qc \in SUBSET Invals :
        Stampable(f, s, qc) => Stampable(f, t, qc)
  BY <1>2, <1>3 DEF Stampable
<1>. HIDE DEF t, k
<1>. QED
  BY <1>1, <1>4, <1>5, <1>6, <1>7 DEF t, k

----------------------------------------------------------------------------
(* Type correctness.                                                       *)

(* The label maps the flow handlers build.                                 *)
LEMMA FlowTypes ==
  ASSUME TypeOK, NEW p \in Pids
  PROVE  /\ Chain(p) \subseteq DomIds
         /\ Sess(p) \in [DomIds -> SessType]
         /\ Own(p) \in LabelMap
         /\ \A op, o : Sources(op, o, p) \in LabelMap
         /\ \A f \in Paths : Promoted(p, f) \in LabelMap
<1>1. cap_task[p] \in DomIds /\ ts_root[p] \in Pids
  BY DEF TypeOK
<1>2. Chain(p) \subseteq DomIds
  BY <1>1, DomainsType DEF Chain
<1>3. Sess(p) \in [DomIds -> SessType]
  BY <1>1 DEF TypeOK, Sess
<1>4. Own(p) \in LabelMap
  <2>1. \A d \in DomIds : ts_proc[p][d] \in ProcType
    BY DEF TypeOK
  <2>2. \A d \in DomIds : te_labels(ts_proc[p][d], d) \subseteq Labels
    BY <2>1, ProcTypes
  <2>. QED
    BY <2>2 DEF Own, LabelMap
<1>5. \A op, o : Sources(op, o, p) \in LabelMap
  BY RowTypes DEF Sources, LabelMap
<1>6. \A f \in Paths : Promoted(p, f) \in LabelMap
  BY DEF TypeOK, Promoted, LabelMap, FileIds
<1>. QED
  BY <1>2, <1>3, <1>4, <1>5, <1>6

(* The union of two label maps is one.                                     *)
LEMMA JoinType ==
  ASSUME NEW F \in LabelMap, NEW H \in LabelMap
  PROVE  Join(F, H) \in LabelMap
BY DEF Join, LabelMap

(* A read or write event keeps the types of sessions and histories.        *)
LEMMA TouchTypes ==
  ASSUME TypeOK, NEW p \in Pids, NEW ss \in [DomIds -> SessType],
         NEW cl \in [DomIds -> [Gates -> SUBSET Invals]],
         NEW pc \in [Pids -> [DomIds -> SUBSET Invals]],
         NEW op, NEW o, NEW writes
  PROVE  /\ Touch(p, ss, op, o, writes) \in [DomIds -> SessType]
         /\ TouchClean(p, cl, op, o) \in [DomIds -> [Gates -> SUBSET Invals]]
         /\ TouchPclean(p, pc, op, o) \in [Pids -> [DomIds -> SUBSET Invals]]
<1>1. ASSUME NEW s \in SessType, NEW due \in BOOLEAN,
             NEW G \in SUBSET Gates, NEW I \in SUBSET Invals
      PROVE  te_event(s, due, G, I) \in SessType
  <2>1. s.epoch + 1 \in Nat
    BY DEF SessType
  <2>. QED
    BY <2>1, TickType, StampType DEF te_event
<1>2. Touch(p, ss, op, o, writes) \in [DomIds -> SessType]
  <2>1. ASSUME NEW d \in DomIds
        PROVE  te_event(ss[d], \/ GatesOf(op, o, d) # {}
                               \/ InvalsOf(op, o, d) # {}
                               \/ writes[d] # {},
                        GatesOf(op, o, d), InvalsOf(op, o, d)) \in SessType
    BY <1>1, RowTypes
  <2>. QED
    BY <2>1 DEF Touch
<1>3. TouchClean(p, cl, op, o) \in [DomIds -> [Gates -> SUBSET Invals]]
  BY DEF TouchClean
<1>4. TouchPclean(p, pc, op, o) \in [Pids -> [DomIds -> SUBSET Invals]]
  BY DEF TouchPclean
<1>. QED
  BY <1>2, <1>3, <1>4

(* The maps start empty.                                                   *)
LEMMA InitType == Init => TypeOK
<1>. SUFFICES ASSUME Init PROVE TypeOK
  OBVIOUS
<1>1. NoProc \in ProcType /\ NoPend \in PendType /\ NoSess \in SessType
  BY DEF NoProc, NoPend, NoSess, ProcType, PendType, SessType
<1>2. os \in [Pids -> {"free", "leader", "husk", "thread"}]
  BY DEF Init
<1>3. tg \in [Pids -> Pids] /\ ts_root \in [Pids -> Pids]
  BY DEF Init
<1>4. at \in [Paths -> Inodes \cup {NoInode}]
  BY DEF Init
<1>5. cap_task \in [Pids -> DomIds]
  BY DEF Init, DomIds
<1>6. ts_proc \in [Pids -> [DomIds -> ProcType]]
  BY <1>1 DEF Init, ByDom
<1>7. ts_exit_gates \in [Pids -> [DomIds -> PendType]]
  BY <1>1 DEF Init, ByDom
<1>8. ts_sess \in [Pids -> [DomIds -> SessType]]
  BY <1>1 DEF Init, ByDom
<1>9. /\ ts_file \in [FileIds -> LabelMap]
      /\ ts_endp \in [Endps -> LabelMap]
      /\ know \in [Pids -> LabelMap]
      /\ held \in [Inodes -> LabelMap]
  BY DEF Init, ByDom, LabelMap
<1>10. /\ clean \in [Pids -> [DomIds -> [Gates -> SUBSET Invals]]]
       /\ pclean \in [Pids -> [DomIds -> SUBSET Invals]]
  BY DEF Init, ByDom
<1>11. /\ dying \in [Pids -> SUBSET Rules]
       /\ cap_state \subseteq Doms /\ managed \subseteq Pids
  BY DEF Init
<1>. QED
  BY <1>2, <1>3, <1>4, <1>5, <1>6, <1>7, <1>8, <1>9, <1>10, <1>11 DEF TypeOK

(* Putting a process under policy keeps the types.                         *)
LEMMA BindTypes ==
  ASSUME TypeOK, NEW p \in Pids, NEW d \in Doms,
         Seed(p, d) \/ \E pp \in Pids : bind_child_domain(pp, p, d)
  PROVE  TypeOK'
<1>1. /\ [in |-> TRUE, labels |-> SeedLabels, lin |-> {}] \in ProcType
      /\ [in |-> TRUE, labels |-> {}, lin |-> {}] \in ProcType
      /\ CapLabels[d] \subseteq Labels
      /\ Global \in DomIds /\ d \in DomIds
  BY PidAssumption, DomainAssumption DEF ProcType, DomIds
<1>2. CASE Seed(p, d)
  <2>1. ts_proc' \in [Pids -> [DomIds -> ProcType]]
    BY <1>1, <1>2 DEF Seed, TypeOK
  <2>2. know' \in [Pids -> LabelMap]
    BY <1>1, <1>2, PidAssumption DEF Seed, TypeOK, LabelMap
  <2>3. cap_task' \in [Pids -> DomIds] /\ ts_root' \in [Pids -> Pids]
    BY <1>1, <1>2 DEF Seed, TypeOK
  <2>4. cap_state' \subseteq Doms /\ managed' \subseteq Pids
    BY <1>2 DEF Seed, TypeOK
  <2>5. UNCHANGED <<os, tg, at, dying, gateVars, flowVars>>
    BY <1>2 DEF Seed, osVars
  <2>. QED
    BY <2>1, <2>2, <2>3, <2>4, <2>5 DEF TypeOK, gateVars, flowVars
<1>3. ASSUME NEW pp \in Pids, bind_child_domain(pp, p, d)
      PROVE  TypeOK'
  <2>1. ts_proc' \in [Pids -> [DomIds -> ProcType]]
    BY <1>1, <1>3 DEF bind_child_domain, TypeOK
  <2>2. know' \in [Pids -> LabelMap]
    BY <1>1, <1>3 DEF bind_child_domain, TypeOK, LabelMap
  <2>3. cap_task' \in [Pids -> DomIds] /\ ts_root' \in [Pids -> Pids]
    BY <1>1, <1>3 DEF bind_child_domain, TypeOK
  <2>. QED
    BY <1>3, <2>1, <2>2, <2>3
    DEF bind_child_domain, TypeOK, osVars, gateVars, flowVars
<1>. QED
  BY <1>2, <1>3

(* te_fork copies entries of the right type.                               *)
LEMMA ForkTypes ==
  ASSUME TypeOK, NEW p \in Pids, NEW c \in Pids, te_fork(p, c)
  PROVE  /\ cap_task' \in [Pids -> DomIds]
         /\ ts_root' \in [Pids -> Pids]
         /\ ts_proc' \in [Pids -> [DomIds -> ProcType]]
<1>1. CASE ~te_pid_active(p)
  BY <1>1 DEF te_fork, TypeOK
<1>2. CASE te_pid_active(p)
  <2>1. cap_task' = IF TaskRoom(c)
                    THEN [cap_task EXCEPT ![c] = cap_task[p]] ELSE cap_task
    BY <1>2 DEF te_fork
  <2>2. ts_proc' = [ts_proc EXCEPT ![c] =
          [d \in DomIds |-> IF d \in Chain(p) /\ ts_proc[p][d].in
                            THEN ts_proc[p][d] ELSE ts_proc[c][d]]]
    BY <1>2 DEF te_fork
  <2>3. ts_root' = [ts_root EXCEPT ![c] = ts_root[p]]
    BY <1>2 DEF te_fork
  <2>4. cap_task' \in [Pids -> DomIds]
    BY <2>1 DEF TypeOK
  <2>5. ts_proc' \in [Pids -> [DomIds -> ProcType]]
    BY <2>2 DEF TypeOK
  <2>6. ts_root' \in [Pids -> Pids]
    BY <2>3 DEF TypeOK
  <2>. QED
    BY <2>4, <2>5, <2>6
<1>. QED
  BY <1>1, <1>2

(* te_exit keeps the types of the maps it clears and stamps.               *)
LEMMA ExitTypes ==
  ASSUME TypeOK, NEW p \in Pids, NEW status, te_exit(p, status)
  PROVE  /\ cap_task' \in [Pids -> DomIds]
         /\ ts_root' \in [Pids -> Pids]
         /\ ts_proc' \in [Pids -> [DomIds -> ProcType]]
         /\ ts_exit_gates' \in [Pids -> [DomIds -> PendType]]
         /\ ts_sess' \in [Pids -> [DomIds -> SessType]]
         /\ clean' \in [Pids -> [DomIds -> [Gates -> SUBSET Invals]]]
         /\ pclean' \in [Pids -> [DomIds -> SUBSET Invals]]
<1>1. cap_task' \in [Pids -> DomIds]
  BY DEF te_exit, cap_exit, TypeOK, DomIds
<1>2. ts_root' \in [Pids -> Pids]
  BY DEF te_exit, TypeOK
<1>3. ts_proc' \in [Pids -> [DomIds -> ProcType]]
  <2>1. NoProc \in ProcType
    BY DEF NoProc, ProcType
  <2>. QED
    BY <2>1 DEF te_exit, TypeOK, Cleared
<1>4. ts_exit_gates' \in [Pids -> [DomIds -> PendType]]
  <2>1. NoPend \in PendType
    BY DEF NoPend, PendType
  <2>. QED
    BY <2>1 DEF te_exit, TypeOK, Cleared
<1>5. ts_sess' \in [Pids -> [DomIds -> SessType]]
  <2>1. ASSUME NEW d \in DomIds, NEW s \in SessType
        PROVE  te_stamp(s, ExitEpoch(p, d), ExitHits(p, d, status), {})
                 \in SessType
    <3>1. ts_exit_gates[p][d] \in PendType
      BY DEF TypeOK
    <3>2. ExitEpoch(p, d) \in Nat
      BY <3>1 DEF ExitEpoch, PendType
    <3>3. ExitHits(p, d, status) \in SUBSET Gates
      BY <3>1, ExitGateHitsType DEF ExitHits, PendType
    <3>. QED
      BY <3>2, <3>3, StampType
  <2>2. ts_root[p] \in Pids
    BY DEF TypeOK
  <2>. QED
    BY <2>1, <2>2 DEF te_exit, TypeOK
<1>6. clean' \in [Pids -> [DomIds -> [Gates -> SUBSET Invals]]]
  BY DEF te_exit, TypeOK
<1>7. pclean' \in [Pids -> [DomIds -> SUBSET Invals]]
  BY DEF te_exit, TypeOK, Cleared
<1>. QED
  BY <1>1, <1>2, <1>3, <1>4, <1>5, <1>6, <1>7

(* The lifecycle handlers keep the types.                                  *)
LEMMA LifecycleTypes ==
  ASSUME TypeOK, NEW p \in Pids, NEW c \in Pids, NEW status,
         \/ Fork(p, c) \/ CloneThread(p, c) \/ ThreadExit(c)
         \/ Exit(p, status) \/ LeaderExit(p, status)
  PROVE  TypeOK'
<1>1. CASE Fork(p, c)
  <2>1. know' \in [Pids -> LabelMap]
    BY <1>1 DEF Fork, TypeOK, LabelMap, ByDom
  <2>. QED
    BY <1>1, <2>1, ForkTypes DEF Fork, TypeOK, gateVars, flowVars
<1>2. CASE CloneThread(p, c)
  BY <1>2, ForkTypes DEF CloneThread, TypeOK, gateVars, flowVars
<1>3. CASE ThreadExit(c)
  BY <1>3 DEF ThreadExit, TypeOK, gateVars, flowVars
<1>4. CASE Exit(p, status)
  <2>1. know' \in [Pids -> LabelMap]
    BY <1>4 DEF Exit, TypeOK, LabelMap, ByDom
  <2>. QED
    BY <1>4, <2>1, ExitTypes DEF Exit, TypeOK, flowVars
<1>5. CASE LeaderExit(p, status)
  BY <1>5, ExitTypes DEF LeaderExit, TypeOK, flowVars
<1>. QED
  BY <1>1, <1>2, <1>3, <1>4, <1>5

(* Whatever the event, it is rules of the policy that kill.                *)
LEMMA KillersType ==
  ASSUME NEW p, NEW pr, NEW ss, NEW op, NEW o, NEW stored, NEW src,
         NEW fileRead \in BOOLEAN
  PROVE  Killers(p, pr, ss, op, o, stored, src, fileRead) \in SUBSET Rules
BY DEF Killers

(* A kill marks one process of the system, with rules.                     *)
LEMMA KillType ==
  ASSUME TypeOK, NEW p \in Pids, NEW rules \in SUBSET Rules, Kill(p, rules)
  PROVE  dying' \in [Pids -> SUBSET Rules]
BY DEF Kill, TypeOK

(* handle_exec_args and its tail calls keep the types.                     *)
LEMMA ExecType ==
  ASSUME TypeOK, NEW p \in Pids, NEW x \in Progs, Exec(p, x)
  PROVE  TypeOK'
<1>. DEFINE r == ts_root[p]
            gates(d) == GatesOf("exec", x, d)
            exits(d) == ExitGatesOf("exec", x, d)
            invals(d) == InvalsOf("exec", x, d)
            due(d) == gates(d) \cup exits(d) # {} \/ invals(d) # {}
            new(d) ==
               [in |-> TRUE,
                labels |-> (ts_proc[p][d].labels \cup AddOf("exec", x, d))
                             \ DelOf("exec", x, d),
                lin |-> ts_proc[p][d].lin \cup gates(d)]
            pr == [d \in DomIds |->
               IF d \in Chain(p) THEN new(d) ELSE ts_proc[p][d]]
            ss == [d \in DomIds |->
               IF d \in Chain(p)
               THEN te_event(ts_sess[r][d], due(d), gates(d), invals(d))
               ELSE ts_sess[r][d]]
<1>1. os' \in [Pids -> {"free", "leader", "husk", "thread"}]
  BY DEF Exec, TypeOK
<1>2. know' \in [Pids -> LabelMap]
  BY RowTypes DEF Exec, TypeOK, LabelMap
<1>3. UNCHANGED <<tg, at, bindVars, flowVars>>
  BY DEF Exec
<1>4. CASE ~te_pid_active(p)
  <2>1. UNCHANGED <<ts_proc, gateVars, dying>>
    BY <1>4 DEF Exec
  <2>. QED
    BY <1>1, <1>2, <1>3, <2>1 DEF TypeOK, bindVars, flowVars, gateVars
<1>5. CASE te_pid_active(p)
  <2>1. pr \in [DomIds -> ProcType]
    <3>1. ASSUME NEW d \in DomIds
          PROVE  new(d) \in ProcType
      <4>1. ts_proc[p][d] \in ProcType
        BY DEF TypeOK
      <4>. QED
        BY <4>1, RowTypes DEF ProcType
    <3>. HIDE DEF new
    <3>. QED
      BY <3>1 DEF TypeOK
  <2>2. r \in Pids
    BY DEF TypeOK
  <2>3. ss \in [DomIds -> SessType]
    <3>1. ASSUME NEW d \in DomIds
          PROVE  te_event(ts_sess[r][d], due(d), gates(d), invals(d)) \in SessType
      <4>1. ts_sess[r][d] \in SessType
        BY <2>2 DEF TypeOK
      <4>2. gates(d) \in SUBSET Gates /\ invals(d) \in SUBSET Invals
        BY RowTypes
      <4>3. ts_sess[r][d].epoch + 1 \in Nat
        BY <4>1 DEF SessType
      <4>. QED
        BY <4>1, <4>2, <4>3, TickType, StampType DEF te_event
    <3>. HIDE DEF due, gates, invals, r
    <3>. QED
      BY <2>2, <3>1 DEF TypeOK
  <2>4. ts_proc' \in [Pids -> [DomIds -> ProcType]]
    <3>1. ts_proc' = [ts_proc EXCEPT ![p] = pr]
      BY <1>5 DEF Exec
    <3>. HIDE DEF pr
    <3>. QED
      BY <2>1, <3>1 DEF TypeOK
  <2>5. ts_sess' \in [Pids -> [DomIds -> SessType]]
    <3>1. ts_sess' = [ts_sess EXCEPT ![r] = ss]
      BY <1>5 DEF Exec
    <3>. HIDE DEF ss, r
    <3>. QED
      BY <2>2, <2>3, <3>1 DEF TypeOK
  <2>6. ts_exit_gates' \in [Pids -> [DomIds -> PendType]]
    <3>1. ts_exit_gates' = [ts_exit_gates EXCEPT ![p] =
            [d \in DomIds |->
               IF d \notin Chain(p) THEN ts_exit_gates[p][d]
               ELSE IF exits(d) = {} THEN NoPend
               ELSE [gates |-> exits(d), epoch |-> ss[d].epoch]]]
      BY <1>5 DEF Exec
    <3>2. \A d \in DomIds : ss[d].epoch \in Nat
      <4>. HIDE DEF ss
      <4>. QED
        BY <2>3 DEF SessType
    <3>3. \A d \in DomIds : exits(d) \in SUBSET Gates
      BY RowTypes
    <3>. HIDE DEF ss, exits
    <3>. QED
      BY <3>1, <3>2, <3>3 DEF TypeOK, PendType, NoPend
  <2>7. clean' \in [Pids -> [DomIds -> [Gates -> SUBSET Invals]]]
    <3>1. clean' = [clean EXCEPT ![r] =
            [d \in DomIds |-> [g \in Gates |->
               IF d \notin Chain(p) THEN clean[r][d][g]
               ELSE (IF g \in gates(d) THEN Invals ELSE clean[r][d][g])
                      \ invals(d)]]]
      BY <1>5 DEF Exec
    <3>. HIDE DEF gates, invals, r
    <3>. QED
      BY <2>2, <3>1 DEF TypeOK
  <2>8. pclean' \in [Pids -> [DomIds -> SUBSET Invals]]
    <3>1. pclean' = [q \in Pids |-> [d \in DomIds |->
            IF d \notin Chain(p) \/ ts_root[q] # r THEN pclean[q][d]
            ELSE (IF q = p THEN Invals ELSE pclean[q][d]) \ invals(d)]]
      BY <1>5 DEF Exec
    <3>. HIDE DEF invals, r
    <3>. QED
      BY <3>1 DEF TypeOK
  <2>9. dying' \in [Pids -> SUBSET Rules]
    <3>1. Kill(p, Killers(p, pr, ss, "exec", x, ByDom({}), ByDom({}), FALSE))
      BY <1>5 DEF Exec
    <3>. HIDE DEF pr, ss
    <3>2. Killers(p, pr, ss, "exec", x, ByDom({}), ByDom({}), FALSE) \in SUBSET Rules
      BY KillersType
    <3>. QED
      BY <3>1, <3>2, KillType
  <2>. QED
    BY <1>1, <1>2, <1>3, <2>4, <2>5, <2>6, <2>7, <2>8, <2>9
    DEF TypeOK, bindVars, flowVars
<1>. QED
  BY <1>4, <1>5

(* handle_open_exit keeps the types.                                       *)
LEMMA OpenType ==
  ASSUME TypeOK, NEW p \in Pids, NEW f \in Paths, NEW acc \in Accesses,
         NEW i \in Inodes, Open(p, f, acc, i)
  PROVE  TypeOK'
<1>. DEFINE rd == "read" \in acc
            wr == "write" \in acc
            r == ts_root[p]
            src == Sources("open", f, p)
            obj == Join(Join(ts_file[i], Promoted(p, f)), src)
            seen == [d \in DomIds |->
                       IF rd /\ d \in Chain(p) THEN obj[d] ELSE {}]
            pr == [d \in DomIds |-> te_add_labels(ts_proc[p][d], seen[d])]
            out == [d \in DomIds |-> IF wr /\ d \in Chain(p)
                                     THEN te_labels(pr[d], d) ELSE {}]
            s1 == IF rd THEN Touch(p, Sess(p), "open", f, ByDom({})) ELSE Sess(p)
            c1 == IF rd THEN TouchClean(p, clean[r], "open", f) ELSE clean[r]
            q1 == IF rd THEN TouchPclean(p, pclean, "open", f) ELSE pclean
            had == Join(IF at[f] = i THEN held[i] ELSE ByDom({}), src)
            learn == [d \in DomIds |-> know[p][d] \cup
                        (IF rd /\ d \in Chain(p) THEN had[d] ELSE {})]
            kills(op) == Killers(p, ts_proc[p], Sess(p), op, f, seen,
                                IF rd THEN src ELSE ByDom({}), rd)
<1>1. /\ r \in Pids /\ i \in FileIds
      /\ ts_file[i] \in LabelMap /\ held[i] \in LabelMap
      /\ ByDom({}) \in LabelMap
  BY DEF TypeOK, FileIds, ByDom, LabelMap
<1>2. at' \in [Paths -> Inodes \cup {NoInode}]
  BY DEF Open, TypeOK
<1>3. UNCHANGED <<os, tg, bindVars, ts_exit_gates, ts_endp>>
  BY DEF Open
<1>4. src \in LabelMap /\ Promoted(p, f) \in LabelMap /\ Sess(p) \in [DomIds -> SessType]
  BY FlowTypes
<1>5. CASE ~te_pid_active(p)
  <2>1. UNCHANGED <<ts_file, ts_proc, ts_sess, clean, pclean, dying, know>>
    BY <1>5 DEF Open
  <2>2. held' = [held EXCEPT ![i] = IF at[f] = i THEN held[i] ELSE ByDom({})]
    BY <1>5 DEF Open
  <2>3. held' \in [Inodes -> LabelMap]
    BY <1>1, <2>2 DEF TypeOK
  <2>. QED
    BY <1>2, <1>3, <2>1, <2>3 DEF TypeOK, bindVars
<1>6. CASE te_pid_active(p)
  <2>1. obj \in LabelMap
    BY <1>1, <1>4, JoinType
  <2>2. seen \in LabelMap
    <3>. HIDE DEF obj
    <3>. QED
      BY <2>1 DEF LabelMap
  <2>3. pr \in [DomIds -> ProcType]
    <3>. HIDE DEF seen
    <3>1. \A d \in DomIds : ts_proc[p][d] \in ProcType /\ seen[d] \in SUBSET Labels
      BY <2>2 DEF TypeOK, LabelMap
    <3>. QED
      BY <3>1, ProcTypes
  <2>4. out \in LabelMap
    <3>. HIDE DEF pr
    <3>1. \A d \in DomIds : te_labels(pr[d], d) \subseteq Labels
      BY <2>3, ProcTypes
    <3>. QED
      BY <3>1 DEF LabelMap
  <2>5. had \in LabelMap
    <3>. HIDE DEF src
    <3>. QED
      BY <1>1, <1>4, JoinType
  <2>6. learn \in LabelMap
    <3>. HIDE DEF had
    <3>. QED
      BY <2>5 DEF LabelMap, TypeOK
  <2>7. /\ s1 \in [DomIds -> SessType]
        /\ c1 \in [DomIds -> [Gates -> SUBSET Invals]]
        /\ q1 \in [Pids -> [DomIds -> SUBSET Invals]]
    <3>1. /\ clean[r] \in [DomIds -> [Gates -> SUBSET Invals]]
          /\ pclean \in [Pids -> [DomIds -> SUBSET Invals]]
      BY <1>1 DEF TypeOK
    <3>. QED
      BY <1>4, <3>1, TouchTypes
  <2>8. ts_file' \in [FileIds -> LabelMap]
    <3>1. ts_file' = [ts_file EXCEPT ![i] = Join(obj, out)]
      BY <1>6 DEF Open
    <3>2. Join(obj, out) \in LabelMap
      BY <2>1, <2>4, JoinType
    <3>. HIDE DEF obj, out
    <3>. QED
      BY <3>1, <3>2 DEF TypeOK
  <2>9. ts_proc' \in [Pids -> [DomIds -> ProcType]]
    <3>1. ts_proc' = [ts_proc EXCEPT ![p] = pr]
      BY <1>6 DEF Open
    <3>. HIDE DEF pr
    <3>. QED
      BY <2>3, <3>1 DEF TypeOK
  <2>10. ts_sess' \in [Pids -> [DomIds -> SessType]]
    <3>1. ts_sess' = [ts_sess EXCEPT ![r] =
                        IF wr THEN Touch(p, s1, "write", f, out) ELSE s1]
      BY <1>6 DEF Open
    <3>. HIDE DEF s1, out, wr, r
    <3>2. Touch(p, s1, "write", f, out) \in [DomIds -> SessType]
      BY <2>7, TouchTypes
    <3>. QED
      BY <1>1, <2>7, <3>1, <3>2 DEF TypeOK
  <2>11. clean' \in [Pids -> [DomIds -> [Gates -> SUBSET Invals]]]
    <3>1. clean' = [clean EXCEPT ![r] =
                      IF wr THEN TouchClean(p, c1, "write", f) ELSE c1]
      BY <1>6 DEF Open
    <3>. HIDE DEF c1, wr, r
    <3>2. TouchClean(p, c1, "write", f) \in [DomIds -> [Gates -> SUBSET Invals]]
      BY <2>7, TouchTypes
    <3>. QED
      BY <1>1, <2>7, <3>1, <3>2 DEF TypeOK
  <2>12. pclean' \in [Pids -> [DomIds -> SUBSET Invals]]
    <3>1. pclean' = IF wr THEN TouchPclean(p, q1, "write", f) ELSE q1
      BY <1>6 DEF Open
    <3>. HIDE DEF q1, wr
    <3>. QED
      BY <2>7, <3>1, TouchTypes
  <2>13. dying' \in [Pids -> SUBSET Rules]
    <3>1. Kill(p, (IF rd THEN kills("open") ELSE {})
                   \cup (IF wr THEN kills("write") ELSE {}))
      BY <1>6 DEF Open
    <3>2. \A op : kills(op) \in SUBSET Rules
      BY DEF Killers
    <3>. HIDE DEF kills, rd, wr
    <3>. QED
      BY <3>1, <3>2, KillType
  <2>14. know' \in [Pids -> LabelMap]
    <3>1. know' = [know EXCEPT ![p] = learn]
      BY <1>6 DEF Open
    <3>. HIDE DEF learn
    <3>. QED
      BY <2>6, <3>1 DEF TypeOK
  <2>15. held' \in [Inodes -> LabelMap]
    <3>1. held' = [held EXCEPT ![i] = IF wr THEN Join(had, learn) ELSE had]
      BY <1>6 DEF Open
    <3>2. Join(had, learn) \in LabelMap
      BY <2>5, <2>6, JoinType
    <3>. HIDE DEF had, learn, wr
    <3>. QED
      BY <2>5, <3>1, <3>2 DEF TypeOK
  <2>. QED
    BY <1>2, <1>3, <2>8, <2>9, <2>10, <2>11, <2>12, <2>13, <2>14, <2>15
    DEF TypeOK, bindVars
<1>. QED
  BY <1>5, <1>6

(* A write event on a path's id keeps the types of what it writes.         *)
LEMMA PathWriteTypes ==
  ASSUME TypeOK, NEW p \in Pids, NEW f \in Paths, NEW src \in LabelMap,
         PathWrite(p, f, src)
  PROVE  /\ ts_file' \in [FileIds -> LabelMap]
         /\ ts_sess' \in [Pids -> [DomIds -> SessType]]
         /\ clean' \in [Pids -> [DomIds -> [Gates -> SUBSET Invals]]]
         /\ pclean' \in [Pids -> [DomIds -> SUBSET Invals]]
         /\ dying' \in [Pids -> SUBSET Rules]
<1>. DEFINE r == ts_root[p]
<1>1. r \in Pids /\ f \in FileIds /\ ts_file[f] \in LabelMap
  BY DEF TypeOK, FileIds
<1>4. CASE ~te_pid_active(p)
  <2>1. UNCHANGED <<ts_file, ts_sess, clean, pclean, dying>>
    BY <1>4 DEF PathWrite
  <2>. QED
    BY <2>1 DEF TypeOK
<1>5. CASE te_pid_active(p)
  <2>1. /\ ts_sess[r] \in [DomIds -> SessType]
        /\ clean[r] \in [DomIds -> [Gates -> SUBSET Invals]]
        /\ pclean \in [Pids -> [DomIds -> SUBSET Invals]]
    BY <1>1 DEF TypeOK
  <2>2. ts_file' \in [FileIds -> LabelMap]
    <3>1. ts_file' = [ts_file EXCEPT ![f] = Join(Join(ts_file[f], src), Own(p))]
      BY <1>5 DEF PathWrite
    <3>2. Join(Join(ts_file[f], src), Own(p)) \in LabelMap
      BY <1>1, FlowTypes, JoinType
    <3>. QED
      BY <3>1, <3>2 DEF TypeOK
  <2>3. ts_sess' \in [Pids -> [DomIds -> SessType]]
    <3>1. ts_sess' = [ts_sess EXCEPT ![r] =
                        Touch(p, ts_sess[r], "write", f, Own(p))]
      BY <1>5 DEF PathWrite
    <3>2. Touch(p, ts_sess[r], "write", f, Own(p)) \in [DomIds -> SessType]
      BY <2>1, TouchTypes
    <3>. QED
      BY <1>1, <3>1, <3>2 DEF TypeOK
  <2>4. clean' \in [Pids -> [DomIds -> [Gates -> SUBSET Invals]]]
    <3>1. clean' = [clean EXCEPT ![r] = TouchClean(p, clean[r], "write", f)]
      BY <1>5 DEF PathWrite
    <3>2. TouchClean(p, clean[r], "write", f)
            \in [DomIds -> [Gates -> SUBSET Invals]]
      BY <2>1, TouchTypes
    <3>. QED
      BY <1>1, <3>1, <3>2 DEF TypeOK
  <2>5. pclean' \in [Pids -> [DomIds -> SUBSET Invals]]
    <3>1. pclean' = TouchPclean(p, pclean, "write", f)
      BY <1>5 DEF PathWrite
    <3>. QED
      BY <2>1, <3>1, TouchTypes
  <2>6. dying' \in [Pids -> SUBSET Rules]
    <3>1. Kill(p, Killers(p, ts_proc[p], Sess(p), "write", f,
                          ByDom({}), ByDom({}), FALSE))
      BY <1>5 DEF PathWrite
    <3>. QED
      BY <3>1, KillersType, KillType
  <2>. QED
    BY <2>2, <2>3, <2>4, <2>5, <2>6
<1>. QED
  BY <1>4, <1>5

(* trace_unlink and trace_truncate_exit keep the types.                    *)
LEMMA UnlinkType ==
  ASSUME TypeOK, NEW p \in Pids, NEW f \in Paths, NEW ok \in BOOLEAN,
         Unlink(p, f, ok)
  PROVE  TypeOK'
<1>1. ByDom({}) \in LabelMap
  BY DEF ByDom, LabelMap
<1>2. PathWrite(p, f, ByDom({}))
  BY DEF Unlink
<1>3. at' \in [Paths -> Inodes \cup {NoInode}]
  BY DEF Unlink, TypeOK
<1>4. UNCHANGED <<os, tg, bindVars, ts_proc, ts_exit_gates, ts_endp, know, held>>
  BY DEF Unlink
<1>. QED
  BY <1>1, <1>2, <1>3, <1>4, PathWriteTypes DEF TypeOK, bindVars

LEMMA TruncateType ==
  ASSUME TypeOK, NEW p \in Pids, NEW f \in Paths, Truncate(p, f)
  PROVE  TypeOK'
<1>. DEFINE src == Sources("open", f, p)
<1>1. src \in LabelMap
  BY FlowTypes
<1>2. PathWrite(p, f, src)
  BY DEF Truncate
<1>3. UNCHANGED <<os, tg, at, bindVars, ts_proc, ts_exit_gates, ts_endp, know>>
  BY DEF Truncate
<1>4. at[f] \in Inodes
  BY DEF Truncate, TypeOK
<1>5. held[at[f]] \in LabelMap /\ know[p] \in LabelMap
  BY <1>4 DEF TypeOK
<1>6. Join(Join(held[at[f]], src), know[p]) \in LabelMap
  BY <1>1, <1>5, JoinType
<1>7. held' \in [Inodes -> LabelMap]
  <2>1. held' = [held EXCEPT ![at[f]] =
                   IF te_pid_active(p) THEN Join(Join(held[at[f]], src), know[p])
                   ELSE held[at[f]]]
    BY DEF Truncate
  <2>. QED
    BY <1>4, <1>5, <1>6, <2>1 DEF TypeOK
<1>. HIDE DEF src
<1>. QED
  BY <1>1, <1>2, <1>3, <1>7, PathWriteTypes DEF TypeOK, bindVars

(* te_handle_rename_exit keeps the types.                                  *)
LEMMA RenameType ==
  ASSUME TypeOK, NEW p \in Pids, NEW a \in Paths, NEW b \in Paths,
         NEW exchange \in BOOLEAN, Rename(p, a, b, exchange)
  PROVE  TypeOK'
<1>. DEFINE r == ts_root[p]
            fa == Join(Join(ts_file[a], Sources("open", a, p)), Own(p))
            fb == Join(Join(ts_file[b], IF exchange THEN Sources("open", b, p)
                                        ELSE ByDom({})), Own(p))
            inA == [d \in DomIds |-> IF d \notin Chain(p) THEN ts_file[a][d]
                                     ELSE IF exchange THEN fb[d] ELSE {}]
            inB == [d \in DomIds |-> IF d \notin Chain(p) THEN ts_file[b][d]
                                     ELSE fa[d]]
            s1 == Touch(p, Sess(p), "write", a, Own(p))
            kills(f, ss) == Killers(p, ts_proc[p], ss, "write", f,
                                   ByDom({}), ByDom({}), FALSE)
            intrinsic(x) == [d \in DomIds |->
                         (IF x = at[a] THEN Sources("open", a, p)[d] ELSE {})
                           \cup (IF exchange /\ x = at[b]
                                 THEN Sources("open", b, p)[d] ELSE {})]
<1>1. /\ r \in Pids /\ a \in FileIds /\ b \in FileIds
      /\ ts_file[a] \in LabelMap /\ ts_file[b] \in LabelMap
      /\ ByDom({}) \in LabelMap
  BY DEF TypeOK, FileIds, ByDom, LabelMap
<1>2. /\ Sources("open", a, p) \in LabelMap /\ Sources("open", b, p) \in LabelMap
      /\ Own(p) \in LabelMap /\ Sess(p) \in [DomIds -> SessType]
  BY FlowTypes
<1>3. at' \in [Paths -> Inodes \cup {NoInode}]
  BY DEF Rename, TypeOK
<1>4. UNCHANGED <<os, tg, bindVars, ts_proc, ts_exit_gates, ts_endp, know>>
  BY DEF Rename
<1>5. CASE ~te_pid_active(p)
  <2>1. UNCHANGED <<ts_file, ts_sess, clean, pclean, dying>>
    BY <1>5 DEF Rename
  <2>2. held' = [x \in Inodes |->
                   IF x = at[a] \/ (exchange /\ x = at[b]) THEN ByDom({})
                   ELSE held[x]]
    BY <1>5 DEF Rename
  <2>3. held' \in [Inodes -> LabelMap]
    BY <1>1, <2>2 DEF TypeOK
  <2>. QED
    BY <1>3, <1>4, <2>1, <2>3 DEF TypeOK, bindVars
<1>6. CASE te_pid_active(p)
  <2>1. fa \in LabelMap
    BY <1>1, <1>2, JoinType
  <2>2. fb \in LabelMap
    BY <1>1, <1>2, JoinType
  <2>3. ts_file' \in [FileIds -> LabelMap]
    <3>1. ts_file' = [ts_file EXCEPT ![a] = inA, ![b] = inB]
      BY <1>6 DEF Rename
    <3>2. inA \in LabelMap /\ inB \in LabelMap
      <4>. HIDE DEF fa, fb
      <4>. QED
        BY <1>1, <2>1, <2>2 DEF LabelMap
    <3>. HIDE DEF inA, inB
    <3>. QED
      BY <1>1, <3>1, <3>2 DEF TypeOK
  <2>4. ts_sess' \in [Pids -> [DomIds -> SessType]]
    <3>1. ts_sess' = [ts_sess EXCEPT ![r] = Touch(p, s1, "write", b, Own(p))]
      BY <1>6 DEF Rename
    <3>2. clean[r] \in [DomIds -> [Gates -> SUBSET Invals]]
          /\ pclean \in [Pids -> [DomIds -> SUBSET Invals]]
      BY <1>1 DEF TypeOK
    <3>3. s1 \in [DomIds -> SessType]
      BY <1>2, <3>2, TouchTypes
    <3>. HIDE DEF s1, r
    <3>4. Touch(p, s1, "write", b, Own(p)) \in [DomIds -> SessType]
      BY <3>2, <3>3, TouchTypes
    <3>. QED
      BY <1>1, <3>1, <3>4 DEF TypeOK
  <2>5. clean' \in [Pids -> [DomIds -> [Gates -> SUBSET Invals]]]
    <3>. DEFINE c1 == TouchClean(p, clean[r], "write", a)
    <3>1. clean' = [clean EXCEPT ![r] = TouchClean(p, c1, "write", b)]
      BY <1>6 DEF Rename
    <3>2. clean[r] \in [DomIds -> [Gates -> SUBSET Invals]]
          /\ pclean \in [Pids -> [DomIds -> SUBSET Invals]]
      BY <1>1 DEF TypeOK
    <3>3. c1 \in [DomIds -> [Gates -> SUBSET Invals]]
      BY <1>2, <3>2, TouchTypes
    <3>. HIDE DEF c1, r
    <3>4. TouchClean(p, c1, "write", b) \in [DomIds -> [Gates -> SUBSET Invals]]
      BY <1>2, <3>2, <3>3, TouchTypes
    <3>. QED
      BY <1>1, <3>1, <3>4 DEF TypeOK
  <2>6. pclean' \in [Pids -> [DomIds -> SUBSET Invals]]
    <3>. DEFINE q1 == TouchPclean(p, pclean, "write", a)
    <3>1. pclean' = TouchPclean(p, q1, "write", b)
      BY <1>6 DEF Rename
    <3>2. clean[r] \in [DomIds -> [Gates -> SUBSET Invals]]
          /\ pclean \in [Pids -> [DomIds -> SUBSET Invals]]
      BY <1>1 DEF TypeOK
    <3>3. q1 \in [Pids -> [DomIds -> SUBSET Invals]]
      BY <1>2, <3>2, TouchTypes
    <3>. HIDE DEF q1, r
    <3>. QED
      BY <1>2, <3>1, <3>2, <3>3, TouchTypes
  <2>7. dying' \in [Pids -> SUBSET Rules]
    <3>1. Kill(p, kills(a, Sess(p)) \cup kills(b, s1))
      BY <1>6 DEF Rename
    <3>2. kills(a, Sess(p)) \in SUBSET Rules /\ kills(b, s1) \in SUBSET Rules
      BY KillersType
    <3>. HIDE DEF kills, s1
    <3>. QED
      BY <3>1, <3>2, KillType
  <2>8. held' \in [Inodes -> LabelMap]
    <3>1. held' = [x \in Inodes |-> Join(held[x], intrinsic(x))]
      BY <1>6 DEF Rename
    <3>2. \A x \in Inodes : intrinsic(x) \in LabelMap
      BY <1>2 DEF LabelMap
    <3>. HIDE DEF intrinsic
    <3>3. \A x \in Inodes : Join(held[x], intrinsic(x)) \in LabelMap
      BY <3>2, JoinType DEF TypeOK
    <3>. QED
      BY <3>1, <3>3
  <2>. QED
    BY <1>3, <1>4, <2>3, <2>4, <2>5, <2>6, <2>7, <2>8 DEF TypeOK, bindVars
<1>. QED
  BY <1>5, <1>6

(* trace_connect keeps the types.                                          *)
LEMMA ConnectType ==
  ASSUME TypeOK, NEW p \in Pids, NEW e \in Endps, Connect(p, e)
  PROVE  TypeOK'
<1>. DEFINE src == Sources("connect", e, p)
            pr == [d \in DomIds |-> te_add_labels(ts_proc[p][d], src[d])]
            out == [d \in DomIds |-> IF d \in Chain(p)
                                     THEN te_labels(pr[d], d) ELSE {}]
<1>1. src \in LabelMap
  BY FlowTypes
<1>2. pr \in [DomIds -> ProcType]
  <2>. HIDE DEF src
  <2>1. \A d \in DomIds : ts_proc[p][d] \in ProcType /\ src[d] \in SUBSET Labels
    BY <1>1 DEF TypeOK, LabelMap
  <2>. QED
    BY <2>1, ProcTypes
<1>3. out \in LabelMap
  <2>. HIDE DEF pr
  <2>1. \A d \in DomIds : te_labels(pr[d], d) \subseteq Labels
    BY <1>2, ProcTypes
  <2>. QED
    BY <2>1 DEF LabelMap
<1>4. dying' \in [Pids -> SUBSET Rules]
  <2>1. Kill(p, Killers(p, ts_proc[p], Sess(p), "connect", e, ByDom({}), src, FALSE))
    BY DEF Connect
  <2>. QED
    BY <2>1, KillersType, KillType
<1>5. ts_proc' = [ts_proc EXCEPT ![p] = pr]
      /\ ts_endp' = [ts_endp EXCEPT ![e] = Join(ts_endp[e], out)]
      /\ know' = [know EXCEPT ![p] = Join(know[p], src)]
  BY DEF Connect
<1>6. UNCHANGED <<os, tg, at, bindVars, gateVars, ts_file, held>>
  BY DEF Connect
<1>. HIDE DEF src, pr, out
<1>7. ts_proc' \in [Pids -> [DomIds -> ProcType]]
  BY <1>2, <1>5 DEF TypeOK
<1>8. ts_endp' \in [Endps -> LabelMap]
  <2>1. Join(ts_endp[e], out) \in LabelMap
    BY <1>3, JoinType DEF TypeOK
  <2>. QED
    BY <1>5, <2>1 DEF TypeOK
<1>9. know' \in [Pids -> LabelMap]
  <2>1. Join(know[p], src) \in LabelMap
    BY <1>1, JoinType DEF TypeOK
  <2>. QED
    BY <1>5, <2>1 DEF TypeOK
<1>. QED
  BY <1>4, <1>6, <1>7, <1>8, <1>9 DEF TypeOK, bindVars, gateVars

(* te_handle_net_ip keeps the types on a receive.                          *)
LEMMA RecvType ==
  ASSUME TypeOK, NEW p \in Pids, NEW e \in Endps, Recv(p, e)
  PROVE  TypeOK'
<1>. DEFINE src == Sources("recv", e, p)
            stored == [d \in DomIds |->
                         IF d \in Chain(p) THEN ts_endp[e][d] ELSE {}]
            seen == Join(stored, src)
            pr == [d \in DomIds |-> te_add_labels(ts_proc[p][d], seen[d])]
<1>1. src \in LabelMap
  BY FlowTypes
<1>2. stored \in LabelMap
  BY DEF TypeOK, LabelMap
<1>3. seen \in LabelMap
  <2>. HIDE DEF stored, src
  <2>. QED
    BY <1>1, <1>2, JoinType
<1>4. pr \in [DomIds -> ProcType]
  <2>. HIDE DEF seen
  <2>1. \A d \in DomIds : ts_proc[p][d] \in ProcType /\ seen[d] \in SUBSET Labels
    BY <1>3 DEF TypeOK, LabelMap
  <2>. QED
    BY <2>1, ProcTypes
<1>5. dying' \in [Pids -> SUBSET Rules]
  <2>1. Kill(p, Killers(p, ts_proc[p], Sess(p), "recv", e, stored, src, FALSE))
    BY DEF Recv
  <2>. HIDE DEF stored, src
  <2>. QED
    BY <2>1, KillersType, KillType
<1>6. ts_proc' = [ts_proc EXCEPT ![p] = pr]
      /\ know' = [know EXCEPT ![p] = Join(know[p], seen)]
  BY DEF Recv
<1>7. UNCHANGED <<os, tg, at, bindVars, gateVars, flowVars>>
  BY DEF Recv
<1>. HIDE DEF seen, pr
<1>8. ts_proc' \in [Pids -> [DomIds -> ProcType]]
  BY <1>4, <1>6 DEF TypeOK
<1>9. know' \in [Pids -> LabelMap]
  <2>1. Join(know[p], seen) \in LabelMap
    BY <1>3, JoinType DEF TypeOK
  <2>. QED
    BY <1>6, <2>1 DEF TypeOK
<1>. QED
  BY <1>5, <1>7, <1>8, <1>9 DEF TypeOK, bindVars, gateVars, flowVars

(* Every step of the engine keeps the types.                               *)
LEMMA NextType == TypeOK /\ [Next]_vars => TypeOK'
<1>. SUFFICES ASSUME TypeOK, [Next]_vars PROVE TypeOK'
  OBVIOUS
<1>1. CASE UNCHANGED vars
  BY <1>1 DEF vars, TypeOK
<1>2. CASE \E p \in Pids, d \in Doms : Seed(p, d)
  BY <1>2, BindTypes
<1>3. CASE \E pp, p \in Pids, d \in Doms : bind_child_domain(pp, p, d)
  BY <1>3, BindTypes
<1>4. CASE \E p, c \in Pids : Fork(p, c)
  BY <1>4, LifecycleTypes
<1>5. CASE \E p, t \in Pids : CloneThread(p, t)
  BY <1>5, LifecycleTypes
<1>6. CASE \E t \in Pids : ThreadExit(t)
  BY <1>6, LifecycleTypes
<1>7. CASE \E p \in Pids, st \in Codes \cup {Signal} : Exit(p, st)
  BY <1>7, LifecycleTypes
<1>8. CASE \E p \in Pids, st \in Codes : LeaderExit(p, st)
  BY <1>8, LifecycleTypes
<1>9. CASE \E p \in Pids, x \in Progs : Exec(p, x)
  BY <1>9, ExecType
<1>10. CASE \E p \in Pids, f \in Paths, acc \in Accesses, i \in Inodes :
              Open(p, f, acc, i)
  BY <1>10, OpenType
<1>11. CASE \E p \in Pids, f \in Paths, ok \in BOOLEAN : Unlink(p, f, ok)
  BY <1>11, UnlinkType
<1>15. CASE \E p \in Pids, f \in Paths : Truncate(p, f)
  BY <1>15, TruncateType
<1>12. CASE \E p \in Pids, a, b \in Paths, x \in BOOLEAN : Rename(p, a, b, x)
  BY <1>12, RenameType
<1>13. CASE \E p \in Pids, e \in Endps : Connect(p, e)
  BY <1>13, ConnectType
<1>14. CASE \E p \in Pids, e \in Endps : Recv(p, e)
  BY <1>14, RecvType
<1>. QED
  BY <1>1, <1>2, <1>3, <1>4, <1>5, <1>6, <1>7, <1>8, <1>9, <1>10, <1>11,
     <1>12, <1>13, <1>14, <1>15 DEF Next

(* The BPF maps hold values of their types in every reachable state, for   *)
(* every compiled policy.                                                  *)
THEOREM TypeCorrect == Spec => []TypeOK
BY InitType, NextType, PTL DEF Spec

----------------------------------------------------------------------------
(* Gates are never stale.  The inductive invariant says three things of    *)
(* every session: no stamp is ahead of its clock, its gates' histories     *)
(* cover its stamps, and every pending run of one of its processes could   *)
(* still be stamped at the epoch of its exec.  The last needs to know that *)
(* a pending run belongs to a live, bound process: otherwise the process's *)
(* root, and with it the session, could change under the pending entry.    *)

Pending(q, d) == ts_exit_gates[q][d].gates # {}

GoodAt(r, ss, cl, pc) ==
  \A d \in DomIds :
    /\ Clocked(ss[d])
    /\ Covers(ss[d], cl[d])
    /\ \A q \in Pids :
         ts_root[q] = r /\ Pending(q, d)
           => Stampable(ts_exit_gates[q][d].epoch, ss[d], pc[q][d])

SessionsGood == \A r \in Pids : GoodAt(r, ts_sess[r], clean[r], pclean)

IInv == TypeOK /\ PendingOwned /\ SessionsGood

(* The invariant implies the property the rules rely on.                   *)
LEMMA IInvSinceSound == IInv => SinceSound
<1>. SUFFICES ASSUME IInv,
                     NEW r \in Pids, NEW d \in DomIds, NEW g \in Gates,
                     NEW S \in SUBSET Invals, S # {},
                     te_after_satisfied(ts_sess[r][d], g, S),
                     NEW i \in S
              PROVE  i \in clean[r][d][g]
  BY DEF SinceSound
<1>1. Covers(ts_sess[r][d], clean[r][d])
  BY DEF IInv, SessionsGood, GoodAt
<1>2. ts_sess[r][d].gate[g] > ts_sess[r][d].inval[i]
  BY DEF te_after_satisfied
<1>. QED
  BY <1>1, <1>2 DEF Covers

(* Nothing is stamped or pending at the start.                             *)
LEMMA InitIInv == Init => IInv
<1>. SUFFICES ASSUME Init PROVE IInv
  OBVIOUS
<1>1. TypeOK
  BY InitType
<1>2. \A q \in Pids, d \in DomIds : ~Pending(q, d)
  BY DEF Init, ByDom, NoPend, Pending
<1>3. PendingOwned
  BY <1>2 DEF PendingOwned, Pending
<1>4. Clocked(NoSess) /\ Covers(NoSess, [g \in Gates |-> {}])
  BY DEF Clocked, Covers, NoSess
<1>5. \A r \in Pids, d \in DomIds :
        ts_sess[r][d] = NoSess /\ clean[r][d] = [g \in Gates |-> {}]
  BY DEF Init, ByDom
<1>6. SessionsGood
  BY <1>2, <1>4, <1>5 DEF SessionsGood, GoodAt
<1>. QED
  BY <1>1, <1>3, <1>6 DEF IInv

(* A step that touches no session and no pending run keeps the invariant   *)
(* when every process with a pending run stays live, bound, in at least    *)
(* its old chain of domains, and under its old root.                       *)
LEMMA QuietStep ==
  ASSUME IInv, TypeOK', UNCHANGED gateVars,
         \A q \in Pids : (\E d \in DomIds : Pending(q, d)) =>
           /\ os'[q] = "leader"
           /\ cap_task'[q] # Global
           /\ te_domains[cap_task[q]] \subseteq te_domains[cap_task'[q]]
           /\ ts_root'[q] = ts_root[q]
  PROVE  IInv'
<1>1. PendingOwned'
  BY DEF IInv, PendingOwned, Pending, gateVars, te_pid_active, Chain
<1>2. SessionsGood'
  BY DEF IInv, SessionsGood, GoodAt, Pending, gateVars
<1>. QED
  BY <1>1, <1>2 DEF IInv

(* The userspace calls.  A bound process keeps its root, and its chain     *)
(* only grows (ChainAssumption).                                           *)
LEMMA BindSound ==
  ASSUME IInv, TypeOK', NEW p \in Pids, NEW d \in Doms,
         Seed(p, d) \/ \E pp \in Pids : bind_child_domain(pp, p, d)
  PROVE  IInv'
<1>1. \A q \in Pids : (\E e \in DomIds : Pending(q, e)) =>
        os[q] = "leader" /\ te_pid_active(q)
  BY DEF IInv, PendingOwned, Pending
<1>2. d # Global
  BY DomainAssumption
<1>3. CASE Seed(p, d)
  <2>1. UNCHANGED gateVars /\ os' = os
    BY <1>3 DEF Seed, osVars
  <2>2. \A q \in Pids : q # p => cap_task'[q] = cap_task[q] /\ ts_root'[q] = ts_root[q]
    BY <1>3 DEF Seed, IInv, TypeOK
  <2>3. ~te_pid_active(p)
    BY <1>3 DEF Seed
  <2>. QED
    BY <1>1, <2>1, <2>2, <2>3, QuietStep DEF te_pid_active
<1>4. ASSUME NEW pp \in Pids, bind_child_domain(pp, p, d)
      PROVE  IInv'
  <2>1. UNCHANGED gateVars /\ os' = os
    BY <1>4 DEF bind_child_domain, osVars
  <2>2. \A q \in Pids : q # p => cap_task'[q] = cap_task[q] /\ ts_root'[q] = ts_root[q]
    BY <1>4 DEF bind_child_domain, IInv, TypeOK
  <2>3. cap_task'[p] = d /\ ts_root'[p] = ts_root[pp]
    BY <1>4 DEF bind_child_domain, IInv, TypeOK
  <2>4. te_pid_active(p) => cap_task[p] = Parent[d] /\ ts_root[p] = ts_root[pp]
    BY <1>4 DEF bind_child_domain, BindRequest
  <2>5. te_domains[Parent[d]] \subseteq te_domains[d]
    BY ChainAssumption
  <2>. QED
    BY <1>1, <1>2, <2>1, <2>2, <2>3, <2>4, <2>5, QuietStep DEF te_pid_active
<1>. QED
  BY <1>3, <1>4

(* fork, clone and the exit of a thread: the ids they touch belong to no   *)
(* process with a pending run.                                             *)
LEMMA ForkSound ==
  ASSUME IInv, TypeOK', NEW p \in Pids, NEW c \in Pids,
         Fork(p, c) \/ CloneThread(p, c) \/ ThreadExit(c)
  PROVE  IInv'
<1>1. \A q \in Pids : (\E e \in DomIds : Pending(q, e)) =>
        os[q] = "leader" /\ cap_task[q] # Global
  BY DEF IInv, PendingOwned, Pending, te_pid_active
<1>2. CASE Fork(p, c) \/ CloneThread(p, c)
  <2>1. UNCHANGED gateVars /\ os[c] = "free" /\ te_fork(p, c)
    BY <1>2 DEF Fork, CloneThread
  <2>2. \A q \in Pids : q # c => os'[q] = os[q]
    BY <1>2 DEF Fork, CloneThread, IInv, TypeOK
  <2>3. \A q \in Pids : q # c => cap_task'[q] = cap_task[q] /\ ts_root'[q] = ts_root[q]
    <3>1. CASE te_pid_active(p)
      BY <2>1, <3>1 DEF te_fork, IInv, TypeOK
    <3>2. CASE ~te_pid_active(p)
      BY <2>1, <3>2 DEF te_fork
    <3>. QED
      BY <3>1, <3>2
  <2>. QED
    BY <1>1, <2>1, <2>2, <2>3, QuietStep
<1>3. CASE ThreadExit(c)
  <2>1. UNCHANGED gateVars /\ UNCHANGED <<cap_task, ts_root>>
    BY <1>3 DEF ThreadExit
  <2>2. \A q \in Pids : os[q] = "leader" => os'[q] = "leader"
    BY <1>3 DEF ThreadExit, IInv, TypeOK
  <2>. QED
    BY <1>1, <2>1, <2>2, QuietStep
<1>. QED
  BY <1>2, <1>3

(* te_exit stamps pending gates at the epoch of their exec and clears the  *)
(* process's pending runs; the other processes' runs are as they were.     *)
LEMMA ExitSessions ==
  ASSUME IInv, TypeOK', NEW p \in Pids, NEW status,
         Exit(p, status) \/ LeaderExit(p, status)
  PROVE  IInv'
<1>. DEFINE hits(d) == ExitHits(p, d, status)
            ep(d) == ExitEpoch(p, d)
            r == ts_root[p]
<1>1. te_exit(p, status)
  BY DEF Exit, LeaderExit
<1>2. r \in Pids
  BY DEF IInv, TypeOK
<1>3. \A q \in Pids, d \in DomIds :
        ts_exit_gates'[q][d] =
          IF q = p /\ d \in Chain(p) THEN NoPend ELSE ts_exit_gates[q][d]
  BY <1>1 DEF te_exit, Cleared, IInv, TypeOK
<1>4. \A d \in DomIds : ~Pending(p, d)'
  BY <1>3 DEF Pending, NoPend, IInv, PendingOwned
<1>5. \A q \in Pids, d \in DomIds : q # p => ts_exit_gates'[q][d] = ts_exit_gates[q][d]
  BY <1>3
<1>6. \A q \in Pids : q # p =>
        /\ cap_task'[q] = cap_task[q] /\ ts_root'[q] = ts_root[q]
        /\ pclean'[q] = pclean[q]
  BY <1>1 DEF te_exit, cap_exit, IInv, TypeOK
<1>7. \A q \in Pids : q # p /\ os[q] = "leader" => os'[q] = "leader"
  BY DEF Exit, LeaderExit, ThreadsOf, IInv, TypeOK
<1>8. PendingOwned'
  BY <1>4, <1>5, <1>6, <1>7
  DEF PendingOwned, Pending, IInv, te_pid_active, Chain
<1>9. \A d \in DomIds :
        /\ ts_sess'[r][d] = te_stamp(ts_sess[r][d], ep(d), hits(d), {})
        /\ clean'[r][d] = [g \in Gates |->
             IF g \in hits(d) THEN pclean[p][d] ELSE clean[r][d][g]]
  <2>1. /\ ts_sess' = [ts_sess EXCEPT ![r] =
             [d \in DomIds |-> te_stamp(ts_sess[r][d], ep(d), hits(d), {})]]
        /\ clean' = [clean EXCEPT ![r] =
             [d \in DomIds |-> [g \in Gates |->
                IF g \in hits(d) THEN pclean[p][d] ELSE clean[r][d][g]]]]
    BY <1>1 DEF te_exit
  <2>. HIDE DEF hits, ep, r
  <2>. QED
    BY <1>2, <2>1 DEF IInv, TypeOK
<1>10. \A k \in Pids : k # r => ts_sess'[k] = ts_sess[k] /\ clean'[k] = clean[k]
  BY <1>1 DEF te_exit, IInv, TypeOK
<1>11. ASSUME NEW d \in DomIds
       PROVE  /\ Clocked(ts_sess'[r][d])
              /\ Covers(ts_sess'[r][d], clean'[r][d])
              /\ \A f \in Nat, qc \in SUBSET Invals :
                   Stampable(f, ts_sess[r][d], qc)
                     => Stampable(f, ts_sess'[r][d], qc)
  <2>1. /\ ts_sess[r][d] \in SessType
        /\ clean[r][d] \in [Gates -> SUBSET Invals]
        /\ pclean[p][d] \in SUBSET Invals
        /\ ts_exit_gates[p][d] \in PendType
    BY <1>2 DEF IInv, TypeOK
  <2>2. ep(d) \in Nat /\ hits(d) \in SUBSET Gates
    BY <2>1, ExitGateHitsType DEF ExitEpoch, ExitHits, PendType
  <2>3. Clocked(ts_sess[r][d]) /\ Covers(ts_sess[r][d], clean[r][d])
    BY <1>2 DEF IInv, SessionsGood, GoodAt
  <2>4. hits(d) # {} => Pending(p, d)
    BY ExitGateHitsType DEF ExitHits, Pending
  <2>5. hits(d) # {} => Stampable(ep(d), ts_sess[r][d], pclean[p][d])
    BY <1>2, <2>4 DEF IInv, SessionsGood, GoodAt, ExitEpoch
  <2>. HIDE DEF hits, ep, r
  <2>. QED
    <3>. DEFINE t == te_stamp(ts_sess[r][d], ep(d), hits(d), {})
                k == Inherit(clean[r][d], hits(d), pclean[p][d])
    <3>1. /\ Clocked(t) /\ Covers(t, k)
          /\ \A f \in Nat, qc \in SUBSET Invals :
               Stampable(f, ts_sess[r][d], qc) => Stampable(f, t, qc)
      BY <2>1, <2>2, <2>3, <2>5, ExitSound
    <3>2. ts_sess'[r][d] = t /\ clean'[r][d] = k
      BY <1>9 DEF Inherit
    <3>. HIDE DEF t, k
    <3>. QED
      BY <3>1, <3>2
<1>12. SessionsGood'
  <2>. SUFFICES ASSUME NEW k \in Pids, NEW d \in DomIds
                PROVE  /\ Clocked(ts_sess'[k][d])
                       /\ Covers(ts_sess'[k][d], clean'[k][d])
                       /\ \A q \in Pids :
                            ts_root'[q] = k /\ Pending(q, d)'
                              => Stampable(ts_exit_gates'[q][d].epoch,
                                           ts_sess'[k][d], pclean'[q][d])
    BY DEF SessionsGood, GoodAt
  <2>1. /\ Clocked(ts_sess[k][d]) /\ Covers(ts_sess[k][d], clean[k][d])
        /\ \A q \in Pids : ts_root[q] = k /\ Pending(q, d)
             => Stampable(ts_exit_gates[q][d].epoch, ts_sess[k][d], pclean[q][d])
    BY DEF IInv, SessionsGood, GoodAt
  <2>2. Clocked(ts_sess'[k][d]) /\ Covers(ts_sess'[k][d], clean'[k][d])
    BY <1>10, <1>11, <2>1
  <2>3. ASSUME NEW q \in Pids, ts_root'[q] = k, Pending(q, d)'
        PROVE  Stampable(ts_exit_gates'[q][d].epoch, ts_sess'[k][d], pclean'[q][d])
    <3>1. q # p
      BY <1>4, <2>3
    <3>2. /\ ts_root[q] = k /\ Pending(q, d) /\ pclean'[q] = pclean[q]
          /\ ts_exit_gates'[q][d] = ts_exit_gates[q][d]
      BY <1>5, <1>6, <2>3, <3>1 DEF Pending
    <3>3. Stampable(ts_exit_gates[q][d].epoch, ts_sess[k][d], pclean[q][d])
      BY <2>1, <3>2
    <3>4. ts_exit_gates[q][d].epoch \in Nat /\ pclean[q][d] \in SUBSET Invals
      BY DEF IInv, TypeOK, PendType
    <3>. QED
      BY <1>10, <1>11, <3>2, <3>3, <3>4
  <2>. QED
    BY <2>2, <2>3
<1>. QED
  BY <1>8, <1>12 DEF IInv

(* One read or write event keeps every session of its root good.           *)
LEMMA TouchSound ==
  ASSUME TypeOK, NEW p \in Pids, NEW ss \in [DomIds -> SessType],
         NEW cl \in [DomIds -> [Gates -> SUBSET Invals]],
         NEW pc \in [Pids -> [DomIds -> SUBSET Invals]],
         NEW op, NEW o, NEW writes,
         GoodAt(ts_root[p], ss, cl, pc)
  PROVE  GoodAt(ts_root[p], Touch(p, ss, op, o, writes),
                TouchClean(p, cl, op, o), TouchPclean(p, pc, op, o))
<1>. DEFINE r == ts_root[p]
            t == Touch(p, ss, op, o, writes)
            k == TouchClean(p, cl, op, o)
            pk == TouchPclean(p, pc, op, o)
<1>. SUFFICES ASSUME NEW d \in DomIds
              PROVE  /\ Clocked(t[d]) /\ Covers(t[d], k[d])
                     /\ \A q \in Pids : ts_root[q] = r /\ Pending(q, d)
                          => Stampable(ts_exit_gates[q][d].epoch, t[d], pk[q][d])
  BY DEF GoodAt
<1>1. /\ Clocked(ss[d]) /\ Covers(ss[d], cl[d])
      /\ \A q \in Pids : ts_root[q] = r /\ Pending(q, d)
           => Stampable(ts_exit_gates[q][d].epoch, ss[d], pc[q][d])
  BY DEF GoodAt
<1>2. CASE d \notin Chain(p)
  <2>1. t[d] = ss[d]
    BY <1>2 DEF Touch
  <2>2. k[d] = [g \in Gates |-> cl[d][g]]
    BY <1>2 DEF TouchClean
  <2>3. \A q \in Pids : pk[q][d] = pc[q][d]
    BY <1>2 DEF TouchPclean
  <2>4. Covers(t[d], k[d])
    BY <1>1, <2>1, <2>2 DEF Covers
  <2>. HIDE DEF t, k, pk
  <2>. QED
    BY <1>1, <2>1, <2>3, <2>4
<1>3. CASE d \in Chain(p)
  <2>. DEFINE G == GatesOf(op, o, d)
              I == InvalsOf(op, o, d)
              due == G # {} \/ I # {} \/ writes[d] # {}
  <2>1. t[d] = te_event(ss[d], due, G, I)
    BY <1>3 DEF Touch
  <2>2. k[d] = After(cl[d], G, I)
    BY <1>3 DEF TouchClean, After
  <2>3. \A q \in Pids : ts_root[q] = r => pk[q][d] = pc[q][d] \ I
    BY <1>3 DEF TouchPclean
  <2>4. G \in SUBSET Gates /\ I \in SUBSET Invals /\ due \in BOOLEAN
    BY RowTypes
  <2>5. G # {} \/ I # {} => due
    OBVIOUS
  <2>6. /\ ss[d] \in SessType /\ cl[d] \in [Gates -> SUBSET Invals]
        /\ \A q \in Pids : pc[q][d] \in SUBSET Invals
                          /\ ts_exit_gates[q][d].epoch \in Nat
    BY DEF TypeOK, PendType
  <2>. HIDE DEF t, k, pk, G, I, due
  <2>7. /\ Clocked(t[d]) /\ Covers(t[d], k[d])
        /\ \A e \in Nat, c \in SUBSET Invals :
             Stampable(e, ss[d], c) => Stampable(e, t[d], c \ I)
    <3>. DEFINE u == te_event(ss[d], due, G, I)
    <3>1. /\ Clocked(u) /\ Covers(u, After(cl[d], G, I))
          /\ \A e \in Nat, c \in SUBSET Invals :
               Stampable(e, ss[d], c) => Stampable(e, u, c \ I)
      <4>1. Clocked(ss[d]) /\ Covers(ss[d], cl[d])
        BY <1>1
      <4>. QED
        BY <4>1, <2>4, <2>5, <2>6, EventSound
    <3>. QED
      BY <2>1, <2>2, <3>1
  <2>8. ASSUME NEW q \in Pids, ts_root[q] = r, Pending(q, d)
        PROVE  Stampable(ts_exit_gates[q][d].epoch, t[d], pk[q][d])
    <3>1. Stampable(ts_exit_gates[q][d].epoch, ss[d], pc[q][d])
      BY <1>1, <2>8
    <3>2. pk[q][d] = pc[q][d] \ I
      BY <2>3, <2>8
    <3>3. ts_exit_gates[q][d].epoch \in Nat /\ pc[q][d] \in SUBSET Invals
      BY <2>6
    <3>4. Stampable(ts_exit_gates[q][d].epoch, t[d], pc[q][d] \ I)
      BY <2>7, <3>1, <3>3
    <3>. QED
      BY <3>2, <3>4
  <2>. QED
    BY <2>7, <2>8
<1>. QED
  BY <1>2, <1>3

(* An event of one root leaves the other roots' pending runs alone.        *)
LEMMA TouchOthers ==
  ASSUME NEW p \in Pids, NEW q \in Pids, ts_root[q] # ts_root[p],
         NEW pc \in [Pids -> [DomIds -> SUBSET Invals]], NEW op, NEW o
  PROVE  TouchPclean(p, pc, op, o)[q] = pc[q]
BY DEF TouchPclean

(* When a handler leaves the sessions of its root good, and the rest of    *)
(* the gate state alone, the invariant is kept.                            *)
LEMMA TouchStep ==
  ASSUME IInv, TypeOK', NEW p \in Pids,
         NEW ss, NEW cl, GoodAt(ts_root[p], ss, cl, pclean'),
         ts_sess' = [ts_sess EXCEPT ![ts_root[p]] = ss],
         clean' = [clean EXCEPT ![ts_root[p]] = cl],
         \A q \in Pids : ts_root[q] # ts_root[p] => pclean'[q] = pclean[q],
         UNCHANGED <<os, cap_task, ts_root, ts_exit_gates>>
  PROVE  IInv'
<1>1. PendingOwned'
  BY DEF IInv, PendingOwned, te_pid_active, Chain
<1>2. SessionsGood'
  <2>. SUFFICES ASSUME NEW r \in Pids
                PROVE  GoodAt(r, ts_sess[r], clean[r], pclean)'
    BY DEF SessionsGood
  <2>1. GoodAt(r, ts_sess[r], clean[r], pclean)
    BY DEF IInv, SessionsGood
  <2>2. CASE r = ts_root[p]
    <3>1. ts_sess'[r] = ss /\ clean'[r] = cl
      BY <2>2 DEF IInv, TypeOK
    <3>. QED
      BY <2>2, <3>1 DEF GoodAt, Pending
  <2>3. CASE r # ts_root[p]
    <3>1. ts_sess'[r] = ts_sess[r] /\ clean'[r] = clean[r]
      BY <2>3 DEF IInv, TypeOK
    <3>. QED
      BY <2>1, <2>3, <3>1 DEF GoodAt, Pending
  <2>. QED
    BY <2>2, <2>3
<1>. QED
  BY <1>1, <1>2 DEF IInv

(* exec: the sessions see one event, and the process's pending runs are    *)
(* replaced by the ones that start now, at the session's new epoch.        *)
LEMMA ExecSound ==
  ASSUME IInv, TypeOK', NEW p \in Pids, NEW x \in Progs, Exec(p, x)
  PROVE  IInv'
<1>. DEFINE r == ts_root[p]
            gates(d) == GatesOf("exec", x, d)
            exits(d) == ExitGatesOf("exec", x, d)
            invals(d) == InvalsOf("exec", x, d)
            due(d) == gates(d) \cup exits(d) # {} \/ invals(d) # {}
            ss == [d \in DomIds |->
               IF d \in Chain(p)
               THEN te_event(ts_sess[r][d], due(d), gates(d), invals(d))
               ELSE ts_sess[r][d]]
<1>1. UNCHANGED <<cap_task, ts_root>>
  BY DEF Exec, bindVars
<1>2. \A q \in Pids : os[q] = "leader" => os'[q] = "leader"
  BY DEF Exec, ThreadsOf, IInv, TypeOK
<1>3. CASE ~te_pid_active(p)
  <2>1. UNCHANGED gateVars
    BY <1>3 DEF Exec
  <2>2. \A q \in Pids : (\E e \in DomIds : Pending(q, e)) =>
          os[q] = "leader" /\ cap_task[q] # Global
    BY DEF IInv, PendingOwned, Pending, te_pid_active
  <2>. QED
    BY <1>1, <1>2, <2>1, <2>2, QuietStep
<1>4. CASE te_pid_active(p)
  <2>1. r \in Pids
    BY DEF IInv, TypeOK
  <2>2. /\ ts_sess' = [ts_sess EXCEPT ![r] = ss]
        /\ ts_exit_gates' = [ts_exit_gates EXCEPT ![p] =
             [d \in DomIds |->
                IF d \notin Chain(p) THEN ts_exit_gates[p][d]
                ELSE IF exits(d) = {} THEN NoPend
                ELSE [gates |-> exits(d), epoch |-> ss[d].epoch]]]
        /\ clean' = [clean EXCEPT ![r] =
             [d \in DomIds |-> [g \in Gates |->
                IF d \notin Chain(p) THEN clean[r][d][g]
                ELSE (IF g \in gates(d) THEN Invals ELSE clean[r][d][g])
                       \ invals(d)]]]
        /\ pclean' = [q \in Pids |-> [d \in DomIds |->
             IF d \notin Chain(p) \/ ts_root[q] # r THEN pclean[q][d]
             ELSE (IF q = p THEN Invals ELSE pclean[q][d]) \ invals(d)]]
        /\ os'[p] = "leader"
    BY <1>4 DEF Exec, IInv, TypeOK
  <2>. HIDE DEF ss, exits, gates, invals, due, r
  <2>3. \A q \in Pids : q # p => ts_exit_gates'[q] = ts_exit_gates[q]
    BY <2>2 DEF IInv, TypeOK
  <2>4. \A d \in DomIds : d \notin Chain(p) => ~Pending(p, d)
    BY DEF IInv, PendingOwned, Pending
  <2>5. \A d \in DomIds : Pending(p, d)' =>
          /\ d \in Chain(p) /\ exits(d) # {}
          /\ ts_exit_gates'[p][d].epoch = ss[d].epoch
    BY <2>2, <2>4 DEF Pending, NoPend, IInv, TypeOK
  <2>6. PendingOwned'
    BY <1>1, <1>2, <1>4, <2>2, <2>3, <2>5
    DEF PendingOwned, Pending, IInv, te_pid_active, Chain
  <2>7. SessionsGood'
    <3>. SUFFICES ASSUME NEW k \in Pids, NEW d \in DomIds
                  PROVE  /\ Clocked(ts_sess'[k][d])
                         /\ Covers(ts_sess'[k][d], clean'[k][d])
                         /\ \A q \in Pids :
                              ts_root[q] = k /\ Pending(q, d)'
                                => Stampable(ts_exit_gates'[q][d].epoch,
                                             ts_sess'[k][d], pclean'[q][d])
      BY <1>1 DEF SessionsGood, GoodAt
    <3>1. /\ Clocked(ts_sess[k][d]) /\ Covers(ts_sess[k][d], clean[k][d])
          /\ \A q \in Pids : ts_root[q] = k /\ Pending(q, d)
               => Stampable(ts_exit_gates[q][d].epoch, ts_sess[k][d], pclean[q][d])
      BY DEF IInv, SessionsGood, GoodAt
    <3>2. CASE k # r
      <4>1. ts_sess'[k] = ts_sess[k] /\ clean'[k] = clean[k]
        BY <2>1, <2>2, <3>2 DEF IInv, TypeOK
      <4>2. \A q \in Pids : ts_root[q] = k =>
              /\ q # p
              /\ ts_exit_gates'[q] = ts_exit_gates[q]
              /\ pclean'[q][d] = pclean[q][d]
        BY <2>2, <2>3, <3>2 DEF r
      <4>. QED
        BY <3>1, <4>1, <4>2 DEF Pending
    <3>3. CASE k = r /\ d \notin Chain(p)
      <4>1. ts_sess'[k][d] = ts_sess[k][d]
        BY <2>1, <2>2, <3>3 DEF IInv, TypeOK, ss
      <4>2. clean'[k][d] = [g \in Gates |-> clean[k][d][g]]
        BY <2>1, <2>2, <3>3 DEF IInv, TypeOK
      <4>3. Covers(ts_sess'[k][d], clean'[k][d])
        BY <3>1, <4>1, <4>2 DEF Covers
      <4>4. \A q \in Pids : pclean'[q][d] = pclean[q][d]
        BY <2>2, <3>3
      <4>5. \A q \in Pids : Pending(q, d)' =>
              Pending(q, d) /\ ts_exit_gates'[q][d] = ts_exit_gates[q][d]
        BY <2>3, <2>5, <3>3 DEF Pending
      <4>. QED
        BY <3>1, <4>1, <4>3, <4>4, <4>5
    <3>4. CASE k = r /\ d \in Chain(p)
      <4>. DEFINE u == te_event(ts_sess[r][d], due(d), gates(d), invals(d))
      <4>1. ts_sess'[k][d] = u /\ ss[d] = u
        BY <2>1, <2>2, <3>4 DEF IInv, TypeOK, ss
      <4>2. clean'[k][d] = After(clean[r][d], gates(d), invals(d))
        BY <2>1, <2>2, <3>4 DEF IInv, TypeOK, After
      <4>3. \A q \in Pids : ts_root[q] = r =>
              pclean'[q][d] = (IF q = p THEN Invals ELSE pclean[q][d]) \ invals(d)
        BY <2>2, <3>4
      <4>4. /\ gates(d) \in SUBSET Gates /\ invals(d) \in SUBSET Invals
            /\ due(d) \in BOOLEAN
            /\ gates(d) # {} \/ invals(d) # {} => due(d)
            /\ exits(d) # {} => due(d)
        BY RowTypes DEF gates, invals, due, exits
      <4>5. /\ ts_sess[r][d] \in SessType
            /\ clean[r][d] \in [Gates -> SUBSET Invals]
            /\ Clocked(ts_sess[r][d]) /\ Covers(ts_sess[r][d], clean[r][d])
        BY <2>1, <3>1, <3>4 DEF IInv, TypeOK
      <4>6. /\ Clocked(u) /\ Covers(u, After(clean[r][d], gates(d), invals(d)))
            /\ due(d) => Stampable(u.epoch, u, Invals \ invals(d))
            /\ \A e \in Nat, c \in SUBSET Invals :
                 Stampable(e, ts_sess[r][d], c) => Stampable(e, u, c \ invals(d))
        BY <4>4, <4>5, EventSound
      <4>. HIDE DEF u
      <4>7. ASSUME NEW q \in Pids, ts_root[q] = k, Pending(q, d)'
            PROVE  Stampable(ts_exit_gates'[q][d].epoch, u, pclean'[q][d])
        <5>1. CASE q = p
          <6>1. ts_exit_gates'[q][d].epoch = u.epoch /\ due(d)
            BY <2>5, <4>1, <4>4, <4>7, <5>1
          <6>2. pclean'[q][d] = Invals \ invals(d)
            BY <3>4, <4>3, <4>7, <5>1
          <6>. QED
            BY <4>6, <6>1, <6>2
        <5>2. CASE q # p
          <6>1. ts_exit_gates'[q][d] = ts_exit_gates[q][d] /\ Pending(q, d)
            BY <2>3, <4>7, <5>2 DEF Pending
          <6>2. pclean'[q][d] = pclean[q][d] \ invals(d)
            BY <3>4, <4>3, <4>7, <5>2
          <6>3. Stampable(ts_exit_gates[q][d].epoch, ts_sess[r][d], pclean[q][d])
            BY <3>1, <3>4, <4>7, <6>1
          <6>4. ts_exit_gates[q][d].epoch \in Nat /\ pclean[q][d] \in SUBSET Invals
            BY DEF IInv, TypeOK, PendType
          <6>5. Stampable(ts_exit_gates[q][d].epoch, u, pclean[q][d] \ invals(d))
            BY <4>6, <6>3, <6>4
          <6>. QED
            BY <6>1, <6>2, <6>5
        <5>. QED
          BY <5>1, <5>2
      <4>. QED
        BY <4>1, <4>2, <4>6, <4>7
    <3>. QED
      BY <3>2, <3>3, <3>4
  <2>. QED
    BY <2>6, <2>7 DEF IInv
<1>. QED
  BY <1>3, <1>4

(* A file handler of a process outside every domain changes no gate state. *)
LEMMA OutsideStep ==
  ASSUME IInv, TypeOK',
         UNCHANGED <<os, cap_task, ts_root, ts_exit_gates, ts_sess, clean, pclean>>
  PROVE  IInv'
<1>1. \A q \in Pids : (\E e \in DomIds : Pending(q, e)) =>
        os[q] = "leader" /\ cap_task[q] # Global
  BY DEF IInv, PendingOwned, Pending, te_pid_active
<1>. QED
  BY <1>1, QuietStep DEF gateVars

(* open: at most one read event, then at most one write event.             *)
LEMMA OpenSound ==
  ASSUME IInv, TypeOK', NEW p \in Pids, NEW f \in Paths,
         NEW acc \in Accesses, NEW i \in Inodes, Open(p, f, acc, i)
  PROVE  IInv'
<1>. DEFINE rd == "read" \in acc
            wr == "write" \in acc
            r == ts_root[p]
            s1 == IF rd THEN Touch(p, Sess(p), "open", f, ByDom({})) ELSE Sess(p)
            c1 == IF rd THEN TouchClean(p, clean[r], "open", f) ELSE clean[r]
            q1 == IF rd THEN TouchPclean(p, pclean, "open", f) ELSE pclean
<1>1. UNCHANGED <<os, cap_task, ts_root, ts_exit_gates>>
  BY DEF Open, bindVars
<1>2. CASE ~te_pid_active(p)
  BY <1>1, <1>2, OutsideStep DEF Open
<1>3. CASE te_pid_active(p)
  <2>1. PICK out :
          /\ ts_sess' = [ts_sess EXCEPT ![r] =
               IF wr THEN Touch(p, s1, "write", f, out) ELSE s1]
          /\ clean' = [clean EXCEPT ![r] =
               IF wr THEN TouchClean(p, c1, "write", f) ELSE c1]
          /\ pclean' = IF wr THEN TouchPclean(p, q1, "write", f) ELSE q1
    BY <1>3 DEF Open
  <2>2. /\ r \in Pids
        /\ Sess(p) \in [DomIds -> SessType]
        /\ clean[r] \in [DomIds -> [Gates -> SUBSET Invals]]
        /\ pclean \in [Pids -> [DomIds -> SUBSET Invals]]
        /\ TypeOK
    BY DEF IInv, TypeOK, Sess
  <2>3. GoodAt(r, Sess(p), clean[r], pclean)
    BY <2>2 DEF IInv, SessionsGood, Sess
  <2>4. /\ s1 \in [DomIds -> SessType]
        /\ c1 \in [DomIds -> [Gates -> SUBSET Invals]]
        /\ q1 \in [Pids -> [DomIds -> SUBSET Invals]]
    BY <2>2, TouchTypes
  <2>5. GoodAt(r, s1, c1, q1)
    BY <2>2, <2>3, TouchSound
  <2>6. \A q \in Pids : ts_root[q] # r => q1[q] = pclean[q]
    BY <2>2, TouchOthers
  <2>. HIDE DEF s1, c1, q1, rd, wr
  <2>. DEFINE s2 == IF wr THEN Touch(p, s1, "write", f, out) ELSE s1
              c2 == IF wr THEN TouchClean(p, c1, "write", f) ELSE c1
  <2>7. GoodAt(r, s2, c2, pclean')
    BY <2>1, <2>2, <2>4, <2>5, TouchSound
  <2>8. \A q \in Pids : ts_root[q] # r => pclean'[q] = pclean[q]
    BY <2>1, <2>4, <2>6, TouchOthers
  <2>9. ts_sess' = [ts_sess EXCEPT ![r] = s2] /\ clean' = [clean EXCEPT ![r] = c2]
    BY <2>1
  <2>. HIDE DEF s2, c2
  <2>. QED
    BY <1>1, <2>7, <2>8, <2>9, TouchStep
<1>. QED
  BY <1>2, <1>3

(* unlink and truncate: one write event.                                   *)
LEMMA PathWriteSound ==
  ASSUME IInv, TypeOK', NEW p \in Pids, NEW f \in Paths, NEW src,
         PathWrite(p, f, src),
         UNCHANGED <<os, cap_task, ts_root, ts_exit_gates>>
  PROVE  IInv'
<1>. DEFINE r == ts_root[p]
            s1 == Touch(p, ts_sess[r], "write", f, Own(p))
            c1 == TouchClean(p, clean[r], "write", f)
<1>1. UNCHANGED <<os, cap_task, ts_root, ts_exit_gates>>
  OBVIOUS
<1>2. CASE ~te_pid_active(p)
  BY <1>1, <1>2, OutsideStep DEF PathWrite
<1>3. CASE te_pid_active(p)
  <2>1. /\ ts_sess' = [ts_sess EXCEPT ![r] = s1]
        /\ clean' = [clean EXCEPT ![r] = c1]
        /\ pclean' = TouchPclean(p, pclean, "write", f)
    BY <1>3 DEF PathWrite
  <2>2. /\ r \in Pids
        /\ ts_sess[r] \in [DomIds -> SessType]
        /\ clean[r] \in [DomIds -> [Gates -> SUBSET Invals]]
        /\ pclean \in [Pids -> [DomIds -> SUBSET Invals]]
        /\ TypeOK
    BY DEF IInv, TypeOK
  <2>3. GoodAt(r, ts_sess[r], clean[r], pclean)
    BY <2>2 DEF IInv, SessionsGood
  <2>4. GoodAt(r, s1, c1, pclean')
    BY <2>1, <2>2, <2>3, TouchSound
  <2>5. \A q \in Pids : ts_root[q] # r => pclean'[q] = pclean[q]
    BY <2>1, <2>2, TouchOthers
  <2>. HIDE DEF s1, c1
  <2>. QED
    BY <1>1, <2>1, <2>4, <2>5, TouchStep
<1>. QED
  BY <1>2, <1>3

(* rename: a write event on the old path, then one on the new path.        *)
LEMMA RenameSound ==
  ASSUME IInv, TypeOK', NEW p \in Pids, NEW a \in Paths, NEW b \in Paths,
         NEW exchange \in BOOLEAN, Rename(p, a, b, exchange)
  PROVE  IInv'
<1>. DEFINE r == ts_root[p]
            s1 == Touch(p, Sess(p), "write", a, Own(p))
            c1 == TouchClean(p, clean[r], "write", a)
            q1 == TouchPclean(p, pclean, "write", a)
            s2 == Touch(p, s1, "write", b, Own(p))
            c2 == TouchClean(p, c1, "write", b)
<1>1. UNCHANGED <<os, cap_task, ts_root, ts_exit_gates>>
  BY DEF Rename, bindVars
<1>2. CASE ~te_pid_active(p)
  BY <1>1, <1>2, OutsideStep DEF Rename
<1>3. CASE te_pid_active(p)
  <2>1. /\ ts_sess' = [ts_sess EXCEPT ![r] = s2]
        /\ clean' = [clean EXCEPT ![r] = c2]
        /\ pclean' = TouchPclean(p, q1, "write", b)
    BY <1>3 DEF Rename
  <2>2. /\ r \in Pids
        /\ Sess(p) \in [DomIds -> SessType]
        /\ clean[r] \in [DomIds -> [Gates -> SUBSET Invals]]
        /\ pclean \in [Pids -> [DomIds -> SUBSET Invals]]
        /\ TypeOK
    BY DEF IInv, TypeOK, Sess
  <2>3. GoodAt(r, Sess(p), clean[r], pclean)
    BY <2>2 DEF IInv, SessionsGood, Sess
  <2>4. /\ s1 \in [DomIds -> SessType]
        /\ c1 \in [DomIds -> [Gates -> SUBSET Invals]]
        /\ q1 \in [Pids -> [DomIds -> SUBSET Invals]]
    BY <2>2, TouchTypes
  <2>5. GoodAt(r, s1, c1, q1)
    BY <2>2, <2>3, TouchSound
  <2>6. \A q \in Pids : ts_root[q] # r => q1[q] = pclean[q]
    BY <2>2, TouchOthers
  <2>. HIDE DEF s1, c1, q1
  <2>7. GoodAt(r, s2, c2, pclean')
    BY <2>1, <2>2, <2>4, <2>5, TouchSound
  <2>8. \A q \in Pids : ts_root[q] # r => pclean'[q] = pclean[q]
    BY <2>1, <2>4, <2>6, TouchOthers
  <2>. HIDE DEF s2, c2
  <2>. QED
    BY <1>1, <2>1, <2>7, <2>8, TouchStep
<1>. QED
  BY <1>2, <1>3

(* Every step keeps the inductive invariant.                               *)
LEMMA NextIInv == IInv /\ [Next]_vars => IInv'
<1>. SUFFICES ASSUME IInv, [Next]_vars PROVE IInv'
  OBVIOUS
<1>0. TypeOK'
  BY NextType DEF IInv
<1>1. CASE UNCHANGED vars
  BY <1>0, <1>1, OutsideStep DEF vars
<1>2. CASE \E p \in Pids, d \in Doms : Seed(p, d)
  BY <1>0, <1>2, BindSound
<1>3. CASE \E pp, p \in Pids, d \in Doms : bind_child_domain(pp, p, d)
  BY <1>0, <1>3, BindSound
<1>4. CASE \E p, c \in Pids : Fork(p, c)
  BY <1>0, <1>4, ForkSound
<1>5. CASE \E p, t \in Pids : CloneThread(p, t)
  BY <1>0, <1>5, ForkSound
<1>6. CASE \E t \in Pids : ThreadExit(t)
  BY <1>0, <1>6, ForkSound
<1>7. CASE \E p \in Pids, st \in Codes \cup {Signal} : Exit(p, st)
  BY <1>0, <1>7, ExitSessions
<1>8. CASE \E p \in Pids, st \in Codes : LeaderExit(p, st)
  BY <1>0, <1>8, ExitSessions
<1>9. CASE \E p \in Pids, x \in Progs : Exec(p, x)
  BY <1>0, <1>9, ExecSound
<1>10. CASE \E p \in Pids, f \in Paths, acc \in Accesses, i \in Inodes :
              Open(p, f, acc, i)
  BY <1>0, <1>10, OpenSound
<1>11. CASE \E p \in Pids, f \in Paths, ok \in BOOLEAN : Unlink(p, f, ok)
  <2>1. PICK p \in Pids, f \in Paths, ok \in BOOLEAN : Unlink(p, f, ok)
    BY <1>11
  <2>2. /\ PathWrite(p, f, ByDom({}))
        /\ UNCHANGED <<os, cap_task, ts_root, ts_exit_gates>>
    BY <2>1 DEF Unlink, bindVars
  <2>. QED
    BY <1>0, <2>2, PathWriteSound
<1>15. CASE \E p \in Pids, f \in Paths : Truncate(p, f)
  <2>1. PICK p \in Pids, f \in Paths : Truncate(p, f)
    BY <1>15
  <2>2. /\ PathWrite(p, f, Sources("open", f, p))
        /\ UNCHANGED <<os, cap_task, ts_root, ts_exit_gates>>
    BY <2>1 DEF Truncate, bindVars
  <2>. QED
    BY <1>0, <2>2, PathWriteSound
<1>12. CASE \E p \in Pids, a, b \in Paths, x \in BOOLEAN : Rename(p, a, b, x)
  BY <1>0, <1>12, RenameSound
<1>13. CASE \E p \in Pids, e \in Endps : Connect(p, e)
  <2>1. UNCHANGED <<os, bindVars, gateVars>>
    BY <1>13 DEF Connect
  <2>. QED
    BY <1>0, <2>1, OutsideStep DEF bindVars, gateVars
<1>14. CASE \E p \in Pids, e \in Endps : Recv(p, e)
  <2>1. UNCHANGED <<os, bindVars, gateVars>>
    BY <1>14 DEF Recv
  <2>. QED
    BY <1>0, <2>1, OutsideStep DEF bindVars, gateVars
<1>. QED
  BY <1>1, <1>2, <1>3, <1>4, <1>5, <1>6, <1>7, <1>8, <1>9, <1>10, <1>11,
     <1>12, <1>13, <1>14, <1>15 DEF Next

(* The inductive invariant holds in every reachable state.                 *)
THEOREM InductiveInvariant == Spec => []IInv
BY InitIInv, NextIInv, PTL DEF Spec

(* te_after_satisfied accepts no stale gate, for every policy, every       *)
(* interleaving of processes and threads and however late an exit is       *)
(* reported.                                                               *)
THEOREM SinceSoundness == Spec => []SinceSound
BY InductiveInvariant, IInvSinceSound, PTL

(* A pending exit gate belongs to a live, bound process, in a domain its   *)
(* exit will visit: te_exit leaves none behind for the pid's next owner.   *)
THEOREM PendingOwnership == Spec => []PendingOwned
<1>1. IInv => PendingOwned
  BY DEF IInv
<1>. QED
  BY InductiveInvariant, <1>1, PTL
============================================================================
