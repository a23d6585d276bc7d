------------------------ MODULE DeltaChannel_proofs ------------------------
(***************************************************************************)
(* The type invariant of DeltaChannel, and the domain a runtime's policy   *)
(* comes from, for any deltas, tables and rings and any number of runtimes.*)
(*                                                                         *)
(* Neither is inductive by itself: a request that a crashed runtime left   *)
(* behind may be admitted, written and counted at any time, and a rollback *)
(* writes back counts read long before.  So the invariant follows requests *)
(* through the ring, the drain and the slots: each of them names an entry  *)
(* of its delta, is no newer than the runtime and targets the child domain *)
(* or the domain of the runtime that submitted it.  A domain id is never   *)
(* given twice to runtimes, and that is what keeps old requests out.       *)
(***************************************************************************)
EXTENDS DeltaChannel, SequenceTheorems, TLAPS

Kinds == {"rule", "update"}
Cap(kind) == IF kind = "rule" THEN MAX_RULES ELSE MAX_UPDATES
Slot(kind, i) == IF kind = "rule" THEN ts_rules[i] ELSE ts_updates[i]

(* Only a runtime that serves is in a transaction, about an entry the      *)
(* delta has; the counts it may go back to fit the tables; and its drain   *)
(* is the one it waits for.                                                *)
LifeCycle ==
  /\ rt # "down" => gen \in Nat \ {0}
  /\ rt \in {"install", "up"} => cap_task[Agent] = fresh_runtime_domain_id(gen)
  /\ tx # Idle =>
       /\ rt \in {"install", "up"}
       /\ tx.k \in 1 .. Size(tx.d)
       /\ tx.rules0 \in 0 .. MAX_RULES /\ tx.updates0 \in 0 .. MAX_UPDATES
       /\ tx.mask0 \subseteq 0 .. MAX_RULES - 1
  /\ drain.kick <=> tx.pc = "draining"
  /\ drain.at = "free" => ~drain.kick

(* A request names an entry of its delta and a domain of its own runtime.  *)
Genuine(e) ==
  /\ e \in RequestType
  /\ e.gen <= gen
  /\ e.k \in 1 .. Size(e.d) /\ e.kind = KindOf(e.d, e.k)
  /\ e.target \in {ChildDomain, fresh_runtime_domain_id(e.gen)}

Holding == drain.at \in {"admitted", "written"}

(* The first n slots of a table hold genuine requests of its kind.         *)
Written(kind, n) ==
  \A i \in Nat : i < n => Genuine(Slot(kind, i)) /\ Slot(kind, i).kind = kind

(* Every request on its way is genuine, and so is whatever a slot below a  *)
(* count, or below a count somebody may yet write, holds.                  *)
Requests ==
  /\ \A i \in 1 .. Len(ring) : Genuine(ring[i])
  /\ Holding => Genuine(drain.e)
  /\ drain.at = "written" =>
       drain.idx < Cap(drain.e.kind) /\ Written(drain.e.kind, drain.idx + 1)
  /\ \A kind \in Kinds : Written(kind, ts_counts[kind])
  /\ tx # Idle => Written("rule", tx.rules0) /\ Written("update", tx.updates0)

(* The type invariant by the variables that actions leave alone together.  *)
DrainType ==
  [who : Procs, kick : BOOLEAN, idx : Nat,
   at : {"free", "peek", "admitted", "written", "leaving"},
   e : RequestType \cup {None}]
RtTypes ==
  /\ rt \in {"down", "seed", "install", "up"} \cup
            {"clear_counts", "clear_task", "clear_state", "clear_policy"} \cup
            {"stop_counts", "stop_task", "stop_state", "stop_policy"}
  /\ gen \in 0 .. MaxGen
  /\ late \in BOOLEAN
ChanTypes == ring \in Seq(RequestType) /\ Len(ring) <= RingCap /\ drain \in DrainType
CountTypes ==
  /\ ts_counts \in [Kinds -> Nat]
  /\ ts_counts["rule"] \in 0 .. MAX_RULES /\ ts_counts["update"] \in 0 .. MAX_UPDATES
SlotTypes ==
  /\ ts_rules \in [0 .. MAX_RULES - 1 -> RequestType \cup {None}]
  /\ ts_updates \in [0 .. MAX_UPDATES - 1 -> RequestType \cup {None}]
  /\ cap_policy \in [DomIds -> SUBSET (0 .. MAX_RULES - 1)]
BindTypes ==
  /\ cap_task \in [Procs -> DomIds \cup {Unbound}]
  /\ DOMAIN cap_state \subseteq DomIds
  /\ \A d \in DOMAIN cap_state : cap_state[d] \in DomIds \cup {Unbound}
ReportTypes ==
  /\ catalog \in Seq([d : AllDeltas, k : Nat])
  /\ accepted \subseteq AllDeltas /\ failed \subseteq AllDeltas
Types ==
  RtTypes /\ tx \in TxType /\ ChanTypes /\ CountTypes /\ SlotTypes /\ BindTypes /\ ReportTypes

IInv == Types /\ LifeCycle /\ Requests

----------------------------------------------------------------------------
(* The parts make up the type invariant.                                   *)
LEMMA TypesTypeOK ==
  Types => TypeOK
  BY DEF Types, RtTypes, ChanTypes, CountTypes, SlotTypes, BindTypes, ReportTypes, TypeOK,
         DrainType, Kinds

(* Deltas have entries, and the two kinds are two.                         *)
LEMMA Sizes ==
  /\ \A d \in AllDeltas : NUpdates[d] \in Nat /\ NRules[d] \in Nat /\ Size(d) \in Nat \ {0}
  /\ MAX_RULES \in Nat \ {0} /\ MAX_UPDATES \in Nat \ {0}
  /\ RingCap \in Nat \ {0} /\ MaxGen \in Nat \ {0}
  /\ \A d \in Deltas : CallerOf[d] \in Procs
  /\ ChildDomain \in DomIds
  /\ \A g \in 1 .. MaxGen : fresh_runtime_domain_id(g) \in DomIds
  BY DeltaAssumption DEF AllDeltas, Size, Procs, ChildDomain, DomIds, fresh_runtime_domain_id

(* No request is None, and a transaction at work is not Idle.              *)
LEMMA Shapes ==
  /\ None \notin RequestType
  /\ \A e \in RequestType :
       /\ e.kind \in Kinds /\ e.d \in AllDeltas /\ e.k \in Nat /\ e.gen \in 1 .. MaxGen
       /\ e.caller \in Procs /\ e.target \in DomIds /\ e.id \in Nat
  /\ Idle.pc = "idle"
  /\ \A t \in TxType : t # Idle =>
       /\ t.pc \in {"push", "kick", "draining", "poll", "commit", "roll_rules",
                    "roll_updates", "roll_mask"}
       /\ t.d \in AllDeltas /\ t.k \in Nat /\ t.base \in Nat
       /\ t.rules0 \in Nat /\ t.updates0 \in Nat /\ t.mask0 \in SUBSET Nat
<1>1. None \notin RequestType
  BY DEF None, RequestType
<1>2. \A e \in RequestType :
       /\ e.kind \in Kinds /\ e.d \in AllDeltas /\ e.k \in Nat /\ e.gen \in 1 .. MaxGen
       /\ e.caller \in Procs /\ e.target \in DomIds /\ e.id \in Nat
  BY DEF RequestType, Kinds
<1>. QED
  BY <1>1, <1>2 DEF Idle, TxType

(* What has been written stays genuine while the tables are left alone.    *)
LEMMA WrittenKept ==
  ASSUME gen \in Nat, gen' \in Nat, gen <= gen'
  PROVE  /\ \A e : Genuine(e) => Genuine(e)'
         /\ UNCHANGED <<ts_rules, ts_updates>> =>
              \A kind, n : Written(kind, n) => Written(kind, n)'
<1>1. \A e : Genuine(e) => Genuine(e)'
  <2>. SUFFICES ASSUME NEW e, Genuine(e) PROVE Genuine(e)'
    OBVIOUS
  <2>1. e.gen \in Nat
    BY Shapes, Sizes DEF Genuine
  <2>. QED
    BY <2>1 DEF Genuine
<1>2. ASSUME UNCHANGED <<ts_rules, ts_updates>>, NEW kind, NEW n, Written(kind, n)
      PROVE  Written(kind, n)'
  BY <1>1, <1>2 DEF Written, Slot
<1>. QED
  BY <1>1, <1>2

(* The request a transaction submits is genuine.                           *)
LEMMA RequestGenuine ==
  ASSUME IInv, tx # Idle
  PROVE  Genuine(Request(tx))
<1>1. /\ tx \in TxType /\ tx.d \in AllDeltas /\ tx.k \in 1 .. Size(tx.d) /\ tx.base \in Nat
      /\ gen \in 1 .. MaxGen
  BY Shapes, Sizes DEF IInv, Types, RtTypes, LifeCycle
<1>2. KindOf(tx.d, tx.k) \in Kinds
  BY DEF KindOf, Kinds
<1>3. Caller(tx.d) \in Procs /\ Target(tx.d) \in {ChildDomain, fresh_runtime_domain_id(gen)}
  BY <1>1, Sizes DEF Caller, Target, AllDeltas, Procs
<1>4. (IF KindOf(tx.d, tx.k) = "rule" THEN tx.base + tx.k - NUpdates[tx.d] ELSE 0) \in Nat
  BY <1>1, Sizes DEF KindOf
<1>. DEFINE id == IF KindOf(tx.d, tx.k) = "rule" THEN tx.base + tx.k - NUpdates[tx.d] ELSE 0
<1>5. Request(tx) = [kind |-> KindOf(tx.d, tx.k), d |-> tx.d, k |-> tx.k, gen |-> gen,
                     caller |-> Caller(tx.d), target |-> Target(tx.d), id |-> id]
  BY DEF Request
<1>6. tx.k \in Nat /\ Target(tx.d) \in DomIds /\ id \in Nat
  BY <1>1, <1>3, <1>4, Sizes
<1>. HIDE DEF id
<1>7. Request(tx) \in RequestType
  BY <1>1, <1>2, <1>3, <1>5, <1>6 DEF RequestType, Kinds
<1>. QED
  BY <1>1, <1>3, <1>5, <1>7 DEF Genuine

(* A fresh kernel.                                                         *)
LEMMA InitIInv ==
  Init => IInv
<1>. SUFFICES ASSUME Init PROVE IInv
  OBVIOUS
<1>1. drain = Free /\ tx = Idle /\ ring = <<>> /\ drain.at = "free" /\ ~drain.kick /\ tx.pc = "idle"
  BY DEF Init, Free, Idle
<1>2. drain \in DrainType
  BY <1>1 DEF Free, Procs, DrainType
<1>3. ring \in Seq(RequestType) /\ Len(ring) <= RingCap /\ tx \in TxType
  BY <1>1, Sizes DEF TxType
<1>4. ts_counts \in [Kinds -> Nat] /\ \A kind \in Kinds : ts_counts[kind] = 0
  BY DEF Init, Kinds
<1>5. Types
  <2>1. cap_state = [d \in {} |-> 0] /\ DOMAIN cap_state = {}
    BY DEF Init, NoDomains
  <2>2. catalog \in Seq([d : AllDeltas, k : Nat])
    BY DEF Init
  <2>3. /\ ts_rules \in [0 .. MAX_RULES - 1 -> RequestType \cup {None}]
        /\ ts_updates \in [0 .. MAX_UPDATES - 1 -> RequestType \cup {None}]
        /\ cap_task \in [Procs -> DomIds \cup {Unbound}]
        /\ cap_policy \in [DomIds -> SUBSET (0 .. MAX_RULES - 1)]
    BY DEF Init
  <2>4. gen \in 0 .. MaxGen /\ ts_counts["rule"] \in 0 .. MAX_RULES
        /\ ts_counts["update"] \in 0 .. MAX_UPDATES
    BY <1>4, Sizes DEF Init, Kinds
  <2>5. rt = "down" /\ accepted = {} /\ failed = {} /\ late = FALSE
    BY DEF Init
  <2>. QED
    BY <1>2, <1>3, <1>4, <2>1, <2>2, <2>3, <2>4, <2>5
       DEF Types, RtTypes, ChanTypes, CountTypes, SlotTypes, BindTypes, ReportTypes
<1>6. LifeCycle
  BY <1>1 DEF Init, LifeCycle
<1>7. Requests
  BY <1>1, <1>4 DEF Requests, Holding, Written
<1>. QED
  BY <1>5, <1>6, <1>7 DEF IInv

----------------------------------------------------------------------------
(* The steps of a drain.                                                   *)

(* What an action leaves alone keeps its type.                             *)
LEMMA Frames ==
  ASSUME Types
  PROVE  /\ UNCHANGED <<ring, drain>> => ChanTypes'
         /\ UNCHANGED ts_counts => CountTypes'
         /\ UNCHANGED <<ts_rules, ts_updates, cap_policy>> => SlotTypes'
         /\ UNCHANGED bindVars => BindTypes'
         /\ UNCHANGED reportVars => ReportTypes'
         /\ UNCHANGED <<rt, gen, late>> => RtTypes'
         /\ gen \in Nat
  BY DEF Types, ChanTypes, CountTypes, SlotTypes, BindTypes, ReportTypes, RtTypes,
         bindVars, reportVars

(* Any process enters getpid.                                              *)
LEMMA DrainStartKeeps ==
  ASSUME IInv, NEW p \in Procs, DrainStart(p)
  PROVE  IInv'
<1>1. /\ drain' = [who |-> p, at |-> "peek", kick |-> FALSE, e |-> None, idx |-> 0]
      /\ UNCHANGED <<rt, gen, tx, ring, ts_rules, ts_updates, ts_counts, cap_policy,
                     bindVars, reportVars, late>>
      /\ drain.at = "free"
  BY DEF DrainStart, Free, tableVars
<1>2. Types'
  <2>1. drain' \in DrainType
    BY <1>1 DEF DrainType
  <2>2. ChanTypes'
    BY <1>1, <2>1 DEF IInv, Types, ChanTypes
  <2>. QED
    BY <1>1, <2>2, Frames DEF IInv, Types
<1>3. LifeCycle'
  <2>1. drain'.kick = FALSE /\ drain'.at = "peek" /\ ~drain.kick
    BY <1>1 DEF IInv, LifeCycle
  <2>. QED
    BY <1>1, <2>1 DEF IInv, LifeCycle, bindVars
<1>4. Requests'
  <2>1. drain'.at = "peek" /\ gen \in Nat
    BY <1>1, Frames DEF IInv
  <2>. QED
    BY <1>1, <2>1, WrittenKept DEF IInv, Requests, Holding
<1>. QED
  BY <1>2, <1>3, <1>4 DEF IInv

(* The oldest request is admitted, or dropped.                             *)
LEMMA DrainTakeKeeps ==
  ASSUME IInv, DrainTake
  PROVE  IInv'
<1>1. /\ ring # <<>> /\ ring' = Tail(ring) /\ drain.at = "peek"
      /\ UNCHANGED <<rt, gen, tx, ts_rules, ts_updates, ts_counts, cap_policy,
                     bindVars, reportVars, late>>
      /\ drain' \in {drain, [drain EXCEPT !.at = "admitted", !.e = Head(ring)]}
  BY DEF DrainTake, tableVars
<1>2. /\ ring \in Seq(RequestType) /\ Len(ring) \in Nat \ {0} /\ drain \in DrainType
      /\ Head(ring) = ring[1] /\ Head(ring) \in RequestType
      /\ Tail(ring) \in Seq(RequestType) /\ Len(Tail(ring)) = Len(ring) - 1
      /\ \A i \in 1 .. Len(ring) - 1 : Tail(ring)[i] = ring[i + 1]
  BY <1>1 DEF IInv, Types, ChanTypes
<1>3. /\ drain' \in DrainType /\ drain'.kick = drain.kick
      /\ drain'.at \in {"peek", "admitted"}
      /\ drain'.at = "admitted" => drain'.e = Head(ring)
  BY <1>1, <1>2 DEF DrainType
<1>4. Types'
  <2>1. ChanTypes'
    BY <1>1, <1>2, <1>3, Sizes DEF IInv, Types, ChanTypes
  <2>. QED
    BY <1>1, <2>1, Frames DEF IInv, Types
<1>5. LifeCycle'
  BY <1>1, <1>3 DEF IInv, LifeCycle, bindVars
<1>6. Requests'
  <2>1. \A e : Genuine(e) => Genuine(e)'
    BY <1>1, Frames, WrittenKept DEF IInv
  <2>2. \A i \in 1 .. Len(ring') : Genuine(ring[i])'
    BY <1>1, <1>2, <2>1 DEF IInv, Requests
  <2>3. Genuine(Head(ring))
    BY <1>2 DEF IInv, Requests
  <2>4. Holding' => Genuine(drain.e)'
    BY <1>3, <2>1, <2>3 DEF Holding
  <2>. QED
    BY <1>1, <1>3, <2>2, <2>4, Frames, WrittenKept DEF IInv, Requests
<1>. QED
  BY <1>4, <1>5, <1>6 DEF IInv

(* A full table rejects the request.                                       *)
LEMMA DrainFullKeeps ==
  ASSUME IInv, DrainFull
  PROVE  IInv'
<1>1. /\ drain.at = "admitted" /\ drain' = [drain EXCEPT !.at = "peek", !.e = None]
      /\ UNCHANGED <<rt, gen, tx, ring, ts_rules, ts_updates, ts_counts, cap_policy,
                     bindVars, reportVars, late>>
  BY DEF DrainFull, tableVars
<1>2. drain' \in DrainType /\ drain'.kick = drain.kick /\ drain'.at = "peek"
  BY <1>1 DEF IInv, Types, ChanTypes, DrainType
<1>3. Types'
  <2>1. ChanTypes'
    BY <1>1, <1>2 DEF IInv, Types, ChanTypes
  <2>. QED
    BY <1>1, <2>1, Frames DEF IInv, Types
<1>4. LifeCycle'
  BY <1>1, <1>2 DEF IInv, LifeCycle, bindVars
<1>5. Requests'
  BY <1>1, <1>2, Frames, WrittenKept DEF IInv, Requests, Holding
<1>. QED
  BY <1>3, <1>4, <1>5 DEF IInv

(* The slot at the count is written, and bound, but not yet in force.      *)
LEMMA DrainWriteKeeps ==
  ASSUME IInv, DrainWrite
  PROVE  IInv'
<1>. DEFINE e == drain.e
            n == ts_counts[e.kind]
<1>1. /\ drain.at = "admitted" /\ SlotFree(e.kind)
      /\ drain' = [drain EXCEPT !.at = "written", !.idx = n]
      /\ UNCHANGED <<rt, gen, tx, ring, ts_counts, bindVars, reportVars, late>>
  BY DEF DrainWrite
<1>2. /\ Genuine(e) /\ e \in RequestType /\ e.kind \in Kinds /\ e.target \in DomIds
      /\ n \in Nat /\ n < Cap(e.kind) /\ n \in 0 .. Cap(e.kind) - 1
  BY <1>1, Shapes, Sizes DEF IInv, Types, CountTypes, Requests, Holding, Genuine, SlotFree, Cap, Kinds
<1>3. /\ drain' \in DrainType /\ drain'.kick = drain.kick /\ drain'.at = "written"
      /\ drain'.e = e /\ drain'.idx = n
  BY <1>1, <1>2 DEF IInv, Types, ChanTypes, DrainType
<1>4. /\ e.kind = "rule" =>
           /\ ts_rules' = [ts_rules EXCEPT ![n] = e] /\ UNCHANGED ts_updates
           /\ cap_policy' = [cap_policy EXCEPT ![e.target] = @ \cup {n}]
      /\ e.kind # "rule" =>
           ts_updates' = [ts_updates EXCEPT ![n] = e] /\ UNCHANGED <<ts_rules, cap_policy>>
  BY DEF DrainWrite
<1>5. Types'
  <2>1. ChanTypes'
    BY <1>1, <1>3 DEF IInv, Types, ChanTypes
  <2>2. SlotTypes'
    BY <1>2, <1>4 DEF IInv, Types, SlotTypes, Cap, Kinds
  <2>. QED
    BY <1>1, <2>1, <2>2, Frames DEF IInv, Types
<1>6. LifeCycle'
  BY <1>1, <1>3 DEF IInv, LifeCycle, bindVars
<1>. HIDE DEF e, n
<1>7. \A kind \in Kinds, i \in Nat : i < Cap(kind) =>
        Slot(kind, i)' = IF kind = e.kind /\ i = n THEN e ELSE Slot(kind, i)
  BY <1>2, <1>4, Sizes DEF IInv, Types, SlotTypes, Slot, Kinds, Cap
<1>8. ASSUME NEW kind \in Kinds, NEW m \in Nat, m <= Cap(kind), Written(kind, m)
      PROVE  Written(kind, m)' /\ (kind = e.kind /\ m = n => Written(kind, m + 1)')
  <2>1. \A x : Genuine(x) => Genuine(x)'
    BY <1>1, Frames, WrittenKept DEF IInv
  <2>2. Cap(kind) \in Nat
    BY Sizes DEF Cap
  <2>. QED
    BY <1>2, <1>7, <1>8, <2>1, <2>2 DEF Written
<1>9. Requests'
  <2>1. \A i \in 1 .. Len(ring') : Genuine(ring[i])'
    BY <1>1, Frames, WrittenKept DEF IInv, Requests
  <2>2. Genuine(drain.e)'
    BY <1>1, <1>2, <1>3, Frames, WrittenKept DEF IInv
  <2>3. \A kind \in Kinds : Written(kind, ts_counts[kind])'
    <3>1. \A kind \in Kinds : ts_counts[kind] \in Nat /\ ts_counts[kind] <= Cap(kind)
      BY Sizes DEF IInv, Types, CountTypes, Kinds, Cap
    <3>. QED
      BY <1>1, <1>8, <3>1 DEF IInv, Requests
  <2>4. Written(drain.e.kind, drain.idx + 1)' /\ drain'.idx < Cap(drain'.e.kind)
    <3>1. PICK kind \in Kinds, m \in Nat : kind = e.kind /\ m = n
      BY <1>2
    <3>2. Written(kind, m)
      BY <3>1 DEF IInv, Requests, n
    <3>3. Written(kind, m + 1)'
      <4>1. m <= Cap(kind)
        BY <1>2, <3>1, Sizes DEF Cap
      <4>. QED
        BY <1>8, <3>1, <3>2, <4>1
    <3>4. drain'.e.kind = kind /\ drain'.idx = m
      BY <1>3, <3>1
    <3>. QED
      BY <1>2, <3>1, <3>3, <3>4
  <2>5. tx' # Idle => Written("rule", tx.rules0)' /\ Written("update", tx.updates0)'
    <3>1. tx # Idle => /\ tx.rules0 \in Nat /\ tx.rules0 <= Cap("rule")
                       /\ tx.updates0 \in Nat /\ tx.updates0 <= Cap("update")
      BY Sizes DEF IInv, LifeCycle, Cap
    <3>. QED
      BY <1>1, <1>8, <3>1 DEF IInv, Requests, Kinds
  <2>. QED
    BY <2>1, <2>2, <2>3, <2>4, <2>5 DEF Requests
<1>. QED
  BY <1>5, <1>6, <1>9 DEF IInv

(* The count makes the slot live.                                          *)
LEMMA DrainCountKeeps ==
  ASSUME IInv, DrainCount
  PROVE  IInv'
<1>1. /\ drain.at = "written"
      /\ ts_counts' = [ts_counts EXCEPT ![drain.e.kind] = drain.idx + 1]
      /\ drain' = [drain EXCEPT !.at = "peek", !.e = None, !.idx = 0]
      /\ UNCHANGED <<rt, gen, tx, ring, ts_rules, ts_updates, cap_policy, bindVars,
                     reportVars, late>>
  BY DEF DrainCount
<1>2. drain' \in DrainType /\ drain'.kick = drain.kick /\ drain'.at = "peek"
  BY <1>1 DEF IInv, Types, ChanTypes, DrainType
<1>3. drain.e.kind \in Kinds /\ drain.idx \in Nat /\ drain.idx < Cap(drain.e.kind)
  BY <1>1, Shapes DEF IInv, Requests, Holding, Genuine, Types, ChanTypes, DrainType
<1>4. Types'
  <2>1. ChanTypes'
    BY <1>1, <1>2 DEF IInv, Types, ChanTypes
  <2>2. CountTypes'
    BY <1>1, <1>3, Sizes DEF IInv, Types, CountTypes, Kinds, Cap
  <2>. QED
    BY <1>1, <2>1, <2>2, Frames DEF IInv, Types
<1>5. LifeCycle'
  BY <1>1, <1>2 DEF IInv, LifeCycle, bindVars
<1>6. Requests'
  <2>1. \A kind \in Kinds : Written(kind, ts_counts[kind])'
    <3>1. \A kind \in Kinds : ts_counts'[kind] = IF kind = drain.e.kind THEN drain.idx + 1
                                                 ELSE ts_counts[kind]
      BY <1>1 DEF IInv, Types, CountTypes
    <3>. QED
      BY <1>1, <3>1, Frames, WrittenKept DEF IInv, Requests
  <2>. QED
    BY <1>1, <1>2, <2>1, Frames, WrittenKept DEF IInv, Requests, Holding
<1>. QED
  BY <1>4, <1>5, <1>6 DEF IInv

(* The drain finds the ring empty ...                                      *)
LEMMA DrainEmptyKeeps ==
  ASSUME IInv, DrainEmpty
  PROVE  IInv'
<1>1. /\ drain.at = "peek" /\ drain' = [drain EXCEPT !.at = "leaving"]
      /\ UNCHANGED <<rt, gen, tx, ring, ts_rules, ts_updates, ts_counts, cap_policy,
                     bindVars, reportVars, late>>
  BY DEF DrainEmpty, tableVars
<1>2. drain' \in DrainType /\ drain'.kick = drain.kick /\ drain'.at = "leaving"
  BY <1>1 DEF IInv, Types, ChanTypes, DrainType
<1>3. Types'
  <2>1. ChanTypes'
    BY <1>1, <1>2 DEF IInv, Types, ChanTypes
  <2>. QED
    BY <1>1, <2>1, Frames DEF IInv, Types
<1>4. LifeCycle'
  BY <1>1, <1>2 DEF IInv, LifeCycle, bindVars
<1>5. Requests'
  BY <1>1, <1>2, Frames, WrittenKept DEF IInv, Requests, Holding
<1>. QED
  BY <1>3, <1>4, <1>5 DEF IInv

----------------------------------------------------------------------------
(* The steps of a transaction.                                             *)

Pcs == {"push", "kick", "draining", "poll", "commit", "roll_rules", "roll_updates", "roll_mask"}

(* Transaction s is t with another program counter.                        *)
Moved(s, t, pc) ==
  /\ s \in TxType /\ s # Idle /\ s.pc = pc
  /\ s.d = t.d /\ s.k = t.k /\ s.base = t.base
  /\ s.rules0 = t.rules0 /\ s.updates0 = t.updates0 /\ s.mask0 = t.mask0

(* A program counter moves and everything else of a transaction stays.     *)
LEMMA PcMoves ==
  ASSUME NEW t \in TxType, t # Idle, NEW pc \in Pcs
  PROVE  Moved([t EXCEPT !.pc = pc], t, pc)
<1>. DEFINE s == [t EXCEPT !.pc = pc]
<1>1. /\ t \in [pc : Pcs, d : AllDeltas, k : Nat, base : Nat, rules0 : Nat, updates0 : Nat,
                mask0 : SUBSET Nat]
  BY DEF TxType, Pcs
<1>2. /\ s.pc = pc /\ pc # "idle"
      /\ s.d = t.d /\ s.k = t.k /\ s.base = t.base
      /\ s.rules0 = t.rules0 /\ s.updates0 = t.updates0 /\ s.mask0 = t.mask0
  BY <1>1 DEF Pcs
<1>3. s # Idle
  BY <1>2 DEF Idle
<1>4. s \in TxType
  BY <1>1 DEF TxType, Pcs
<1>. QED
  BY <1>2, <1>3, <1>4 DEF Moved

(* A step of a transaction that at most moves it, its drain and the counts.*)
LEMMA TxMoves ==
  ASSUME IInv,
         UNCHANGED <<rt, gen, ring, ts_rules, ts_updates, cap_policy, bindVars, reportVars>>,
         late' \in BOOLEAN, tx' \in TxType,
         tx' # Idle => /\ tx # Idle /\ tx'.d = tx.d /\ tx'.k \in 1 .. Size(tx.d)
                       /\ tx'.rules0 = tx.rules0 /\ tx'.updates0 = tx.updates0
                       /\ tx'.mask0 = tx.mask0,
         drain' \in DrainType,
         Holding' => drain'.e = drain.e /\ drain'.idx = drain.idx /\ drain'.at = drain.at,
         drain'.kick <=> tx'.pc = "draining",
         drain'.at = "free" => ~drain'.kick,
         \/ UNCHANGED ts_counts
         \/ CountTypes' /\ \A kind \in Kinds : Written(kind, ts_counts'[kind])
  PROVE  IInv'
<1>1. gen \in Nat /\ Types
  BY Frames DEF IInv
<1>2. Types'
  <2>1. RtTypes' /\ ChanTypes'
    BY DEF IInv, Types, RtTypes, ChanTypes
  <2>2. CountTypes'
    BY <1>1, Frames
  <2>. QED
    BY <1>1, <2>1, <2>2, Frames DEF IInv, Types
<1>3. LifeCycle'
  BY DEF IInv, LifeCycle, bindVars
<1>4. Requests'
  <2>1. \A i \in 1 .. Len(ring') : Genuine(ring[i])'
    BY <1>1, WrittenKept DEF IInv, Requests
  <2>2. Holding' => Genuine(drain.e)'
    BY <1>1, WrittenKept DEF IInv, Requests, Holding
  <2>3. ASSUME drain'.at = "written"
        PROVE  (drain.idx < Cap(drain.e.kind) /\ Written(drain.e.kind, drain.idx + 1))'
    BY <1>1, <2>3, WrittenKept DEF IInv, Requests, Holding
  <2>4. \A kind \in Kinds : Written(kind, ts_counts'[kind])
    BY DEF IInv, Requests
  <2>5. \A kind \in Kinds : Written(kind, ts_counts[kind])'
    BY <1>1, <2>4, WrittenKept
  <2>6. tx' # Idle => Written("rule", tx.rules0)' /\ Written("update", tx.updates0)'
    BY <1>1, WrittenKept DEF IInv, Requests
  <2>. QED
    BY <2>1, <2>2, <2>3, <2>5, <2>6 DEF Requests
<1>. QED
  BY <1>2, <1>3, <1>4 DEF IInv

(* ... and releases it; a runtime that waited for the drain goes on.       *)
LEMMA DrainReleaseKeeps ==
  ASSUME IInv, DrainRelease
  PROVE  IInv'
<1>1. /\ drain' = Free /\ late' = late
      /\ tx' = IF drain.kick THEN [tx EXCEPT !.pc = "poll"] ELSE tx
      /\ UNCHANGED <<rt, gen, ring, ts_rules, ts_updates, ts_counts, cap_policy,
                     bindVars, reportVars>>
  BY DEF DrainRelease, tableVars
<1>2. drain' \in DrainType /\ drain'.kick = FALSE /\ ~Holding'
  BY <1>1 DEF Free, DrainType, Procs, Holding
<1>3. tx \in TxType /\ late \in BOOLEAN /\ (drain.kick <=> tx.pc = "draining")
  BY DEF IInv, Types, RtTypes, LifeCycle
<1>4. drain.kick => tx # Idle
  BY <1>3 DEF Idle
<1>5. /\ tx' \in TxType /\ tx'.pc # "draining"
      /\ tx' # Idle => /\ tx # Idle /\ tx'.d = tx.d /\ tx'.k = tx.k
                       /\ tx'.rules0 = tx.rules0 /\ tx'.updates0 = tx.updates0
                       /\ tx'.mask0 = tx.mask0
  <2>1. CASE drain.kick
    BY <1>1, <1>3, <1>4, <2>1, PcMoves DEF Pcs, Moved
  <2>2. CASE ~drain.kick
    BY <1>1, <1>3, <2>2
  <2>. QED
    BY <2>1, <2>2
<1>6. tx # Idle => tx.k \in 1 .. Size(tx.d)
  BY DEF IInv, LifeCycle
<1>. QED
  BY <1>1, <1>2, <1>3, <1>5, <1>6, TxMoves

(* A transaction starts from the counts and the mask it finds.             *)
LEMMA BeginKeeps ==
  ASSUME IInv, NEW d \in AllDeltas, Begin(d)
  PROVE  IInv'
<1>. DEFINE b == IF d = Policy THEN 0 ELSE Len(catalog)
<1>1. /\ tx = Idle /\ rt \in {"install", "up"}
      /\ tx' = [pc |-> "push", d |-> d, k |-> 1, base |-> b,
                rules0 |-> ts_counts["rule"], updates0 |-> ts_counts["update"],
                mask0 |-> cap_policy[Target(d)]]
      /\ UNCHANGED <<rt, gen, ring, drain, ts_rules, ts_updates, ts_counts, cap_policy,
                     bindVars, reportVars, late>>
  BY DEF Begin, chanVars, tableVars
<1>2. /\ b \in Nat /\ ts_counts["rule"] \in 0 .. MAX_RULES
      /\ ts_counts["update"] \in 0 .. MAX_UPDATES
      /\ gen \in 1 .. MaxGen /\ cap_policy[Target(d)] \in SUBSET (0 .. MAX_RULES - 1)
      /\ MAX_RULES \in Nat /\ MAX_UPDATES \in Nat /\ Size(d) \in Nat \ {0}
  <2>1. b \in Nat
    BY DEF IInv, Types, ReportTypes
  <2>2. gen \in 1 .. MaxGen
    BY <1>1, Sizes DEF IInv, Types, RtTypes, LifeCycle
  <2>3. Target(d) \in DomIds
    BY <2>2, Sizes DEF Target
  <2>. QED
    BY <2>1, <2>2, <2>3, Sizes DEF IInv, Types, CountTypes, SlotTypes
<1>. HIDE DEF b
<1>3. /\ tx'.pc = "push" /\ tx'.d = d /\ tx'.k = 1 /\ tx'.base = b
      /\ tx'.rules0 = ts_counts["rule"] /\ tx'.updates0 = ts_counts["update"]
      /\ tx'.mask0 = cap_policy[Target(d)]
  BY <1>1
<1>4. tx' \in TxType /\ tx' # Idle
  <2>1. cap_policy[Target(d)] \in SUBSET Nat
    BY <1>2
  <2>2. tx' \in TxType
    BY <1>1, <1>2, <2>1 DEF TxType
  <2>. QED
    BY <1>3, <2>2 DEF Idle
<1>5. Types'
  BY <1>1, <1>4, Frames DEF IInv, Types
<1>6. LifeCycle'
  <2>1. ~drain.kick
    BY <1>1 DEF IInv, LifeCycle, Idle
  <2>. QED
    BY <1>1, <1>2, <1>3, <2>1 DEF IInv, LifeCycle, bindVars
<1>7. Requests'
  <2>1. /\ \A e : Genuine(e) => Genuine(e)'
        /\ \A kind, n : Written(kind, n) => Written(kind, n)'
    BY <1>1, Frames, WrittenKept DEF IInv
  <2>2. Written("rule", tx'.rules0) /\ Written("update", tx'.updates0)
    BY <1>3 DEF IInv, Requests, Kinds
  <2>3. (Written("rule", tx.rules0) /\ Written("update", tx.updates0))'
    BY <2>1, <2>2
  <2>. QED
    BY <1>1, <2>1, <2>3 DEF IInv, Requests, Holding
<1>. QED
  BY <1>5, <1>6, <1>7 DEF IInv

(* A request enters the ring, or finds it full.                            *)
LEMMA PushKeeps ==
  ASSUME IInv, Push
  PROVE  IInv'
<1>1. /\ tx.pc = "push"
      /\ UNCHANGED <<rt, gen, drain, ts_rules, ts_updates, ts_counts, cap_policy,
                     bindVars, reportVars, late>>
  BY DEF Push, tableVars
<1>2. /\ tx # Idle /\ tx \in TxType /\ tx.k \in 1 .. Size(tx.d)
      /\ ~drain.kick /\ drain \in DrainType /\ late \in BOOLEAN
  <2>1. tx # Idle
    BY <1>1 DEF Idle
  <2>. QED
    BY <1>1, <2>1 DEF IInv, Types, RtTypes, ChanTypes, LifeCycle
<1>3. /\ \E pc \in {"kick", "roll_rules"} : tx' = [tx EXCEPT !.pc = pc]
      /\ \/ UNCHANGED ring
         \/ ring' = Append(ring, Request(tx)) /\ Len(ring) < RingCap
  BY DEF Push
<1>4. /\ tx' \in TxType /\ tx' # Idle /\ tx'.d = tx.d /\ tx'.k = tx.k
      /\ tx'.rules0 = tx.rules0 /\ tx'.updates0 = tx.updates0
      /\ tx'.mask0 = tx.mask0 /\ tx'.pc \in {"kick", "roll_rules"}
  <2>1. PICK pc \in {"kick", "roll_rules"} : tx' = [tx EXCEPT !.pc = pc]
    BY <1>3
  <2>2. Moved(tx', tx, pc)
    BY <1>2, <2>1, PcMoves DEF Pcs
  <2>. QED
    BY <2>2 DEF Moved
<1>5. /\ ring' \in Seq(RequestType) /\ Len(ring') <= RingCap
      /\ \A i \in 1 .. Len(ring') : Genuine(ring'[i])
  <2>1. /\ ring \in Seq(RequestType) /\ Len(ring) <= RingCap
        /\ \A i \in 1 .. Len(ring) : Genuine(ring[i])
    BY DEF IInv, Types, ChanTypes, Requests
  <2>2. Genuine(Request(tx)) /\ Request(tx) \in RequestType
    BY <1>2, RequestGenuine DEF Genuine
  <2>3. CASE ring' = Append(ring, Request(tx)) /\ Len(ring) < RingCap
    <3>. DEFINE r == Request(tx)
    <3>. HIDE DEF r
    <3>1. /\ Len(ring') = Len(ring) + 1 /\ ring' \in Seq(RequestType)
          /\ \A i \in 1 .. Len(ring) : ring'[i] = ring[i]
          /\ ring'[Len(ring) + 1] = r
      BY <2>1, <2>2, <2>3 DEF r
    <3>. QED
      BY <2>1, <2>2, <2>3, <3>1, Sizes DEF r
  <2>. QED
    BY <1>3, <2>1, <2>3
<1>6. Types'
  <2>1. ChanTypes'
    BY <1>1, <1>2, <1>5 DEF ChanTypes
  <2>. QED
    BY <1>1, <1>4, <2>1, Frames DEF IInv, Types
<1>7. LifeCycle'
  BY <1>1, <1>2, <1>4 DEF IInv, LifeCycle, bindVars
<1>8. Requests'
  <2>1. /\ \A e : Genuine(e) => Genuine(e)'
        /\ \A kind, n : Written(kind, n) => Written(kind, n)'
    BY <1>1, Frames, WrittenKept DEF IInv
  <2>2. \A i \in 1 .. Len(ring') : Genuine(ring[i])'
    BY <1>5, <2>1
  <2>3. tx' # Idle => (Written("rule", tx.rules0) /\ Written("update", tx.updates0))'
    BY <1>2, <1>4, <2>1 DEF IInv, Requests
  <2>. QED
    BY <1>1, <2>1, <2>2, <2>3 DEF IInv, Requests, Holding
<1>. QED
  BY <1>6, <1>7, <1>8 DEF IInv

(* What is known of a transaction that is not idle.                        *)
LEMMA TxFacts ==
  ASSUME IInv, tx.pc \in Pcs
  PROVE  /\ tx # Idle /\ tx \in TxType /\ tx.d \in AllDeltas /\ tx.k \in 1 .. Size(tx.d)
         /\ gen \in 1 .. MaxGen /\ rt \in {"install", "up"}
         /\ Target(tx.d) \in DomIds
         /\ (drain.kick <=> tx.pc = "draining")
         /\ drain \in DrainType /\ late \in BOOLEAN
<1>1. tx # Idle
  BY DEF Idle, Pcs
<1>2. /\ tx \in TxType /\ tx.d \in AllDeltas /\ tx.k \in 1 .. Size(tx.d)
      /\ gen \in 1 .. MaxGen /\ rt \in {"install", "up"}
  BY <1>1, Shapes, Sizes DEF IInv, Types, RtTypes, LifeCycle
<1>3. Target(tx.d) \in DomIds
  BY <1>2, Sizes DEF Target
<1>. QED
  BY <1>1, <1>2, <1>3 DEF IInv, Types, RtTypes, ChanTypes, LifeCycle

(* getpid by the runtime.                                                  *)
LEMMA KickKeeps ==
  ASSUME IInv, Kick
  PROVE  IInv'
<1>1. /\ tx.pc = "kick" /\ late' = late
      /\ UNCHANGED <<rt, gen, ring, ts_rules, ts_updates, ts_counts, cap_policy,
                     bindVars, reportVars>>
  BY DEF Kick, tableVars
<1>2. tx.pc \in Pcs
  BY <1>1 DEF Pcs
<1>3. CASE drain.at = "free"
  <2>1. /\ drain' = [who |-> Control, at |-> "peek", kick |-> TRUE, e |-> None, idx |-> 0]
        /\ tx' = [tx EXCEPT !.pc = "draining"]
    BY <1>3 DEF Kick, Free
  <2>2. Moved(tx', tx, "draining")
    BY <1>2, <2>1, TxFacts, PcMoves DEF Pcs
  <2>3. drain' \in DrainType /\ drain'.kick = TRUE /\ ~Holding' /\ drain'.at = "peek"
    BY <2>1 DEF DrainType, Procs, Holding
  <2>. QED
    BY <1>1, <1>2, <2>2, <2>3, TxFacts, TxMoves DEF Moved
<1>4. CASE drain.at # "free"
  <2>1. UNCHANGED drain /\ tx' = [tx EXCEPT !.pc = "poll"]
    BY <1>4 DEF Kick
  <2>2. Moved(tx', tx, "poll")
    BY <1>2, <2>1, TxFacts, PcMoves DEF Pcs
  <2>3. ~drain.kick
    BY <1>1, <1>2, TxFacts
  <2>. QED
    BY <1>1, <1>2, <2>1, <2>2, <2>3, TxFacts, TxMoves DEF Moved
<1>. QED
  BY <1>3, <1>4

(* The runtime sees the count it waits for, or gives up.                   *)
LEMMA PollKeeps ==
  ASSUME IInv, PollAdmitted \/ PollFailed
  PROVE  IInv'
<1>1. /\ tx.pc = "poll" /\ late' \in BOOLEAN
      /\ UNCHANGED <<rt, gen, ring, drain, ts_rules, ts_updates, ts_counts, cap_policy,
                     bindVars, reportVars>>
  BY DEF PollAdmitted, PollFailed, chanVars, tableVars, IInv, Types, RtTypes
<1>2. tx.pc \in Pcs /\ tx.k \in Nat
  BY <1>1, TxFacts DEF Pcs
<1>3. ASSUME PollAdmitted, tx.k < Size(tx.d) PROVE IInv'
  <2>1. tx' = [[tx EXCEPT !.pc = "push"] EXCEPT !.k = @ + 1]
    BY <1>3 DEF PollAdmitted
  <2>2. tx \in [pc : Pcs, d : AllDeltas, k : Nat, base : Nat, rules0 : Nat, updates0 : Nat,
                mask0 : SUBSET Nat]
    BY <1>2, TxFacts DEF TxType, Pcs
  <2>3. /\ tx'.pc = "push" /\ tx'.d = tx.d /\ tx'.k = tx.k + 1
        /\ tx'.rules0 = tx.rules0 /\ tx'.updates0 = tx.updates0 /\ tx'.mask0 = tx.mask0
    BY <2>1, <2>2
  <2>4. tx' \in TxType
    <3>. DEFINE s == [tx EXCEPT !.pc = "push"]
    <3>1. s \in [pc : Pcs, d : AllDeltas, k : Nat, base : Nat, rules0 : Nat, updates0 : Nat,
                 mask0 : SUBSET Nat]
      BY <2>2 DEF Pcs
    <3>2. tx' = [s EXCEPT !.k = s.k + 1]
      BY <2>1, <3>1
    <3>. HIDE DEF s
    <3>3. tx' \in [pc : Pcs, d : AllDeltas, k : Nat, base : Nat, rules0 : Nat, updates0 : Nat,
                   mask0 : SUBSET Nat]
      BY <3>1, <3>2
    <3>. QED
      BY <3>3 DEF TxType, Pcs
  <2>5. tx.k + 1 \in 1 .. Size(tx.d)
    BY <1>2, <1>3, TxFacts, Sizes
  <2>6. ~drain.kick
    BY <1>1, <1>2, TxFacts
  <2>. QED
    BY <1>1, <1>2, <2>3, <2>4, <2>5, <2>6, TxFacts, TxMoves
<1>4. ASSUME NEW pc \in {"commit", "roll_rules"}, tx' = [tx EXCEPT !.pc = pc] PROVE IInv'
  <2>1. Moved(tx', tx, pc)
    BY <1>2, <1>4, TxFacts, PcMoves DEF Pcs
  <2>2. ~drain.kick /\ tx'.pc # "draining"
    BY <1>1, <1>2, <2>1, TxFacts DEF Moved
  <2>. QED
    BY <1>1, <1>2, <2>1, <2>2, TxFacts, TxMoves DEF Moved
<1>5. \/ PollAdmitted /\ tx.k < Size(tx.d)
      \/ \E pc \in {"commit", "roll_rules"} : tx' = [tx EXCEPT !.pc = pc]
  BY DEF PollAdmitted, PollFailed
<1>. QED
  BY <1>3, <1>4, <1>5

(* The rollback puts the counts back to where slots are written.           *)
LEMMA RollCountsKeep ==
  ASSUME IInv, RollRules \/ RollUpdates
  PROVE  IInv'
<1>1. /\ tx.pc \in {"roll_rules", "roll_updates"} /\ late' = late
      /\ UNCHANGED <<rt, gen, ring, drain, ts_rules, ts_updates, cap_policy,
                     bindVars, reportVars>>
      /\ \E pc \in {"roll_updates", "roll_mask"} : tx' = [tx EXCEPT !.pc = pc]
  BY DEF RollRules, RollUpdates, chanVars
<1>2. tx.pc \in Pcs /\ ~drain.kick
  BY <1>1, TxFacts DEF Pcs
<1>3. /\ tx.rules0 \in 0 .. MAX_RULES /\ tx.updates0 \in 0 .. MAX_UPDATES
      /\ Written("rule", tx.rules0) /\ Written("update", tx.updates0)
      /\ MAX_RULES \in Nat /\ MAX_UPDATES \in Nat
  BY <1>2, TxFacts, Sizes DEF IInv, LifeCycle, Requests
<1>4. /\ ts_counts \in [Kinds -> Nat]
      /\ \/ ts_counts' = [ts_counts EXCEPT !["rule"] = tx.rules0]
         \/ ts_counts' = [ts_counts EXCEPT !["update"] = tx.updates0]
  BY DEF RollRules, RollUpdates, IInv, Types, CountTypes
<1>5. CountTypes'
  BY <1>3, <1>4 DEF IInv, Types, CountTypes, Kinds
<1>6. \A kind \in Kinds : Written(kind, ts_counts'[kind])
  <2>1. CASE ts_counts' = [ts_counts EXCEPT !["rule"] = tx.rules0]
    <3>1. ts_counts'["rule"] = tx.rules0 /\ ts_counts'["update"] = ts_counts["update"]
      BY <1>4, <2>1 DEF Kinds
    <3>. QED
      BY <1>3, <3>1 DEF IInv, Requests, Kinds
  <2>2. CASE ts_counts' = [ts_counts EXCEPT !["update"] = tx.updates0]
    <3>1. ts_counts'["update"] = tx.updates0 /\ ts_counts'["rule"] = ts_counts["rule"]
      BY <1>4, <2>2 DEF Kinds
    <3>. QED
      BY <1>3, <3>1 DEF IInv, Requests, Kinds
  <2>. QED
    BY <1>4, <2>1, <2>2
<1>7. PICK pc \in {"roll_updates", "roll_mask"} : tx' = [tx EXCEPT !.pc = pc]
  BY <1>1
<1>8. Moved(tx', tx, pc)
  BY <1>2, <1>7, TxFacts, PcMoves DEF Pcs
<1>9. tx'.pc # "draining"
  BY <1>8 DEF Moved
<1>. QED
  BY <1>1, <1>2, <1>5, <1>6, <1>8, <1>9, TxFacts, TxMoves DEF Moved

(* The last write of the rollback, and the answer.                         *)
LEMMA RollMaskKeeps ==
  ASSUME IInv, RollMask
  PROVE  IInv'
<1>1. /\ tx.pc = "roll_mask"
      /\ cap_policy' = [cap_policy EXCEPT ![Target(tx.d)] = tx.mask0]
      /\ failed' = failed \cup {tx.d} /\ tx' = Idle
      /\ rt' = IF rt = "install" THEN "down" ELSE rt
      /\ UNCHANGED <<gen, ring, drain, ts_rules, ts_updates, ts_counts, bindVars,
                     catalog, accepted, late>>
  BY DEF RollMask, chanVars
<1>2. tx.pc \in Pcs /\ ~drain.kick /\ tx.mask0 \subseteq 0 .. MAX_RULES - 1
  BY <1>1, TxFacts DEF Pcs, IInv, LifeCycle
<1>3. tx' \in TxType /\ tx'.pc = "idle"
  BY <1>1 DEF TxType, Idle
<1>4. Types'
  <2>1. RtTypes' /\ ReportTypes' /\ SlotTypes'
    BY <1>1, <1>2, TxFacts DEF IInv, Types, RtTypes, ReportTypes, SlotTypes
  <2>. QED
    BY <1>1, <1>3, <2>1, Frames DEF IInv, Types
<1>5. LifeCycle'
  BY <1>1, <1>2, <1>3 DEF IInv, LifeCycle, bindVars
<1>6. Requests'
  BY <1>1, Frames, WrittenKept DEF IInv, Requests, Holding
<1>. QED
  BY <1>4, <1>5, <1>6 DEF IInv

(* The metadata of a delta: one record for each rule.                      *)
LEMMA RuleMetaType ==
  ASSUME NEW d \in AllDeltas
  PROVE  RuleMeta(d) \in Seq([d : AllDeltas, k : Nat]) /\ Len(RuleMeta(d)) = NRules[d]
<1>1. RuleMeta(d) \in [1 .. NRules[d] -> [d : AllDeltas, k : Nat]]
  BY Sizes DEF RuleMeta
<1>2. RuleMeta(d) \in Seq([d : AllDeltas, k : Nat])
  <2>. DEFINE S == [d : AllDeltas, k : Nat]
  <2>. HIDE DEF S
  <2>1. \E n \in Nat : RuleMeta(d) \in [1 .. n -> S]
    BY <1>1, Sizes DEF S
  <2>2. RuleMeta(d) \in UNION {[1 .. n -> S] : n \in Nat}
    BY <2>1
  <2>3. Seq(S) = UNION {[1 .. n -> S] : n \in Nat}
    BY SeqDef, Zenon
  <2>4. RuleMeta(d) \in Seq(S)
    BY <2>2, <2>3, Zenon
  <2>. QED
    BY <2>4 DEF S
<1>. QED
  BY <1>1, <1>2, Sizes, LenProperties

(* A success.                                                              *)
LEMMA CommitKeeps ==
  ASSUME IInv, Commit
  PROVE  IInv'
<1>1. /\ tx.pc = "commit" /\ tx' = Idle
      /\ catalog' = IF tx.d = Policy THEN catalog ELSE catalog \o RuleMeta(tx.d)
      /\ accepted' = accepted \cup {tx.d}
      /\ rt' = IF rt = "install" THEN "up" ELSE rt
      /\ UNCHANGED <<gen, ring, drain, ts_rules, ts_updates, ts_counts, cap_policy,
                     bindVars, failed, late>>
  BY DEF Commit, chanVars, tableVars
<1>2. tx.pc \in Pcs /\ ~drain.kick
  BY <1>1, TxFacts DEF Pcs
<1>3. tx' \in TxType /\ tx'.pc = "idle"
  BY <1>1 DEF TxType, Idle
<1>4. RuleMeta(tx.d) \in Seq([d : AllDeltas, k : Nat])
  BY <1>2, TxFacts, RuleMetaType
<1>5. Types'
  <2>1. RtTypes'
    BY <1>1, <1>2, TxFacts DEF IInv, Types, RtTypes
  <2>2. ReportTypes'
    BY <1>1, <1>2, <1>4, TxFacts DEF IInv, Types, ReportTypes
  <2>. QED
    BY <1>1, <1>3, <2>1, <2>2, Frames DEF IInv, Types
<1>6. LifeCycle'
  BY <1>1, <1>2, <1>3, TxFacts DEF IInv, LifeCycle, bindVars
<1>7. Requests'
  BY <1>1, Frames, WrittenKept DEF IInv, Requests, Holding
<1>. QED
  BY <1>5, <1>6, <1>7 DEF IInv

----------------------------------------------------------------------------
(* The life cycle of a runtime.                                            *)

(* What every step of the life cycle but Start and Crash leaves alone.     *)
LEMMA LifeMoves ==
  ASSUME IInv,
         UNCHANGED <<gen, tx, ring, drain, ts_rules, ts_updates, reportVars, late>>,
         RtTypes', CountTypes', SlotTypes', BindTypes',
         rt' = "down" \/ rt # "down",
         tx = Idle \/ rt' = rt,
         rt' \in {"install", "up"} => cap_task'[Agent] = fresh_runtime_domain_id(gen),
         \/ UNCHANGED ts_counts
         \/ \A kind \in Kinds : ts_counts'[kind] = 0
  PROVE  IInv'
<1>1. Types'
  BY Frames DEF IInv, Types
<1>2. LifeCycle'
  BY DEF IInv, LifeCycle
<1>3. Requests'
  <2>1. /\ \A e : Genuine(e) => Genuine(e)'
        /\ \A kind, n : Written(kind, n) => Written(kind, n)'
    BY Frames, WrittenKept DEF IInv
  <2>2. \A kind \in Kinds : Written(kind, ts_counts[kind])'
    BY <2>1 DEF IInv, Requests, Written
  <2>. QED
    BY <2>1, <2>2 DEF IInv, Requests, Holding
<1>. QED
  BY <1>1, <1>2, <1>3 DEF IInv

(* The program counter of a transaction and the life cycle.                *)
LEMMA NotServing ==
  ASSUME IInv, rt \notin {"install", "up"}
  PROVE  tx = Idle
  BY DEF IInv, LifeCycle

(* clear_runtime_state, map by map.                                        *)
LEMMA ClearKeeps ==
  ASSUME IInv, ClearStep
  PROVE  IInv'
<1>1. /\ tx = Idle /\ rt # "down" /\ rt' \notin {"install", "up"}
      /\ UNCHANGED <<gen, tx, ring, drain, ts_rules, ts_updates, reportVars, late>>
      /\ RtTypes'
  BY NotServing DEF ClearStep, ClearCounts, ClearTask, ClearState, ClearPolicy, chanVars,
                    tableVars, IInv, Types, RtTypes
<1>2. CASE ClearCounts
  <2>1. /\ ts_counts' = [k \in {"rule", "update"} |-> 0]
        /\ UNCHANGED <<ts_rules, ts_updates, cap_policy, bindVars>>
    BY <1>2 DEF ClearCounts
  <2>2. CountTypes' /\ \A kind \in Kinds : ts_counts'[kind] = 0
    BY <2>1, Sizes DEF CountTypes, Kinds
  <2>. QED
    BY <1>1, <2>1, <2>2, Frames, LifeMoves DEF IInv
<1>3. CASE ClearTask
  <2>1. cap_task' = [p \in Procs |-> Unbound] /\ UNCHANGED <<tableVars, cap_state>>
    BY <1>3 DEF ClearTask
  <2>2. BindTypes' /\ CountTypes' /\ SlotTypes' /\ UNCHANGED ts_counts
    BY <2>1, Frames DEF IInv, Types, BindTypes, tableVars
  <2>. QED
    BY <1>1, <2>2, LifeMoves
<1>4. CASE ClearState
  <2>1. cap_state' = NoDomains /\ UNCHANGED <<tableVars, cap_task>>
    BY <1>4 DEF ClearState
  <2>2. DOMAIN cap_state' = {}
    BY <2>1 DEF NoDomains
  <2>3. BindTypes' /\ CountTypes' /\ SlotTypes' /\ UNCHANGED ts_counts
    BY <2>1, <2>2, Frames DEF IInv, Types, BindTypes, tableVars
  <2>. QED
    BY <1>1, <2>3, LifeMoves
<1>5. CASE ClearPolicy
  <2>1. /\ cap_policy' = [d \in DomIds |-> {}]
        /\ UNCHANGED <<ts_rules, ts_updates, ts_counts, bindVars>>
    BY <1>5 DEF ClearPolicy
  <2>2. SlotTypes'
    BY <2>1 DEF IInv, Types, SlotTypes
  <2>. QED
    BY <1>1, <2>1, <2>2, Frames, LifeMoves DEF IInv
<1>. QED
  BY <1>2, <1>3, <1>4, <1>5 DEF ClearStep

(* The domains of a runtime and of its children.                           *)
LEMMA NewDomainTypes ==
  ASSUME Types, NEW d \in DomIds, NEW q \in DomIds \cup {Unbound}, NewDomain(d, q),
         cap_task' \in [Procs -> DomIds \cup {Unbound}]
  PROVE  BindTypes'
<1>1. DOMAIN cap_state' = DOMAIN cap_state \cup {d}
  BY DEF NewDomain
<1>2. \A x \in DOMAIN cap_state' : cap_state'[x] \in DomIds \cup {Unbound}
  BY DEF NewDomain, Types, BindTypes
<1>. QED
  BY <1>1, <1>2 DEF Types, BindTypes

(* The agent and the runtime get the domain of this runtime.               *)
LEMMA SeedKeeps ==
  ASSUME IInv, Seed
  PROVE  IInv'
<1>. DEFINE dom == fresh_runtime_domain_id(gen)
<1>1. /\ rt = "seed" /\ rt' = "install" /\ NewDomain(dom, Unbound)
      /\ cap_task' = [[cap_task EXCEPT ![Agent] = dom] EXCEPT ![Control] = dom]
      /\ UNCHANGED <<gen, tx, ring, drain, ts_rules, ts_updates, ts_counts, cap_policy,
                     reportVars, late>>
  BY DEF Seed, chanVars, tableVars
<1>2. tx = Idle /\ gen \in 1 .. MaxGen /\ dom \in DomIds
  BY <1>1, NotServing, Sizes DEF IInv, Types, RtTypes, LifeCycle
<1>. HIDE DEF dom
<1>3. /\ cap_task' \in [Procs -> DomIds \cup {Unbound}] /\ cap_task'[Agent] = dom
  BY <1>1, <1>2, DeltaAssumption DEF IInv, Types, BindTypes, Procs
<1>4. BindTypes'
  BY <1>1, <1>2, <1>3, NewDomainTypes DEF IInv
<1>5. RtTypes'
  BY <1>1 DEF IInv, Types, RtTypes
<1>6. CountTypes' /\ SlotTypes'
  BY <1>1, Frames DEF IInv
<1>. QED
  BY <1>1, <1>2, <1>3, <1>4, <1>5, <1>6, LifeMoves DEF dom

(* A child gets a domain of its own.                                       *)
LEMMA BindChildKeeps ==
  ASSUME IInv, BindChild
  PROVE  IInv'
<1>. DEFINE dom == fresh_runtime_domain_id(gen)
<1>1. /\ rt = "up" /\ NewDomain(ChildDomain, dom)
      /\ cap_task' = [cap_task EXCEPT ![Child] = ChildDomain]
      /\ UNCHANGED <<rt, gen, tx, ring, drain, ts_rules, ts_updates, ts_counts, cap_policy,
                     reportVars, late>>
  BY DEF BindChild, chanVars, tableVars
<1>2. gen \in 1 .. MaxGen /\ dom \in DomIds /\ ChildDomain \in DomIds /\ cap_task[Agent] = dom
  BY <1>1, Sizes DEF IInv, Types, RtTypes, LifeCycle
<1>. HIDE DEF dom
<1>3. cap_task' \in [Procs -> DomIds \cup {Unbound}] /\ cap_task'[Agent] = dom
  BY <1>1, <1>2, DeltaAssumption DEF IInv, Types, BindTypes, Procs
<1>4. BindTypes'
  BY <1>1, <1>2, <1>3, NewDomainTypes DEF IInv
<1>5. RtTypes' /\ CountTypes' /\ SlotTypes'
  BY <1>1, Frames DEF IInv
<1>. QED
  BY <1>1, <1>2, <1>3, <1>4, <1>5, LifeMoves DEF dom

(* A runtime shuts down.                                                   *)
LEMMA StopKeeps ==
  ASSUME IInv, Stop
  PROVE  IInv'
<1>1. /\ rt = "up" /\ rt' = "stop_counts" /\ tx = Idle
      /\ UNCHANGED <<gen, tx, ring, drain, ts_rules, ts_updates, ts_counts, cap_policy,
                     bindVars, reportVars, late>>
  BY DEF Stop, chanVars, tableVars
<1>2. RtTypes'
  BY <1>1 DEF IInv, Types, RtTypes
<1>. QED
  BY <1>1, <1>2, Frames, LifeMoves DEF IInv

(* The next runtime: the requests of earlier ones stay what they are.      *)
LEMMA StartKeeps ==
  ASSUME IInv, Start
  PROVE  IInv'
<1>1. /\ rt = "down" /\ gen < MaxGen /\ gen' = gen + 1 /\ rt' = "clear_counts"
      /\ accepted' = {} /\ failed' = {} /\ catalog' = RuleMeta(Policy)
      /\ UNCHANGED <<tx, ring, drain, ts_rules, ts_updates, ts_counts, cap_policy,
                     bindVars, late>>
  BY DEF Start, chanVars, tableVars
<1>2. tx = Idle /\ gen \in Nat /\ gen' \in Nat \ {0} /\ gen <= gen' /\ gen' \in 0 .. MaxGen
  BY <1>1, NotServing, Sizes DEF IInv, Types, RtTypes
<1>3. Types'
  <2>1. RtTypes'
    BY <1>1, <1>2 DEF IInv, Types, RtTypes
  <2>2. ReportTypes'
    BY <1>1, RuleMetaType DEF ReportTypes, AllDeltas
  <2>. QED
    BY <1>1, <2>1, <2>2, Frames DEF IInv, Types
<1>4. LifeCycle'
  BY <1>1, <1>2 DEF IInv, LifeCycle
<1>5. Requests'
  BY <1>1, <1>2, WrittenKept DEF IInv, Requests, Holding
<1>. QED
  BY <1>3, <1>4, <1>5 DEF IInv

(* The runtime is killed: its drain, if any, is nobody's.                  *)
LEMMA CrashKeeps ==
  ASSUME IInv, Crash
  PROVE  IInv'
<1>1. /\ rt' = "down" /\ tx' = Idle /\ drain' = [drain EXCEPT !.kick = FALSE]
      /\ late' \in BOOLEAN
      /\ UNCHANGED <<gen, ring, ts_rules, ts_updates, ts_counts, cap_policy,
                     bindVars, reportVars>>
  BY DEF Crash, tableVars, IInv, Types, RtTypes
<1>2. /\ drain' \in DrainType /\ drain'.kick = FALSE /\ drain'.at = drain.at
      /\ drain'.e = drain.e /\ drain'.idx = drain.idx
  BY <1>1 DEF IInv, Types, ChanTypes, DrainType
<1>3. tx' \in TxType /\ tx'.pc = "idle"
  BY <1>1 DEF TxType, Idle
<1>4. Types'
  <2>1. RtTypes' /\ ChanTypes'
    BY <1>1, <1>2 DEF IInv, Types, RtTypes, ChanTypes
  <2>. QED
    BY <1>1, <1>3, <2>1, Frames DEF IInv, Types
<1>5. LifeCycle'
  BY <1>1, <1>2, <1>3 DEF IInv, LifeCycle
<1>6. Requests'
  <2>1. /\ \A e : Genuine(e) => Genuine(e)'
        /\ \A kind, n : Written(kind, n) => Written(kind, n)'
    BY <1>1, Frames, WrittenKept DEF IInv
  <2>2. (Holding => Genuine(drain.e))'
    BY <1>2, <2>1 DEF IInv, Requests, Holding
  <2>3. ASSUME drain'.at = "written"
        PROVE  (drain.idx < Cap(drain.e.kind) /\ Written(drain.e.kind, drain.idx + 1))'
    BY <1>2, <2>1, <2>3 DEF IInv, Requests
  <2>. QED
    BY <1>1, <2>1, <2>2, <2>3 DEF IInv, Requests
<1>. QED
  BY <1>4, <1>5, <1>6 DEF IInv

----------------------------------------------------------------------------
(* Theorems about the specification.                                       *)

(* Every step of the channel keeps the invariant.                          *)
LEMMA NextIInv ==
  ASSUME IInv, [Next]_vars
  PROVE  IInv'
<1>1. CASE \E p \in Procs : DrainStart(p)
  BY <1>1, DrainStartKeeps
<1>2. CASE DrainStep
  BY <1>2, DrainTakeKeeps, DrainFullKeeps, DrainWriteKeeps, DrainCountKeeps, DrainEmptyKeeps,
     DrainReleaseKeeps DEF DrainStep
<1>3. CASE \E d \in AllDeltas : Begin(d)
  BY <1>3, BeginKeeps
<1>4. CASE TxStep
  BY <1>4, PushKeeps, KickKeeps, PollKeeps, RollCountsKeep, RollMaskKeeps, CommitKeeps
     DEF TxStep
<1>5. CASE Start \/ Stop \/ ClearStep \/ Seed \/ BindChild \/ Crash
  BY <1>5, StartKeeps, StopKeeps, ClearKeeps, SeedKeeps, BindChildKeeps, CrashKeeps
<1>6. CASE UNCHANGED vars
  <2>1. UNCHANGED <<gen, tx, ring, drain, ts_rules, ts_updates, reportVars, late>>
        /\ UNCHANGED <<rt, ts_counts, cap_policy, bindVars>>
    BY <1>6 DEF vars, reportVars, bindVars
  <2>2. RtTypes' /\ CountTypes' /\ SlotTypes' /\ BindTypes'
    BY <2>1, Frames DEF IInv
  <2>3. rt' \in {"install", "up"} => cap_task'[Agent] = fresh_runtime_domain_id(gen)
    BY <2>1 DEF IInv, LifeCycle, bindVars
  <2>. QED
    BY <2>1, <2>2, <2>3, LifeMoves
<1>. QED
  BY <1>1, <1>2, <1>3, <1>4, <1>5, <1>6 DEF Next

(* The channel's bookkeeping, a transaction's and a drain's included, is   *)
(* an inductive invariant.                                                 *)
THEOREM InductiveInvariant ==
  Spec => []IInv
  BY InitIInv, NextIInv, PTL DEF Spec

(* No count passes its table and no map leaves its type, for tables and    *)
(* rings of any size, any deltas and any number of crashes and restarts.   *)
THEOREM TypeCorrect ==
  Spec => []TypeOK
<1>1. IInv => TypeOK
  BY TypesTypeOK DEF IInv
<1>. QED
  BY <1>1, InductiveInvariant, PTL

(* Whatever requests a crashed runtime left in the ring, in a drain or in  *)
(* the tables, none is enforced in the domain of a later one.              *)
THEOREM OwnPolicy ==
  Spec => []OwnPolicyOnly
<1>1. IInv => OwnPolicyOnly
  <2>. SUFFICES ASSUME IInv, rt \in {"install", "up"}, NEW e \in Live,
                       e.target = cap_task[Agent]
                PROVE  e.gen = gen
    BY DEF OwnPolicyOnly
  <2>1. /\ ts_counts["rule"] \in Nat /\ ts_counts["update"] \in Nat
        /\ gen \in Nat /\ gen <= MaxGen /\ MaxGen \in Nat
        /\ cap_task[Agent] = gen
    BY Sizes DEF IInv, Types, RtTypes, CountTypes, LifeCycle, fresh_runtime_domain_id
  <2>2. Genuine(e)
    BY <2>1 DEF Live, LiveRules, LiveUpdates, IInv, Requests, Written, Slot, Kinds
  <2>. QED
    BY <2>1, <2>2 DEF Genuine, ChildDomain, fresh_runtime_domain_id
<1>. QED
  BY <1>1, InductiveInvariant, PTL
=============================================================================
