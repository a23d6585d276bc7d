------------------------- MODULE DeltaAtomic_proofs -------------------------
(***************************************************************************)
(* The append transactions of DeltaChannel are atomic, and the channel     *)
(* implements AtomicPolicy, for any deltas, tables and rings and any       *)
(* number of runtimes.                                                     *)
(*                                                                         *)
(* The argument is about the time before a request outlives the            *)
(* transaction that submitted it (~late).  Until then at most one request  *)
(* is on its way, that of the transaction at work; the transaction's       *)
(* entries fill the tables from the counts it started with; and below      *)
(* those counts is what was accepted before, bound as it was.              *)
(***************************************************************************)
EXTENDS DeltaChannel_proofs

Serving == rt \in {"install", "up"}
Waiting == tx.pc \in {"kick", "draining", "poll"}

(* The counts once the first k entries of the transaction are in.          *)
CountsAt(k) ==
  /\ ts_counts["update"] = tx.updates0 + IF k <= NUpdates[tx.d] THEN k ELSE NUpdates[tx.d]
  /\ ts_counts["rule"] = tx.rules0 + IF k <= NUpdates[tx.d] THEN 0 ELSE k - NUpdates[tx.d]

Entry(e, d, k) == e.d = d /\ e.k = k /\ e.gen = gen

(* Entry j of the transaction is in its slot, and bound if it is a rule.   *)
Placed(j) ==
  IF j <= NUpdates[tx.d] THEN Entry(ts_updates[tx.updates0 + j - 1], tx.d, j)
  ELSE LET i == tx.rules0 + j - NUpdates[tx.d] - 1
       IN  /\ Entry(ts_rules[i], tx.d, j)
           /\ ts_rules[i].id = tx.base + j - NUpdates[tx.d]
           /\ ts_rules[i].target = Target(tx.d) /\ i \in cap_policy[Target(tx.d)]

(* The request of the transaction is in the ring or in a drain.            *)
OnItsWay ==
  \/ ring = <<Request(tx)>> /\ ~Holding
  \/ /\ ring = <<>> /\ Holding /\ drain.e = Request(tx)
     /\ drain.at = "written" => drain.idx = Before(tx) /\ Placed(tx.k)

(* How far a transaction is, by its program counter.                       *)
Progress ==
  /\ tx.pc \in {"push", "kick", "draining", "poll"} => \A j \in 1 .. tx.k - 1 : Placed(j)
  /\ tx.pc = "push" => CountsAt(tx.k - 1)
  /\ Waiting => \/ CountsAt(tx.k - 1) /\ (InFlight => OnItsWay)
                \/ CountsAt(tx.k) /\ ~InFlight /\ Placed(tx.k)
  /\ tx.pc = "commit" =>
       tx.k = Size(tx.d) /\ CountsAt(tx.k) /\ \A j \in 1 .. tx.k : Placed(j)
  /\ tx.pc \in {"roll_updates", "roll_mask"} => ts_counts["rule"] = tx.rules0
  /\ tx.pc = "roll_mask" => ts_counts["update"] = tx.updates0

(* From the counts it started with on, the slots are the transaction's.    *)
OwnSlots ==
  /\ tx.rules0 <= ts_counts["rule"] /\ tx.updates0 <= ts_counts["update"]
  /\ \A i \in tx.rules0 .. ts_counts["rule"] - 1 :
       /\ ts_rules[i].d = tx.d /\ ts_rules[i].gen = gen
       /\ ts_rules[i].id = tx.base + ts_rules[i].k - NUpdates[tx.d]
  /\ \A i \in tx.updates0 .. ts_counts["update"] - 1 : ts_updates[i].d = tx.d
  /\ \A i \in 0 .. tx.rules0 - 1 : i \in tx.mask0 <=> i \in cap_policy[Target(tx.d)]
  /\ tx.base = IF tx.d = Policy THEN 0 ELSE Len(catalog)

FloorR == IF tx = Idle THEN ts_counts["rule"] ELSE tx.rules0
FloorU == IF tx = Idle THEN ts_counts["update"] ELSE tx.updates0

Aligned(r) == r.id \in 1 .. Len(catalog) /\ catalog[r.id] = [d |-> r.d, k |-> r.k]
Bound(i) == i \in cap_policy[ts_rules[i].target]

(* Below them, what is in force is what was accepted, all of it.           *)
Settled ==
  /\ \A i \in 0 .. FloorR - 1 : Bound(i) /\ ts_rules[i].gen = gen =>
       ts_rules[i].d \in accepted /\ Aligned(ts_rules[i])
  /\ \A i \in 0 .. FloorU - 1 : ts_updates[i].gen = gen => ts_updates[i].d \in accepted
  /\ \A d \in accepted : \A k \in 1 .. Size(d) :
       IF k <= NUpdates[d] THEN \E i \in 0 .. FloorU - 1 : Entry(ts_updates[i], d, k)
       ELSE \E i \in 0 .. FloorR - 1 : Entry(ts_rules[i], d, k) /\ Bound(i)

(* The answers of a runtime: none before it serves, one for each delta.    *)
Answers ==
  /\ accepted \cap failed = {}
  /\ tx # Idle => tx.d \notin accepted \cup failed /\ (tx.d = Policy <=> rt = "install")
  /\ rt \in {"clear_counts", "clear_task", "clear_state", "clear_policy", "seed", "install"}
       => accepted = {} /\ failed = {} /\ catalog = RuleMeta(Policy)

Cleared ==
  rt \in {"clear_task", "clear_state", "clear_policy", "seed",
          "stop_task", "stop_state", "stop_policy"}
    => ts_counts["rule"] = 0 /\ ts_counts["update"] = 0

OnTime ==
  /\ ~Waiting => ~InFlight
  /\ Cleared
  /\ tx # Idle => Progress /\ OwnSlots
  /\ Serving => Settled

TInv == IInv /\ Answers /\ (~late => OnTime)

----------------------------------------------------------------------------
(* Nothing has happened yet.                                               *)
LEMMA InitTInv ==
  Init => TInv
<1>. SUFFICES ASSUME Init PROVE TInv
  OBVIOUS
<1>1. tx = Idle /\ tx.pc = "idle" /\ drain.at = "free" /\ ring = <<>> /\ rt = "down"
  BY DEF Init, Idle, Free
<1>2. Answers
  BY <1>1 DEF Init, Answers
<1>3. OnTime
  BY <1>1 DEF OnTime, InFlight, Cleared, Serving
<1>. QED
  BY <1>2, <1>3, InitIInv DEF TInv

(* Steps of a drain report nothing and end no transaction.                 *)
LEMMA AnswersStay ==
  ASSUME Answers, UNCHANGED <<catalog, accepted, failed>>,
         rt' = rt \/ rt' \in {"down", "stop_counts", "stop_task", "stop_state", "stop_policy"}
           \/ (rt' \in {"clear_task", "clear_state", "clear_policy", "seed", "install"}
               /\ rt \in {"clear_counts", "clear_task", "clear_state", "clear_policy", "seed"}),
         tx' # Idle => tx # Idle /\ tx'.d = tx.d /\ rt' = rt
  PROVE  Answers'
  BY DEF Answers

(* A delta gets one answer, and none before the runtime serves.            *)
LEMMA NextAnswers ==
  ASSUME IInv, Answers, Next
  PROVE  Answers'
<1>1. CASE (\E p \in Procs : DrainStart(p)) \/ DrainTake \/ DrainFull \/ DrainWrite \/ DrainCount
             \/ DrainEmpty
  BY <1>1, AnswersStay DEF DrainStart, DrainTake, DrainFull, DrainWrite, DrainCount, DrainEmpty,
       reportVars
<1>2. CASE DrainRelease
  <2>1. UNCHANGED <<rt, catalog, accepted, failed>>
    BY <1>2 DEF DrainRelease, reportVars
  <2>2. tx \in TxType /\ (drain.kick => tx # Idle)
    BY DEF IInv, Types, LifeCycle, Idle
  <2>3. tx' = tx \/ (tx # Idle /\ Moved(tx', tx, "poll"))
    BY <1>2, <2>2, PcMoves DEF DrainRelease, Pcs
  <2>. QED
    BY <2>1, <2>3, AnswersStay DEF Moved
<1>3. ASSUME NEW d \in AllDeltas, Begin(d) PROVE Answers'
  <2>1. tx'.d = d /\ UNCHANGED <<rt, catalog, accepted, failed>>
    BY <1>3 DEF Begin, reportVars
  <2>2. \/ rt = "install" /\ d = Policy
        \/ rt = "up" /\ d \in Deltas \ (accepted \cup failed)
    BY <1>3 DEF Begin
  <2>. QED
    BY <2>1, <2>2, DeltaAssumption DEF Answers
<1>4. CASE Push \/ Kick \/ PollAdmitted \/ PollFailed \/ RollRules \/ RollUpdates
  <2>1. tx.pc \in Pcs /\ UNCHANGED <<rt, catalog, accepted, failed>>
    BY <1>4 DEF Push, Kick, PollAdmitted, PollFailed, RollRules, RollUpdates, reportVars, Pcs
  <2>2. tx \in TxType /\ tx # Idle
    BY <2>1, TxFacts
  <2>3. tx'.d = tx.d
    BY <1>4, <2>2, Shapes DEF Push, Kick, PollAdmitted, PollFailed, RollRules, RollUpdates, TxType
  <2>. QED
    BY <2>1, <2>2, <2>3, AnswersStay
<1>5. CASE RollMask \/ Commit
  <2>1. tx.pc \in Pcs /\ tx' = Idle
    BY <1>5 DEF RollMask, Commit, Pcs
  <2>2. tx # Idle /\ rt \in {"install", "up"}
    BY <2>1, TxFacts
  <2>3. /\ rt' \in {"down", "up"}
        /\ \/ failed' = failed \cup {tx.d} /\ accepted' = accepted
           \/ accepted' = accepted \cup {tx.d} /\ failed' = failed
    BY <1>5, <2>2 DEF RollMask, Commit
  <2>. QED
    BY <2>1, <2>2, <2>3 DEF Answers
<1>6. CASE Start
  BY <1>6, NotServing DEF Start, Answers
<1>7. CASE Stop \/ ClearStep \/ Seed
  <2>1. tx = Idle /\ tx' = tx /\ UNCHANGED <<catalog, accepted, failed>>
    BY <1>7, NotServing DEF Stop, ClearStep, ClearCounts, ClearTask, ClearState, ClearPolicy, Seed,
         reportVars
  <2>. QED
    BY <1>7, <2>1, AnswersStay DEF Stop, ClearStep, ClearCounts, ClearTask, ClearState, ClearPolicy, Seed
<1>8. CASE BindChild \/ Crash
  BY <1>8, AnswersStay DEF BindChild, Crash, reportVars
<1>. QED
  BY <1>1, <1>2, <1>3, <1>4, <1>5, <1>6, <1>7, <1>8 DEF Next, DrainStep, TxStep

(* The step keeps the transaction, but perhaps for its program counter.    *)
SameTx ==
  /\ tx' = Idle <=> tx = Idle
  /\ tx'.d = tx.d /\ tx'.k = tx.k /\ tx'.base = tx.base
  /\ tx'.rules0 = tx.rules0 /\ tx'.updates0 = tx.updates0 /\ tx'.mask0 = tx.mask0

(* What is said of tables and transaction holds on while both are kept.    *)
LEMMA SameTables ==
  ASSUME SameTx,
         UNCHANGED <<gen, ts_rules, ts_updates, ts_counts, cap_policy, catalog, accepted>>
  PROVE  /\ \A k : CountsAt(k)' <=> CountsAt(k)
         /\ \A j : Placed(j)' <=> Placed(j)
         /\ Placed(tx.k)' <=> Placed(tx.k)
         /\ CountsAt(tx.k)' <=> CountsAt(tx.k)
         /\ CountsAt(tx.k - 1)' <=> CountsAt(tx.k - 1)
         /\ Request(tx)' = Request(tx) /\ Before(tx)' = Before(tx)
         /\ OwnSlots => OwnSlots'
         /\ Settled => Settled'
<1>1. Target(tx.d)' = Target(tx.d)
  BY DEF SameTx, Target
<1>2. /\ \A k : CountsAt(k)' <=> CountsAt(k)
      /\ \A j : Placed(j)' <=> Placed(j)
  BY <1>1 DEF SameTx, CountsAt, Placed, Entry
<1>3. /\ Placed(tx.k)' <=> Placed(tx.k)
      /\ CountsAt(tx.k)' <=> CountsAt(tx.k)
      /\ CountsAt(tx.k - 1)' <=> CountsAt(tx.k - 1)
  BY <1>1 DEF SameTx, CountsAt, Placed, Entry
<1>4. Request(tx)' = Request(tx) /\ Before(tx)' = Before(tx)
  BY <1>1 DEF SameTx, Request, Before
<1>5. OwnSlots => OwnSlots'
  BY <1>1 DEF SameTx, OwnSlots
<1>6. Settled => Settled'
  <2>1. FloorR' = FloorR /\ FloorU' = FloorU
    BY DEF SameTx, FloorR, FloorU
  <2>2. \A r : Aligned(r)' <=> Aligned(r)
    BY DEF Aligned
  <2>3. \A i : Bound(i)' <=> Bound(i)
    BY DEF Bound
  <2>. QED
    BY <2>1, <2>2, <2>3 DEF Settled, Entry, Aligned
<1>. QED
  BY <1>2, <1>3, <1>4, <1>5, <1>6

(* The numbers of a transaction at work.                                   *)
LEMMA TxNumbers ==
  ASSUME IInv, tx # Idle
  PROVE  /\ tx.pc \in Pcs /\ tx.d \in AllDeltas
         /\ tx.k \in Nat /\ tx.k >= 1 /\ tx.k <= Size(tx.d) /\ Size(tx.d) \in Nat
         /\ tx.base \in Nat /\ tx.rules0 \in Nat /\ tx.updates0 \in Nat
         /\ NUpdates[tx.d] \in Nat /\ NRules[tx.d] \in Nat
         /\ Size(tx.d) = NUpdates[tx.d] + NRules[tx.d]
         /\ ts_counts["rule"] \in Nat /\ ts_counts["update"] \in Nat /\ gen \in Nat
         /\ ts_counts \in [Kinds -> Nat]
         /\ CountsAt(tx.k - 1) => ts_counts[KindOf(tx.d, tx.k)] = Before(tx)
         /\ CountsAt(tx.k) => ts_counts[KindOf(tx.d, tx.k)] = Before(tx) + 1
         /\ Before(tx) \in Nat
<1>1. /\ tx.pc \in Pcs /\ tx.d \in AllDeltas
      /\ tx.base \in Nat /\ tx.rules0 \in Nat /\ tx.updates0 \in Nat
  BY Shapes DEF IInv, Types, Pcs
<1>2. tx.k \in 1 .. Size(tx.d)
  BY DEF IInv, LifeCycle
<1>3. /\ Size(tx.d) \in Nat /\ NUpdates[tx.d] \in Nat /\ NRules[tx.d] \in Nat
      /\ Size(tx.d) = NUpdates[tx.d] + NRules[tx.d]
  BY <1>1, Sizes DEF Size
<1>4. ts_counts["rule"] \in Nat /\ ts_counts["update"] \in Nat /\ ts_counts \in [Kinds -> Nat]
  BY DEF IInv, Types, CountTypes, Kinds
<1>5. CountsAt(tx.k - 1) => ts_counts[KindOf(tx.d, tx.k)] = Before(tx)
  BY <1>1, <1>2, <1>3, <1>4 DEF CountsAt, KindOf, Before
<1>6. CountsAt(tx.k) => ts_counts[KindOf(tx.d, tx.k)] = Before(tx) + 1
  BY <1>1, <1>2, <1>3, <1>4 DEF CountsAt, KindOf, Before
<1>7. Before(tx) \in Nat
  BY <1>1, <1>2, <1>3 DEF KindOf, Before
<1>. QED
  BY <1>1, <1>2, <1>3, <1>4, <1>5, <1>6, <1>7, Frames DEF IInv

(* The counts around entry k, without case splits on k - 1.                *)
LEMMA CountsAround ==
  ASSUME IInv, tx # Idle
  PROVE  /\ CountsAt(tx.k - 1) <=>
              IF tx.k <= NUpdates[tx.d]
              THEN /\ ts_counts["update"] = tx.updates0 + tx.k - 1
                   /\ ts_counts["rule"] = tx.rules0
              ELSE /\ ts_counts["update"] = tx.updates0 + NUpdates[tx.d]
                   /\ ts_counts["rule"] = tx.rules0 + tx.k - NUpdates[tx.d] - 1
         /\ CountsAt(tx.k) <=>
              IF tx.k <= NUpdates[tx.d]
              THEN /\ ts_counts["update"] = tx.updates0 + tx.k
                   /\ ts_counts["rule"] = tx.rules0
              ELSE /\ ts_counts["update"] = tx.updates0 + NUpdates[tx.d]
                   /\ ts_counts["rule"] = tx.rules0 + tx.k - NUpdates[tx.d]
<1>1. /\ tx.k \in Nat /\ tx.k >= 1 /\ NUpdates[tx.d] \in Nat
      /\ tx.rules0 \in Nat /\ tx.updates0 \in Nat
  BY TxNumbers
<1>. QED
  BY <1>1 DEF CountsAt

(* A step that moves a request along, or drops it, and writes no table.    *)
LEMMA FlightStep ==
  ASSUME OnTime, SameTx,
         UNCHANGED <<rt, gen, ts_rules, ts_updates, ts_counts, cap_policy, catalog, accepted>>,
         tx'.pc = tx.pc \/ (Waiting /\ Waiting'),
         InFlight' => InFlight /\ (OnItsWay => OnItsWay')
  PROVE  OnTime'
<1>1. ~Waiting' => ~InFlight'
  BY DEF OnTime, Waiting
<1>2. Cleared'
  BY DEF OnTime, Cleared
<1>3. tx' # Idle => OwnSlots'
  BY SameTables DEF OnTime, SameTx
<1>4. Serving' => Settled'
  BY SameTables DEF OnTime, Serving
<1>5. ASSUME tx' # Idle PROVE Progress'
  <2>1. tx # Idle /\ Progress /\ tx'.k = tx.k /\ tx'.d = tx.d
        /\ tx'.rules0 = tx.rules0 /\ tx'.updates0 = tx.updates0
    BY <1>5 DEF OnTime, SameTx
  <2>2. /\ \A j : Placed(j)' <=> Placed(j)
        /\ Placed(tx.k)' <=> Placed(tx.k)
        /\ CountsAt(tx.k)' <=> CountsAt(tx.k)
        /\ CountsAt(tx.k - 1)' <=> CountsAt(tx.k - 1)
    BY SameTables
  <2>3. CASE tx'.pc = tx.pc
    <3>1. Waiting' <=> Waiting
      BY <2>3 DEF Waiting
    <3>2. Waiting' => \/ CountsAt(tx.k - 1)' /\ (InFlight => OnItsWay)'
                      \/ CountsAt(tx.k)' /\ ~InFlight' /\ Placed(tx.k)'
      BY <2>1, <2>2, <3>1 DEF Progress
    <3>3. tx'.pc = "push" => CountsAt(tx.k - 1)'
      BY <2>1, <2>2, <2>3 DEF Progress
    <3>4. tx'.pc = "commit" => tx'.k = Size(tx'.d) /\ CountsAt(tx.k)' /\ \A j \in 1 .. tx'.k : Placed(j)'
      BY <2>1, <2>2, <2>3 DEF Progress
    <3>5. /\ tx'.pc \in {"push", "kick", "draining", "poll"} => \A j \in 1 .. tx'.k - 1 : Placed(j)'
          /\ tx'.pc \in {"roll_updates", "roll_mask"} => ts_counts'["rule"] = tx'.rules0
          /\ tx'.pc = "roll_mask" => ts_counts'["update"] = tx'.updates0
      BY <2>1, <2>2, <2>3 DEF Progress
    <3>. QED
      BY <3>2, <3>3, <3>4, <3>5 DEF Progress
  <2>4. CASE Waiting /\ Waiting'
    <3>1. \/ CountsAt(tx.k - 1)' /\ (InFlight => OnItsWay)'
          \/ CountsAt(tx.k)' /\ ~InFlight' /\ Placed(tx.k)'
      BY <2>1, <2>2, <2>4 DEF Progress
    <3>2. \A j \in 1 .. tx'.k - 1 : Placed(j)'
      BY <2>1, <2>2, <2>4 DEF Progress, Waiting
    <3>3. tx'.pc \in {"kick", "draining", "poll"}
      BY <2>4 DEF Waiting
    <3>. QED
      BY <3>1, <3>2, <3>3 DEF Progress
  <2>. QED
    BY <2>3, <2>4
<1>. QED
  BY <1>1, <1>2, <1>3, <1>4, <1>5 DEF OnTime

(* A drain that starts, ends, takes or rejects.                            *)
LEMMA DrainOnTime ==
  ASSUME IInv, OnTime,
         \/ \E p \in Procs : DrainStart(p)
         \/ DrainTake \/ DrainFull \/ DrainEmpty \/ DrainRelease
  PROVE  OnTime'
<1>1. /\ UNCHANGED <<rt, gen, ts_rules, ts_updates, ts_counts, cap_policy, catalog, accepted>>
  BY DEF DrainStart, DrainTake, DrainFull, DrainEmpty, DrainRelease, tableVars, reportVars
<1>2. drain \in DrainType /\ tx \in TxType /\ (drain.kick <=> tx.pc = "draining")
  BY DEF IInv, Types, ChanTypes, LifeCycle
<1>3. ASSUME NEW p \in Procs, DrainStart(p) PROVE OnTime'
  <2>1. UNCHANGED <<tx, ring>> /\ drain.at = "free"
    BY <1>3 DEF DrainStart
  <2>2. drain' = [who |-> p, at |-> "peek", kick |-> FALSE, e |-> None, idx |-> 0]
    BY <1>3 DEF DrainStart, Free
  <2>3. drain'.at = "peek"
    BY <2>2
  <2>4. SameTx
    BY <2>1 DEF SameTx
  <2>5. InFlight' => InFlight /\ (OnItsWay => OnItsWay')
    BY <1>1, <2>1, <2>3, <2>4, SameTables DEF InFlight, OnItsWay, Holding
  <2>. QED
    BY <1>1, <2>1, <2>4, <2>5, FlightStep
<1>4. ASSUME DrainTake PROVE OnTime'
  <2>1. tx' = tx /\ ring # <<>> /\ drain.at = "peek" /\ ring' = Tail(ring)
    BY <1>4 DEF DrainTake
  <2>2. /\ \/ drain'.at = "peek"
           \/ drain'.at = "admitted" /\ drain'.e = Head(ring)
    BY <1>2, <1>4, <2>1 DEF DrainTake, DrainType
  <2>3. SameTx
    BY <2>1 DEF SameTx
  <2>4. ASSUME OnItsWay PROVE ring' = <<>> /\ Head(ring) = Request(tx)
    <3>1. ring = <<Request(tx)>>
      BY <2>1, <2>4 DEF OnItsWay
    <3>. QED
      BY <2>1, <3>1
  <2>5. OnItsWay /\ InFlight' => OnItsWay'
    <3>. SUFFICES ASSUME OnItsWay, InFlight' PROVE OnItsWay'
      OBVIOUS
    <3>1. ring' = <<>> /\ drain'.at = "admitted" /\ drain'.e = Request(tx)
      BY <2>2, <2>4 DEF InFlight
    <3>2. Request(tx)' = Request(tx)
      BY <1>1, <2>3, SameTables
    <3>. QED
      BY <3>1, <3>2 DEF OnItsWay, Holding
  <2>6. InFlight
    BY <2>1 DEF InFlight
  <2>. QED
    BY <1>1, <2>1, <2>3, <2>5, <2>6, FlightStep
<1>5. ASSUME DrainFull PROVE OnTime'
  <2>1. UNCHANGED <<tx, ring>> /\ drain.at = "admitted" /\ drain'.at = "peek"
    BY <1>2, <1>5 DEF DrainFull, DrainType
  <2>2. SameTx
    BY <2>1 DEF SameTx
  <2>3. InFlight /\ (OnItsWay => ~InFlight')
    BY <2>1 DEF OnItsWay, InFlight, Holding
  <2>. QED
    BY <1>1, <2>1, <2>2, <2>3, FlightStep
<1>6. ASSUME DrainEmpty PROVE OnTime'
  <2>1. UNCHANGED <<tx, ring>> /\ drain'.at = "leaving" /\ ring = <<>>
    BY <1>2, <1>6 DEF DrainEmpty, DrainType
  <2>2. SameTx /\ ~InFlight'
    BY <2>1 DEF SameTx, InFlight
  <2>. QED
    BY <1>1, <2>1, <2>2, FlightStep
<1>7. ASSUME DrainRelease PROVE OnTime'
  <2>1. ring' = ring /\ drain.at = "leaving" /\ drain'.at = "free"
    BY <1>7 DEF DrainRelease, Free
  <2>2. \/ tx' = tx
        \/ tx # Idle /\ Moved(tx', tx, "poll") /\ tx.pc = "draining"
    <3>1. drain.kick => tx # Idle
      BY <1>2 DEF Idle
    <3>. QED
      BY <1>2, <1>7, <3>1, PcMoves DEF DrainRelease, Pcs
  <2>3. SameTx /\ (tx'.pc = tx.pc \/ (Waiting /\ Waiting'))
    BY <2>2 DEF SameTx, Moved, Waiting
  <2>4. InFlight' => InFlight /\ (OnItsWay => OnItsWay')
    BY <1>1, <2>1, <2>3, SameTables DEF InFlight, OnItsWay, Holding
  <2>. QED
    BY <1>1, <2>3, <2>4, FlightStep
<1>. QED
  BY <1>3, <1>4, <1>5, <1>6, <1>7

(* A request in a drain is that of the transaction, which waits for it.    *)
LEMMA HeldIsOwn ==
  ASSUME IInv, OnTime, Holding
  PROVE  /\ tx # Idle /\ Waiting /\ Progress /\ OwnSlots
         /\ CountsAt(tx.k - 1) /\ OnItsWay
         /\ ring = <<>> /\ drain.e = Request(tx)
         /\ drain.e.kind = KindOf(tx.d, tx.k) /\ drain.e.kind \in Kinds
         /\ Entry(drain.e, tx.d, tx.k) /\ drain.e.target = Target(tx.d)
         /\ drain.e.target \in DomIds
         /\ drain.e.kind = "rule" => drain.e.id = tx.base + tx.k - NUpdates[tx.d]
<1>1. InFlight
  BY DEF InFlight, Holding
<1>2. Waiting /\ tx # Idle
  BY <1>1 DEF OnTime, Waiting, Idle
<1>3. Progress /\ OwnSlots /\ CountsAt(tx.k - 1) /\ OnItsWay
  BY <1>1, <1>2 DEF OnTime, Progress
<1>4. ring = <<>> /\ drain.e = Request(tx)
  BY <1>3 DEF OnItsWay
<1>5. drain.e.kind \in Kinds /\ drain.e.target \in DomIds
  BY Shapes DEF IInv, Requests, Genuine
<1>. QED
  BY <1>2, <1>3, <1>4, <1>5 DEF Request, Entry

(* The slot that is written lies above every count.                        *)
LEMMA DrainWriteSlots ==
  ASSUME IInv, DrainWrite, NEW n, n = ts_counts[drain.e.kind]
  PROVE  /\ \A i \in 0 .. ts_counts["rule"] - 1 : ts_rules'[i] = ts_rules[i]
         /\ \A i \in 0 .. ts_counts["update"] - 1 : ts_updates'[i] = ts_updates[i]
         /\ drain.e.kind = "rule" => ts_rules'[n] = drain.e /\ n \in cap_policy'[drain.e.target]
         /\ drain.e.kind # "rule" => ts_updates'[n] = drain.e
         /\ \A x \in DomIds, i \in 0 .. ts_counts["rule"] - 1 :
              i \in cap_policy'[x] <=> i \in cap_policy[x]
<1>. DEFINE e == drain.e
            R == ts_counts["rule"]
            U == ts_counts["update"]
<1>1. /\ drain.at = "admitted"
      /\ e.kind = "rule" =>
           /\ ts_rules' = [ts_rules EXCEPT ![n] = e] /\ UNCHANGED ts_updates
           /\ cap_policy' = [cap_policy EXCEPT ![e.target] = @ \cup {n}]
      /\ e.kind # "rule" =>
           ts_updates' = [ts_updates EXCEPT ![n] = e] /\ UNCHANGED <<ts_rules, cap_policy>>
      /\ SlotFree(e.kind)
  BY DEF DrainWrite
<1>2. Genuine(e) /\ e.kind \in Kinds /\ e.target \in DomIds
  BY <1>1, Shapes DEF IInv, Requests, Holding, Genuine
<1>3. /\ ts_rules \in [0 .. MAX_RULES - 1 -> RequestType \cup {None}]
      /\ ts_updates \in [0 .. MAX_UPDATES - 1 -> RequestType \cup {None}]
      /\ cap_policy \in [DomIds -> SUBSET (0 .. MAX_RULES - 1)]
      /\ R \in Nat /\ U \in Nat /\ R <= MAX_RULES /\ U <= MAX_UPDATES
      /\ MAX_RULES \in Nat /\ MAX_UPDATES \in Nat
      /\ e.kind = "rule" => n = R /\ R < MAX_RULES
      /\ e.kind # "rule" => n = U /\ U < MAX_UPDATES
  BY <1>1, <1>2, Sizes DEF IInv, Types, SlotTypes, CountTypes, SlotFree, Kinds
<1>. HIDE DEF e, R, U
<1>4. /\ \A i \in 0 .. R - 1 : ts_rules'[i] = ts_rules[i]
      /\ \A i \in 0 .. U - 1 : ts_updates'[i] = ts_updates[i]
      /\ e.kind = "rule" => ts_rules'[n] = e /\ n \in cap_policy'[e.target]
      /\ e.kind # "rule" => ts_updates'[n] = e
  <2>1. CASE e.kind = "rule"
    <3>1. ts_rules' = [ts_rules EXCEPT ![R] = e] /\ ts_updates' = ts_updates
          /\ cap_policy' = [cap_policy EXCEPT ![e.target] = @ \cup {R}] /\ n = R
      BY <1>1, <1>3, <2>1
    <3>2. R \in 0 .. MAX_RULES - 1 /\ \A i \in 0 .. R - 1 : i # R /\ i \in 0 .. MAX_RULES - 1
      BY <1>3, <2>1
    <3>. QED
      BY <1>2, <1>3, <2>1, <3>1, <3>2
  <2>2. CASE e.kind # "rule"
    <3>1. ts_updates' = [ts_updates EXCEPT ![U] = e] /\ ts_rules' = ts_rules /\ n = U
      BY <1>1, <1>3, <2>2
    <3>2. U \in 0 .. MAX_UPDATES - 1 /\ \A i \in 0 .. U - 1 : i # U /\ i \in 0 .. MAX_UPDATES - 1
      BY <1>3, <2>2
    <3>. QED
      BY <1>3, <2>2, <3>1, <3>2
  <2>. QED
    BY <2>1, <2>2
<1>5. \A x \in DomIds, i \in 0 .. R - 1 :
        i \in cap_policy'[x] <=> i \in cap_policy[x]
  <2>1. CASE e.kind = "rule"
    <3>1. cap_policy' = [cap_policy EXCEPT ![e.target] = @ \cup {R}]
      BY <1>1, <1>3, <2>1
    <3>2. \A i \in 0 .. R - 1 : i # R
      BY <1>3
    <3>. QED
      BY <1>2, <1>3, <3>1, <3>2
  <2>2. CASE e.kind # "rule"
    BY <1>1, <2>2
  <2>. QED
    BY <2>1, <2>2
<1>. QED
  BY <1>4, <1>5 DEF e, R, U

(* The entry is in its slot, and not yet in force.                         *)
LEMMA DrainWriteOnTime ==
  ASSUME IInv, OnTime, DrainWrite
  PROVE  OnTime'
<1>. DEFINE e == drain.e
            n == ts_counts[e.kind]
<1>1. /\ drain.at = "admitted"
      /\ UNCHANGED <<rt, gen, tx, ring, ts_counts, catalog, accepted>>
  BY DEF DrainWrite, reportVars
<1>2. Holding
  BY <1>1 DEF Holding
<1>3. /\ tx # Idle /\ Waiting /\ Progress /\ OwnSlots /\ CountsAt(tx.k - 1)
      /\ ring = <<>> /\ e = Request(tx) /\ e.kind = KindOf(tx.d, tx.k) /\ e.kind \in Kinds
      /\ Entry(e, tx.d, tx.k) /\ e.target = Target(tx.d) /\ e.target \in DomIds
      /\ e.kind = "rule" => e.id = tx.base + tx.k - NUpdates[tx.d]
  BY <1>2, HeldIsOwn
<1>4. drain'.at = "written" /\ drain'.e = e /\ drain'.idx = n
  BY DEF DrainWrite, IInv, Types, ChanTypes, DrainType
<1>5. n = Before(tx) /\ n \in Nat
  BY <1>3, TxNumbers
<1>. DEFINE R == ts_counts["rule"]
            U == ts_counts["update"]
<1>20. /\ R \in Nat /\ U \in Nat /\ tx.k \in Nat /\ tx.k >= 1 /\ NUpdates[tx.d] \in Nat
      /\ tx.rules0 \in Nat /\ tx.updates0 \in Nat
      /\ IF tx.k <= NUpdates[tx.d] THEN U = tx.updates0 + tx.k - 1 /\ R = tx.rules0
         ELSE U = tx.updates0 + NUpdates[tx.d] /\ R = tx.rules0 + tx.k - NUpdates[tx.d] - 1
  BY <1>3, TxNumbers, CountsAround
<1>7. /\ \A i \in 0 .. R - 1 : ts_rules'[i] = ts_rules[i]
      /\ \A i \in 0 .. U - 1 : ts_updates'[i] = ts_updates[i]
      /\ e.kind = "rule" => ts_rules'[n] = e /\ n \in cap_policy'[e.target]
      /\ e.kind # "rule" => ts_updates'[n] = e
      /\ \A x \in DomIds, i \in 0 .. R - 1 : i \in cap_policy'[x] <=> i \in cap_policy[x]
  BY DrainWriteSlots
<1>. HIDE DEF n, e, R, U
<1>8. \A x \in DomIds, i \in 0 .. R - 1 : i \in cap_policy'[x] <=> i \in cap_policy[x]
  BY <1>7
<1>9. Target(tx.d)' = Target(tx.d) /\ Target(tx.d) \in DomIds
  BY <1>1, <1>3 DEF Target
<1>10. ~(~Waiting' /\ InFlight') /\ Waiting' /\ tx'.pc = tx.pc
  BY <1>1, <1>3 DEF Waiting
<1>11. Cleared'
  BY <1>1 DEF OnTime, Cleared
<1>12. OwnSlots'
  <2>1. /\ \A i \in tx.rules0 .. R - 1 : ts_rules'[i] = ts_rules[i]
        /\ \A i \in tx.updates0 .. U - 1 : ts_updates'[i] = ts_updates[i]
        /\ \A i \in 0 .. tx.rules0 - 1 :
             i \in cap_policy'[Target(tx.d)] <=> i \in cap_policy[Target(tx.d)]
    BY <1>20, <1>7, <1>8, <1>9
  <2>. QED
    BY <1>1, <1>3, <1>9, <2>1 DEF OwnSlots, R, U
<1>13. Serving' => Settled'
  <2>. SUFFICES ASSUME Serving PROVE Settled'
    BY <1>1 DEF Serving
  <2>1. FloorR' = FloorR /\ FloorU' = FloorU /\ FloorR = tx.rules0 /\ FloorU = tx.updates0
    BY <1>1, <1>3 DEF FloorR, FloorU
  <2>2. /\ FloorR \in Nat /\ FloorU \in Nat
        /\ FloorR <= ts_counts["rule"] /\ FloorU <= ts_counts["update"]
        /\ ts_counts["rule"] \in Nat /\ ts_counts["update"] \in Nat
    BY <1>3, <2>1, TxNumbers DEF OwnSlots
  <2>3. \A i \in 0 .. FloorR - 1 : ts_rules[i].target \in DomIds
    BY <2>2, Shapes DEF IInv, Requests, Written, Slot, Genuine, Kinds
  <2>4. \A i \in 0 .. FloorR - 1 : ts_rules'[i] = ts_rules[i] /\ (Bound(i)' <=> Bound(i))
    BY <1>7, <1>8, <2>2, <2>3 DEF Bound, R
  <2>5. \A i \in 0 .. FloorU - 1 : ts_updates'[i] = ts_updates[i]
    BY <1>7, <2>2 DEF U
  <2>6. Settled
    BY DEF OnTime
  <2>. QED
    BY <1>1, <2>1, <2>4, <2>5, <2>6 DEF Settled, Aligned, Entry
<1>14. ASSUME NEW j \in 1 .. tx.k - 1, Placed(j) PROVE Placed(j)'
  <2>1. CASE j <= NUpdates[tx.d]
    <3>1. tx.updates0 + j - 1 \in 0 .. U - 1
      BY <1>20, <2>1
    <3>. QED
      BY <1>1, <1>7, <1>14, <2>1, <3>1 DEF Placed, Entry
  <2>2. CASE ~(j <= NUpdates[tx.d])
    <3>1. tx.rules0 + j - NUpdates[tx.d] - 1 \in 0 .. R - 1
      BY <1>20, <2>2
    <3>. QED
      BY <1>1, <1>7, <1>8, <1>9, <1>14, <2>2, <3>1 DEF Placed, Entry
  <2>. QED
    BY <2>1, <2>2
<1>15. Placed(tx.k)'
  <2>1. CASE tx.k <= NUpdates[tx.d]
    <3>1. n = tx.updates0 + tx.k - 1 /\ e.kind # "rule"
      BY <1>3, <1>5, <2>1 DEF KindOf, Before
    <3>. QED
      BY <1>1, <1>3, <1>7, <2>1, <3>1 DEF Placed, Entry
  <2>2. CASE ~(tx.k <= NUpdates[tx.d])
    <3>1. n = tx.rules0 + tx.k - NUpdates[tx.d] - 1 /\ e.kind = "rule"
      BY <1>3, <1>5, <2>2, TxNumbers DEF KindOf, Before
    <3>. QED
      BY <1>1, <1>3, <1>7, <1>9, <2>2, <3>1 DEF Placed, Entry
  <2>. QED
    BY <2>1, <2>2
<1>16. OnItsWay'
  <2>1. Request(tx)' = Request(tx) /\ Before(tx)' = Before(tx)
    BY <1>1 DEF Request, Before, Target
  <2>. QED
    BY <1>1, <1>3, <1>4, <1>5, <1>15, <2>1 DEF OnItsWay, Holding
<1>17. CountsAt(tx.k - 1)'
  BY <1>1, <1>3 DEF CountsAt
<1>18. Progress'
  <2>1. \A j \in 1 .. tx'.k - 1 : Placed(j)'
    BY <1>1, <1>3, <1>14 DEF Progress, Waiting
  <2>2. tx'.pc \in {"kick", "draining", "poll"}
    BY <1>10 DEF Waiting
  <2>. QED
    BY <1>16, <1>17, <2>1, <2>2 DEF Progress
<1>. QED
  BY <1>10, <1>11, <1>12, <1>13, <1>18 DEF OnTime

(* One more entry of the transaction is in force.                          *)
LEMMA DrainCountOnTime ==
  ASSUME IInv, OnTime, DrainCount
  PROVE  OnTime'
<1>. DEFINE e == drain.e
<1>1. /\ drain.at = "written"
      /\ ts_counts' = [ts_counts EXCEPT ![e.kind] = drain.idx + 1]
      /\ UNCHANGED <<rt, gen, tx, ring, ts_rules, ts_updates, cap_policy, catalog, accepted>>
  BY DEF DrainCount, reportVars
<1>2. Holding
  BY <1>1 DEF Holding
<1>3. /\ tx # Idle /\ Waiting /\ Progress /\ OwnSlots /\ CountsAt(tx.k - 1) /\ OnItsWay
      /\ ring = <<>> /\ e = Request(tx) /\ e.kind = KindOf(tx.d, tx.k) /\ e.kind \in Kinds
  BY <1>2, HeldIsOwn
<1>4. drain.idx = Before(tx) /\ Placed(tx.k)
  BY <1>1, <1>3 DEF OnItsWay
<1>5. drain'.at = "peek"
  BY DEF DrainCount, IInv, Types, ChanTypes, DrainType
<1>6. /\ ts_counts'[e.kind] = ts_counts[e.kind] + 1
      /\ \A x \in Kinds : x # e.kind => ts_counts'[x] = ts_counts[x]
  BY <1>1, <1>3, <1>4, TxNumbers
<1>20. /\ ts_counts["rule"] \in Nat /\ ts_counts["update"] \in Nat
       /\ tx.k \in Nat /\ tx.k >= 1 /\ NUpdates[tx.d] \in Nat
       /\ tx.rules0 \in Nat /\ tx.updates0 \in Nat
       /\ IF tx.k <= NUpdates[tx.d]
          THEN ts_counts["update"] = tx.updates0 + tx.k - 1 /\ ts_counts["rule"] = tx.rules0
          ELSE /\ ts_counts["update"] = tx.updates0 + NUpdates[tx.d]
               /\ ts_counts["rule"] = tx.rules0 + tx.k - NUpdates[tx.d] - 1
  BY <1>3, TxNumbers, CountsAround
<1>. HIDE DEF e
<1>7. ~InFlight' /\ Waiting' /\ tx'.pc = tx.pc
  BY <1>1, <1>3, <1>5 DEF InFlight, Waiting
<1>8. CountsAt(tx.k)'
  <2>1. CASE tx.k <= NUpdates[tx.d]
    <3>1. e.kind = "update" /\ ts_counts'["rule"] = ts_counts["rule"]
      BY <1>3, <1>6, <2>1 DEF KindOf, Kinds
    <3>. QED
      BY <1>1, <1>6, <1>20, <2>1, <3>1 DEF CountsAt
  <2>2. CASE ~(tx.k <= NUpdates[tx.d])
    <3>1. e.kind = "rule" /\ ts_counts'["update"] = ts_counts["update"]
      BY <1>3, <1>6, <2>2 DEF KindOf, Kinds
    <3>. QED
      BY <1>1, <1>6, <1>20, <2>2, <3>1 DEF CountsAt
  <2>. QED
    BY <2>1, <2>2
<1>9. \A j : Placed(j)' <=> Placed(j)
  BY <1>1 DEF Placed, Entry, Target
<1>10. Placed(tx.k)'
  BY <1>1, <1>4 DEF Placed, Entry, Target
<1>11. Cleared'
  <2>1. Serving
    BY <1>3 DEF IInv, LifeCycle, Serving
  <2>. QED
    BY <1>1, <2>1 DEF Cleared, Serving
<1>12. OwnSlots'
  <2>1. CASE e.kind = "rule"
    <3>1. /\ ts_counts'["rule"] = ts_counts["rule"] + 1
          /\ ts_counts'["update"] = ts_counts["update"]
      BY <1>6, <2>1 DEF Kinds
    <3>2. ~(tx.k <= NUpdates[tx.d]) /\ ts_counts["rule"] = tx.rules0 + tx.k - NUpdates[tx.d] - 1
      BY <1>3, <1>20, <2>1 DEF KindOf
    <3>3. /\ ts_rules[ts_counts["rule"]].d = tx.d /\ ts_rules[ts_counts["rule"]].gen = gen
          /\ ts_rules[ts_counts["rule"]].id = tx.base + ts_rules[ts_counts["rule"]].k - NUpdates[tx.d]
      BY <1>4, <3>2 DEF Placed, Entry
    <3>4. \A i \in tx.rules0 .. ts_counts'["rule"] - 1 :
            i \in tx.rules0 .. ts_counts["rule"] - 1 \/ i = ts_counts["rule"]
      <4>1. ts_counts["rule"] \in Nat /\ tx.rules0 \in Nat
        BY <1>20
      <4>. QED
        BY <3>1, <4>1
    <3>5. tx.rules0 <= ts_counts'["rule"]
      BY <1>3, <1>20, <3>1 DEF OwnSlots
    <3>. QED
      BY <1>1, <1>3, <3>1, <3>3, <3>4, <3>5 DEF OwnSlots, Target
  <2>2. CASE e.kind # "rule"
    <3>1. /\ ts_counts'["rule"] = ts_counts["rule"]
          /\ ts_counts'["update"] = ts_counts["update"] + 1
      BY <1>3, <1>6, <2>2 DEF Kinds
    <3>2. tx.k <= NUpdates[tx.d] /\ ts_counts["update"] = tx.updates0 + tx.k - 1
      BY <1>3, <1>20, <2>2 DEF KindOf
    <3>3. ts_updates[ts_counts["update"]].d = tx.d
      BY <1>4, <3>2 DEF Placed, Entry
    <3>4. \A i \in tx.updates0 .. ts_counts'["update"] - 1 :
            i \in tx.updates0 .. ts_counts["update"] - 1 \/ i = ts_counts["update"]
      BY <1>20, <3>1
    <3>5. tx.updates0 <= ts_counts'["update"]
      BY <1>3, <1>20, <3>1 DEF OwnSlots
    <3>. QED
      BY <1>1, <1>3, <3>1, <3>3, <3>4, <3>5 DEF OwnSlots, Target
  <2>. QED
    BY <2>1, <2>2
<1>13. Serving' => Settled'
  <2>1. FloorR' = FloorR /\ FloorU' = FloorU
    BY <1>1, <1>3 DEF FloorR, FloorU
  <2>. QED
    BY <1>1, <2>1 DEF OnTime, Serving, Settled, Aligned, Bound, Entry
<1>14. Progress'
  <2>1. \A j \in 1 .. tx'.k - 1 : Placed(j)'
    BY <1>1, <1>3, <1>9 DEF Progress, Waiting
  <2>2. tx'.pc \in {"kick", "draining", "poll"}
    BY <1>7 DEF Waiting
  <2>. QED
    BY <1>7, <1>8, <1>10, <2>1, <2>2 DEF Progress
<1>. QED
  BY <1>7, <1>11, <1>12, <1>13, <1>14 DEF OnTime

(* A transaction starts from the counts it finds.                          *)
LEMMA BeginOnTime ==
  ASSUME IInv, OnTime, NEW d \in AllDeltas, Begin(d)
  PROVE  OnTime'
<1>1. /\ tx = Idle /\ rt \in {"install", "up"}
      /\ tx' = [pc |-> "push", d |-> d, k |-> 1,
                base |-> IF d = Policy THEN 0 ELSE Len(catalog),
                rules0 |-> ts_counts["rule"], updates0 |-> ts_counts["update"],
                mask0 |-> cap_policy[Target(d)]]
      /\ UNCHANGED <<rt, gen, ring, drain, ts_rules, ts_updates, ts_counts, cap_policy,
                     catalog, accepted>>
  BY DEF Begin, chanVars, tableVars, reportVars
<1>2. /\ tx'.pc = "push" /\ tx'.d = d /\ tx'.k = 1
      /\ tx'.base = IF d = Policy THEN 0 ELSE Len(catalog)
      /\ tx'.rules0 = ts_counts["rule"] /\ tx'.updates0 = ts_counts["update"]
      /\ tx'.mask0 = cap_policy[Target(d)]
  BY <1>1
<1>3. tx' # Idle /\ ~Waiting /\ ~Waiting'
  BY <1>1, <1>2 DEF Idle, Waiting
<1>4. /\ NUpdates[d] \in Nat /\ ts_counts["rule"] \in Nat /\ ts_counts["update"] \in Nat
  BY Sizes DEF IInv, Types, CountTypes
<1>5. ~InFlight' /\ Cleared'
  BY <1>1, <1>3 DEF OnTime, InFlight, Cleared
<1>6. Progress'
  <2>1. CountsAt(tx.k - 1)'
    BY <1>1, <1>2, <1>4 DEF CountsAt
  <2>2. \A j \in 1 .. tx'.k - 1 : FALSE
    BY <1>2
  <2>. QED
    BY <1>2, <1>3, <2>1, <2>2 DEF Progress
<1>7. OwnSlots'
  <2>1. Target(tx.d)' = Target(d)
    BY <1>1, <1>2 DEF Target
  <2>2. /\ \A i \in ts_counts["rule"] .. ts_counts["rule"] - 1 : FALSE
        /\ \A i \in ts_counts["update"] .. ts_counts["update"] - 1 : FALSE
    BY <1>4
  <2>. QED
    BY <1>1, <1>2, <1>4, <2>1, <2>2 DEF OwnSlots
<1>8. Serving' => Settled'
  <2>1. FloorR' = FloorR /\ FloorU' = FloorU
    BY <1>1, <1>2, <1>3 DEF FloorR, FloorU
  <2>. QED
    BY <1>1, <2>1 DEF OnTime, Serving, Settled, Aligned, Bound, Entry
<1>. QED
  BY <1>3, <1>5, <1>6, <1>7, <1>8 DEF OnTime

(* The one request of the transaction enters the ring, which is empty.     *)
LEMMA PushOnTime ==
  ASSUME IInv, OnTime, Push
  PROVE  OnTime'
<1>1. /\ tx.pc = "push"
      /\ UNCHANGED <<rt, gen, drain, ts_rules, ts_updates, ts_counts, cap_policy, catalog, accepted>>
  BY DEF Push, tableVars, reportVars
<1>2. tx \in TxType /\ tx # Idle /\ ~Waiting /\ tx.pc \in Pcs
  BY <1>1, TxFacts DEF Waiting, Pcs
<1>3. ring = <<>> /\ ~Holding
  BY <1>2 DEF OnTime, InFlight, Holding
<1>4. Len(ring) < RingCap
  BY <1>3, Sizes
<1>5. ring' = <<Request(tx)>> /\ tx' = [tx EXCEPT !.pc = "kick"]
  BY <1>3, <1>4 DEF Push
<1>6. Moved(tx', tx, "kick")
  BY <1>2, <1>5, PcMoves DEF Pcs
<1>7. SameTx /\ tx'.pc = "kick"
  BY <1>2, <1>6 DEF SameTx, Moved
<1>8. /\ \A j : Placed(j)' <=> Placed(j)
      /\ CountsAt(tx.k - 1)' <=> CountsAt(tx.k - 1)
      /\ Request(tx)' = Request(tx)
      /\ OwnSlots => OwnSlots'
      /\ Settled => Settled'
  BY <1>1, <1>7, SameTables
<1>9. OnItsWay'
  BY <1>1, <1>3, <1>5, <1>8 DEF OnItsWay, Holding
<1>10. Progress'
  <2>1. \A j \in 1 .. tx'.k - 1 : Placed(j)'
    BY <1>1, <1>2, <1>7, <1>8 DEF OnTime, Progress, SameTx
  <2>2. CountsAt(tx.k - 1)'
    BY <1>1, <1>2, <1>8 DEF OnTime, Progress
  <2>. QED
    BY <1>7, <1>9, <2>1, <2>2 DEF Progress
<1>. QED
  BY <1>1, <1>2, <1>7, <1>8, <1>10 DEF OnTime, Cleared, Serving, Waiting

(* getpid: nothing is written.                                             *)
LEMMA KickOnTime ==
  ASSUME IInv, OnTime, Kick
  PROVE  OnTime'
<1>1. /\ tx.pc = "kick" /\ ring' = ring
      /\ UNCHANGED <<rt, gen, ts_rules, ts_updates, ts_counts, cap_policy, catalog, accepted>>
  BY DEF Kick, tableVars, reportVars
<1>2. tx \in TxType /\ tx # Idle /\ tx.pc \in Pcs
  BY <1>1, TxFacts DEF Pcs
<1>3. Moved(tx', tx, "draining") \/ Moved(tx', tx, "poll")
  BY <1>2, PcMoves DEF Kick, Pcs
<1>4. SameTx /\ Waiting /\ Waiting'
  BY <1>1, <1>2, <1>3 DEF SameTx, Moved, Waiting
<1>5. drain' = drain \/ (drain.at = "free" /\ drain'.at = "peek")
  BY DEF Kick, Free
<1>6. InFlight' => InFlight /\ (OnItsWay => OnItsWay')
  BY <1>1, <1>4, <1>5, SameTables DEF InFlight, OnItsWay, Holding
<1>. QED
  BY <1>1, <1>4, <1>6, FlightStep

(* The count has moved: the entry is in, and no request is on its way.     *)
LEMMA PollAdmittedOnTime ==
  ASSUME IInv, OnTime, PollAdmitted
  PROVE  OnTime'
<1>1. /\ tx.pc = "poll" /\ ts_counts[KindOf(tx.d, tx.k)] = Before(tx) + 1
      /\ UNCHANGED <<rt, gen, ring, drain, ts_rules, ts_updates, ts_counts, cap_policy,
                     catalog, accepted>>
  BY DEF PollAdmitted, chanVars, tableVars, reportVars
<1>2. tx \in TxType /\ tx # Idle /\ Waiting
  BY <1>1, TxFacts DEF Waiting, Pcs
<1>3. /\ tx.k \in Nat /\ tx.k <= Size(tx.d) /\ Size(tx.d) \in Nat /\ Before(tx) \in Nat
      /\ CountsAt(tx.k - 1) => ts_counts[KindOf(tx.d, tx.k)] = Before(tx)
  BY <1>2, TxNumbers
<1>4. CountsAt(tx.k) /\ ~InFlight /\ Placed(tx.k) /\ OwnSlots
  BY <1>1, <1>2, <1>3 DEF OnTime, Progress
<1>5. \A j \in 1 .. tx.k : Placed(j)
  <2>1. \A j \in 1 .. tx.k - 1 : Placed(j)
    BY <1>1, <1>2 DEF OnTime, Progress
  <2>2. \A j \in 1 .. tx.k : j \in 1 .. tx.k - 1 \/ j = tx.k
    BY <1>3
  <2>. QED
    BY <1>4, <2>1, <2>2
<1>6. ~InFlight' /\ Cleared'
  BY <1>1, <1>4 DEF OnTime, InFlight, Cleared
<1>7. ASSUME tx.k < Size(tx.d) PROVE OnTime'
  <2>1. /\ tx' # Idle /\ tx'.pc = "push" /\ tx'.k = tx.k + 1 /\ tx'.d = tx.d
        /\ tx'.base = tx.base /\ tx'.rules0 = tx.rules0 /\ tx'.updates0 = tx.updates0
        /\ tx'.mask0 = tx.mask0
    <3>1. tx \in [pc : Pcs, d : AllDeltas, k : Nat, base : Nat, rules0 : Nat, updates0 : Nat,
                  mask0 : SUBSET Nat]
      BY <1>2 DEF TxType, Pcs
    <3>2. tx' = [tx EXCEPT !.pc = "push", !.k = @ + 1]
      BY <1>7 DEF PollAdmitted
    <3>3. tx'.pc = "push"
      BY <3>1, <3>2
    <3>. QED
      BY <3>1, <3>2, <3>3 DEF Idle
  <2>2. Target(tx.d)' = Target(tx.d)
    BY <1>1, <2>1 DEF Target
  <2>3. \A j : Placed(j)' <=> Placed(j)
    BY <1>1, <2>1, <2>2 DEF Placed, Entry
  <2>4. CountsAt(tx.k - 1)'
    BY <1>1, <1>3, <1>4, <2>1 DEF CountsAt
  <2>5. Progress'
    <3>1. \A j \in 1 .. tx'.k - 1 : Placed(j)'
      BY <1>3, <1>5, <2>1, <2>3
    <3>. QED
      BY <2>1, <2>4, <3>1 DEF Progress, Waiting
  <2>6. OwnSlots'
    BY <1>1, <1>4, <2>1, <2>2 DEF OwnSlots
  <2>7. Serving' => Settled'
    <3>1. FloorR' = FloorR /\ FloorU' = FloorU
      BY <1>1, <1>2, <2>1 DEF FloorR, FloorU
    <3>. QED
      BY <1>1, <3>1 DEF OnTime, Serving, Settled, Aligned, Bound, Entry
  <2>. QED
    BY <1>6, <2>5, <2>6, <2>7 DEF OnTime
<1>8. ASSUME ~(tx.k < Size(tx.d)) PROVE OnTime'
  <2>1. Moved(tx', tx, "commit")
    BY <1>2, <1>8, PcMoves DEF PollAdmitted, Pcs
  <2>2. SameTx /\ tx'.pc = "commit" /\ tx'.k = tx.k /\ tx'.d = tx.d
    BY <1>2, <2>1 DEF SameTx, Moved
  <2>3. /\ \A j : Placed(j)' <=> Placed(j)
        /\ CountsAt(tx.k)' <=> CountsAt(tx.k)
        /\ OwnSlots => OwnSlots'
        /\ Settled => Settled'
    BY <1>1, <2>2, SameTables
  <2>4. tx.k = Size(tx.d)
    BY <1>3, <1>8
  <2>5. Progress'
    BY <1>4, <1>5, <2>2, <2>3, <2>4 DEF Progress, Waiting
  <2>. QED
    BY <1>1, <1>4, <1>6, <2>3, <2>5 DEF OnTime, Serving
<1>. QED
  BY <1>7, <1>8

(* The entry was rejected, and no request is on its way either.            *)
LEMMA PollFailedOnTime ==
  ASSUME IInv, OnTime, PollFailed, ~late'
  PROVE  OnTime'
<1>1. /\ tx.pc = "poll" /\ ~InFlight
      /\ UNCHANGED <<rt, gen, ring, drain, ts_rules, ts_updates, ts_counts, cap_policy,
                     catalog, accepted>>
  BY DEF PollFailed, chanVars, tableVars, reportVars
<1>2. tx \in TxType /\ tx # Idle
  BY <1>1, TxFacts DEF Pcs
<1>3. Moved(tx', tx, "roll_rules")
  BY <1>2, PcMoves DEF PollFailed, Pcs
<1>4. SameTx /\ tx'.pc = "roll_rules"
  BY <1>2, <1>3 DEF SameTx, Moved
<1>5. Progress'
  BY <1>4 DEF Progress, Waiting
<1>. QED
  BY <1>1, <1>2, <1>4, <1>5, SameTables DEF OnTime, InFlight, Cleared, Serving

(* The counts go back to where the transaction found them.                 *)
LEMMA RollCountsOnTime ==
  ASSUME IInv, OnTime, RollRules \/ RollUpdates
  PROVE  OnTime'
<1>1. /\ tx.pc \in {"roll_rules", "roll_updates"}
      /\ UNCHANGED <<rt, gen, ring, drain, ts_rules, ts_updates, cap_policy, catalog, accepted>>
  BY DEF RollRules, RollUpdates, chanVars, reportVars
<1>2. tx \in TxType /\ tx # Idle /\ ~Waiting /\ Serving
  BY <1>1, TxFacts DEF Pcs, Waiting, Serving
<1>3. /\ ts_counts \in [Kinds -> Nat] /\ tx.rules0 \in Nat /\ tx.updates0 \in Nat
  BY <1>2, TxNumbers
<1>4. \/ /\ Moved(tx', tx, "roll_updates")
         /\ ts_counts'["rule"] = tx.rules0 /\ ts_counts'["update"] = ts_counts["update"]
      \/ /\ Moved(tx', tx, "roll_mask") /\ tx.pc = "roll_updates"
         /\ ts_counts'["rule"] = ts_counts["rule"] /\ ts_counts'["update"] = tx.updates0
  BY <1>2, <1>3, PcMoves DEF RollRules, RollUpdates, Pcs, Kinds
<1>5. SameTx /\ tx'.pc \in {"roll_updates", "roll_mask"}
  BY <1>2, <1>4 DEF SameTx, Moved
<1>6. Progress /\ OwnSlots
  BY <1>2 DEF OnTime
<1>7. Progress'
  BY <1>4, <1>5, <1>6 DEF Progress, Waiting, SameTx, Moved
<1>8. OwnSlots'
  <2>1. Target(tx.d)' = Target(tx.d)
    BY <1>1, <1>5 DEF Target, SameTx
  <2>2. /\ \A i \in tx.rules0 .. tx.rules0 - 1 : FALSE
        /\ \A i \in tx.updates0 .. tx.updates0 - 1 : FALSE
    BY <1>3
  <2>3. \/ ts_counts'["rule"] = tx.rules0 /\ ts_counts'["update"] = ts_counts["update"]
        \/ ts_counts'["rule"] = ts_counts["rule"] /\ ts_counts'["update"] = tx.updates0
    BY <1>4
  <2>. QED
    BY <1>1, <1>3, <1>5, <1>6, <2>1, <2>2, <2>3 DEF OwnSlots, SameTx
<1>9. Settled'
  <2>1. FloorR' = FloorR /\ FloorU' = FloorU
    BY <1>2, <1>5 DEF FloorR, FloorU, SameTx
  <2>. QED
    BY <1>1, <1>2, <2>1 DEF OnTime, Settled, Aligned, Bound, Entry
<1>10. ~InFlight' /\ Cleared'
  BY <1>1, <1>2 DEF OnTime, InFlight, Cleared, Serving
<1>. QED
  BY <1>7, <1>8, <1>9, <1>10 DEF OnTime

(* The bindings too; below the counts they are those of the start.         *)
LEMMA RollMaskOnTime ==
  ASSUME IInv, OnTime, RollMask
  PROVE  OnTime'
<1>1. /\ tx.pc = "roll_mask" /\ tx' = Idle /\ (rt' = "down" \/ rt' = rt)
      /\ cap_policy' = [cap_policy EXCEPT ![Target(tx.d)] = tx.mask0]
      /\ UNCHANGED <<gen, ring, drain, ts_rules, ts_updates, ts_counts, catalog, accepted>>
  BY DEF RollMask, chanVars
<1>2. tx # Idle /\ ~Waiting /\ Serving /\ Target(tx.d) \in DomIds
  BY <1>1, TxFacts DEF Pcs, Waiting, Serving
<1>3. /\ ts_counts["rule"] = tx.rules0 /\ ts_counts["update"] = tx.updates0 /\ OwnSlots /\ Settled
  BY <1>1, <1>2 DEF OnTime, Progress
<1>4. FloorR' = FloorR /\ FloorU' = FloorU /\ FloorR = ts_counts["rule"] /\ FloorU = ts_counts["update"]
  BY <1>1, <1>2, <1>3 DEF FloorR, FloorU
<1>5. \A i \in 0 .. FloorR - 1 : Bound(i)' <=> Bound(i)
  <2>1. cap_policy \in [DomIds -> SUBSET (0 .. MAX_RULES - 1)]
    BY DEF IInv, Types, SlotTypes
  <2>2. \A i \in 0 .. FloorR - 1 : ts_rules[i].target \in DomIds
    BY <1>4, TxNumbers, <1>2, Shapes DEF IInv, Requests, Written, Slot, Genuine, Kinds
  <2>3. \A i \in 0 .. FloorR - 1 : i \in tx.mask0 <=> i \in cap_policy[Target(tx.d)]
    BY <1>3, <1>4 DEF OwnSlots
  <2>. QED
    BY <1>1, <1>2, <2>1, <2>2, <2>3 DEF Bound
<1>6. Settled'
  BY <1>1, <1>3, <1>4, <1>5 DEF Settled, Aligned, Entry
<1>7. ~InFlight' /\ Cleared'
  BY <1>1, <1>2 DEF OnTime, InFlight, Cleared, Serving
<1>. QED
  BY <1>1, <1>6, <1>7 DEF OnTime

(* The catalog after a success: what it held, and the delta's metadata.    *)
LEMMA CommitCatalog ==
  ASSUME IInv, Answers, OnTime, Commit
  PROVE  /\ Len(catalog) \in Nat /\ Len(catalog) <= Len(catalog')
         /\ \A i \in 1 .. Len(catalog) : catalog'[i] = catalog[i]
         /\ \A m \in 1 .. NRules[tx.d] :
              /\ tx.base + m \in 1 .. Len(catalog')
              /\ catalog'[tx.base + m] = [d |-> tx.d, k |-> NUpdates[tx.d] + m]
<1>1. /\ tx.pc = "commit"
      /\ catalog' = IF tx.d = Policy THEN catalog ELSE catalog \o RuleMeta(tx.d)
  BY DEF Commit
<1>2. tx # Idle /\ tx.d \in AllDeltas
  BY <1>1, TxFacts DEF Pcs
<1>3. tx.base = IF tx.d = Policy THEN 0 ELSE Len(catalog)
  BY <1>2 DEF OnTime, OwnSlots
<1>. DEFINE S == [d : AllDeltas, k : Nat]
            M == RuleMeta(tx.d)
<1>4. catalog \in Seq(S) /\ Len(catalog) \in Nat
  BY LenProperties DEF IInv, Types, ReportTypes
<1>5. M \in Seq(S) /\ Len(M) = NRules[tx.d] /\ NRules[tx.d] \in Nat
  BY <1>2, RuleMetaType, Sizes
<1>6. \A m \in 1 .. NRules[tx.d] : M[m] = [d |-> tx.d, k |-> NUpdates[tx.d] + m]
  BY DEF RuleMeta
<1>7. CASE tx.d = Policy
  <2>1. catalog = M /\ catalog' = catalog
    BY <1>1, <1>2, <1>7 DEF Answers
  <2>. QED
    BY <1>3, <1>4, <1>5, <1>6, <1>7, <2>1
<1>8. CASE tx.d # Policy
  <2>. HIDE DEF S, M
  <2>1. catalog' = catalog \o M
    BY <1>1, <1>8 DEF M
  <2>2. /\ Len(catalog') = Len(catalog) + Len(M)
        /\ \A i \in 1 .. Len(catalog) + Len(M) : catalog'[i] =
             IF i <= Len(catalog) THEN catalog[i] ELSE M[i - Len(catalog)]
    BY <1>4, <1>5, <2>1, ConcatProperties
  <2>3. \A i \in 1 .. Len(catalog) : catalog'[i] = catalog[i]
    BY <1>4, <1>5, <2>2
  <2>4. ASSUME NEW m \in 1 .. NRules[tx.d]
        PROVE  tx.base + m \in 1 .. Len(catalog') /\ catalog'[tx.base + m] = M[m]
    <3>1. /\ Len(catalog) + m \in 1 .. Len(catalog) + Len(M) /\ ~(Len(catalog) + m <= Len(catalog))
          /\ (Len(catalog) + m) - Len(catalog) = m /\ tx.base = Len(catalog)
      BY <1>3, <1>4, <1>5, <1>8
    <3>. QED
      BY <2>2, <3>1
  <2>5. Len(catalog) <= Len(catalog')
    BY <1>4, <1>5, <2>2
  <2>6. \A m \in 1 .. NRules[tx.d] : M[m] = [d |-> tx.d, k |-> NUpdates[tx.d] + m]
    BY <1>6
  <2>. QED
    BY <1>4, <2>3, <2>4, <2>5, <2>6
<1>. QED
  BY <1>7, <1>8

(* The delta is in, wholly, and becomes part of what is settled.           *)
LEMMA CommitOnTime ==
  ASSUME IInv, Answers, OnTime, Commit
  PROVE  OnTime'
<1>1. /\ tx.pc = "commit" /\ tx' = Idle /\ rt' \in {"up", rt}
      /\ accepted' = accepted \cup {tx.d}
      /\ UNCHANGED <<gen, ring, drain, ts_rules, ts_updates, ts_counts, cap_policy>>
  BY DEF Commit, chanVars, tableVars
<1>2. tx # Idle /\ ~Waiting /\ Serving /\ tx.d \in AllDeltas /\ Target(tx.d) \in DomIds
  BY <1>1, TxFacts DEF Pcs, Waiting, Serving
<1>. DEFINE R == ts_counts["rule"]
            U == ts_counts["update"]
            NU == NUpdates[tx.d]
            NR == NRules[tx.d]
<1>3. /\ CountsAt(tx.k) /\ tx.k = Size(tx.d) /\ OwnSlots /\ Settled
      /\ \A j \in 1 .. Size(tx.d) : Placed(j)
  BY <1>1, <1>2 DEF OnTime, Progress
<1>4. /\ NU \in Nat /\ NR \in Nat /\ Size(tx.d) = NU + NR
      /\ tx.rules0 \in Nat /\ tx.updates0 \in Nat /\ R \in Nat /\ U \in Nat
      /\ U = tx.updates0 + NU /\ R = tx.rules0 + NR
  BY <1>2, <1>3, TxNumbers DEF CountsAt
<1>5. FloorR' = R /\ FloorU' = U /\ FloorR = tx.rules0 /\ FloorU = tx.updates0
  BY <1>1, <1>2 DEF FloorR, FloorU
<1>6. \A i \in 0 .. R - 1 : Genuine(ts_rules[i]) /\ ts_rules[i].kind = "rule"
  BY <1>4 DEF IInv, Requests, Written, Slot, Kinds
<1>7. \A i : Bound(i)' <=> Bound(i)
  BY <1>1 DEF Bound
<1>. HIDE DEF R, U, NU, NR
<1>8. ASSUME NEW i \in 0 .. R - 1, Bound(i), ts_rules[i].gen = gen
      PROVE  ts_rules[i].d \in accepted' /\ Aligned(ts_rules[i])'
  <2>1. CASE i < tx.rules0
    <3>1. i \in 0 .. FloorR - 1
      BY <1>4, <1>5, <2>1
    <3>2. ts_rules[i].d \in accepted /\ Aligned(ts_rules[i])
      BY <1>3, <1>8, <3>1 DEF Settled
    <3>3. /\ ts_rules[i].id \in 1 .. Len(catalog')
          /\ catalog'[ts_rules[i].id] = [d |-> ts_rules[i].d, k |-> ts_rules[i].k]
      <4>1. ts_rules[i].id \in 1 .. Len(catalog)
            /\ catalog[ts_rules[i].id] = [d |-> ts_rules[i].d, k |-> ts_rules[i].k]
        BY <3>2 DEF Aligned
      <4>2. Len(catalog') \in Nat
        BY CommitKeeps, LenProperties DEF IInv, Types, ReportTypes
      <4>. QED
        BY <4>1, <4>2, CommitCatalog
    <3>. QED
      BY <1>1, <3>2, <3>3 DEF Aligned
  <2>2. CASE ~(i < tx.rules0)
    <3>1. i \in tx.rules0 .. R - 1
      BY <1>4, <2>2
    <3>2. ts_rules[i].d = tx.d /\ ts_rules[i].id = tx.base + ts_rules[i].k - NUpdates[tx.d]
      BY <1>3, <3>1 DEF OwnSlots, R
    <3>3. ts_rules[i].k \in 1 .. Size(tx.d) /\ ~(ts_rules[i].k <= NU)
      BY <1>6, <3>2 DEF Genuine, KindOf, NU
    <3>4. tx.base \in Nat
      BY <1>2, TxNumbers
    <3>5. PICK m \in 1 .. NR : ts_rules[i].k = NU + m
      <4>1. ts_rules[i].k \in 1 .. NU + NR /\ NU \in Nat /\ NR \in Nat
        BY <1>4, <3>3
      <4>2. ts_rules[i].k - NU \in 1 .. NR /\ ts_rules[i].k = NU + (ts_rules[i].k - NU)
        BY <3>3, <4>1
      <4>. QED
        BY <4>2
    <3>6. ts_rules[i].id = tx.base + m
      BY <1>4, <3>2, <3>4, <3>5 DEF NU
    <3>7. /\ ts_rules[i].id \in 1 .. Len(catalog')
          /\ catalog'[ts_rules[i].id] = [d |-> ts_rules[i].d, k |-> ts_rules[i].k]
      BY <3>2, <3>5, <3>6, CommitCatalog DEF NU, NR
    <3>. QED
      BY <1>1, <3>2, <3>7 DEF Aligned
  <2>. QED
    BY <2>1, <2>2
<1>9. ASSUME NEW i \in 0 .. U - 1, ts_updates[i].gen = gen
      PROVE  ts_updates[i].d \in accepted'
  <2>1. i \in 0 .. FloorU - 1 \/ i \in tx.updates0 .. U - 1
    BY <1>4, <1>5
  <2>. QED
    BY <1>1, <1>3, <1>9, <2>1 DEF Settled, OwnSlots, U
<1>10. ASSUME NEW d \in accepted', NEW k \in 1 .. Size(d)
       PROVE  IF k <= NUpdates[d] THEN \E i \in 0 .. U - 1 : Entry(ts_updates[i], d, k)
              ELSE \E i \in 0 .. R - 1 : Entry(ts_rules[i], d, k) /\ Bound(i)
  <2>1. CASE d \in accepted
    <3>1. /\ \A i \in 0 .. FloorU - 1 : i \in 0 .. U - 1
          /\ \A i \in 0 .. FloorR - 1 : i \in 0 .. R - 1
      BY <1>4, <1>5
    <3>2. IF k <= NUpdates[d] THEN \E i \in 0 .. FloorU - 1 : Entry(ts_updates[i], d, k)
          ELSE \E i \in 0 .. FloorR - 1 : Entry(ts_rules[i], d, k) /\ Bound(i)
      BY <1>3, <2>1 DEF Settled
    <3>. QED
      BY <3>1, <3>2
  <2>2. CASE d \notin accepted
    <3>1. d = tx.d /\ Placed(k)
      BY <1>1, <1>3, <2>2
    <3>2. CASE k <= NU
      <4>1. tx.updates0 + k - 1 \in 0 .. U - 1
        BY <1>4, <3>2
      <4>2. Entry(ts_updates[tx.updates0 + k - 1], d, k)
        BY <3>1, <3>2 DEF Placed, NU
      <4>. QED
        BY <3>1, <3>2, <4>1, <4>2 DEF NU
    <3>3. CASE ~(k <= NU)
      <4>. DEFINE i == tx.rules0 + k - NUpdates[tx.d] - 1
      <4>1. i \in 0 .. R - 1
        <5>1. k \in 1 .. NU + NR
          BY <1>4, <3>1
        <5>. QED
          BY <1>4, <3>3, <5>1 DEF NU
      <4>2. Entry(ts_rules[i], d, k) /\ Bound(i)
        BY <3>1, <3>3 DEF Placed, Bound, NU
      <4>. QED
        BY <3>1, <3>3, <4>1, <4>2 DEF NU
    <3>. QED
      BY <3>2, <3>3
  <2>. QED
    BY <2>1, <2>2
<1>11. Settled'
  <2>1. \A i \in 0 .. FloorR' - 1 : Bound(i)' /\ ts_rules'[i].gen = gen' =>
          ts_rules'[i].d \in accepted' /\ Aligned(ts_rules[i])'
    BY <1>1, <1>5, <1>7, <1>8
  <2>2. \A i \in 0 .. FloorU' - 1 : ts_updates'[i].gen = gen' => ts_updates'[i].d \in accepted'
    BY <1>1, <1>5, <1>9
  <2>3. \A d \in accepted' : \A k \in 1 .. Size(d) :
          IF k <= NUpdates[d] THEN \E i \in 0 .. FloorU' - 1 : Entry(ts_updates[i], d, k)'
          ELSE \E i \in 0 .. FloorR' - 1 : Entry(ts_rules[i], d, k)' /\ Bound(i)'
    <3>1. \A e, d, k : Entry(e, d, k)' <=> Entry(e, d, k)
      BY <1>1 DEF Entry
    <3>2. \A i, d, k : /\ Entry(ts_updates[i], d, k)' <=> Entry(ts_updates[i], d, k)
                       /\ Entry(ts_rules[i], d, k)' <=> Entry(ts_rules[i], d, k)
      BY <1>1 DEF Entry
    <3>. QED
      BY <1>5, <1>7, <1>10, <3>2
  <2>. QED
    BY <2>1, <2>2, <2>3 DEF Settled
<1>12. ~InFlight' /\ Cleared'
  BY <1>1, <1>2 DEF OnTime, InFlight, Cleared, Serving
<1>. QED
  BY <1>1, <1>11, <1>12 DEF OnTime

----------------------------------------------------------------------------
(* The runtime's life cycle.  A runtime serves only tables it has cleared. *)
LEMMA LifeOnTime ==
  ASSUME IInv, Answers, OnTime, Start \/ Stop \/ ClearStep \/ Seed
  PROVE  OnTime'
<1>1. tx = Idle /\ tx' = Idle /\ UNCHANGED <<ring, drain>> /\ ~InFlight
  <2>1. tx = Idle /\ tx' = tx /\ UNCHANGED <<ring, drain>>
    BY NotServing DEF Start, Stop, ClearStep, ClearCounts, ClearTask, ClearState, ClearPolicy, Seed,
         chanVars
  <2>2. ~Waiting
    BY <2>1 DEF Waiting, Idle
  <2>. QED
    BY <2>1, <2>2 DEF OnTime
<1>2. ~InFlight'
  BY <1>1 DEF InFlight
<1>3. Cleared'
  <2>1. CASE ClearCounts
    BY <2>1 DEF ClearCounts, Cleared
  <2>2. CASE Start \/ Stop \/ Seed
    BY <2>2 DEF Start, Stop, Seed, Cleared
  <2>3. CASE ClearTask \/ ClearState \/ ClearPolicy
    BY <2>3 DEF ClearTask, ClearState, ClearPolicy, tableVars, OnTime, Cleared
  <2>. QED
    BY <2>1, <2>2, <2>3 DEF ClearStep
<1>4. Serving' => Settled'
  <2>. SUFFICES ASSUME Serving' PROVE Settled'
    OBVIOUS
  <2>1. rt = "seed" /\ UNCHANGED <<ts_counts, accepted>>
    BY DEF Serving, Start, Stop, ClearStep, ClearCounts, ClearTask, ClearState, ClearPolicy, Seed,
         tableVars, reportVars
  <2>2. accepted' = {} /\ FloorR' = 0 /\ FloorU' = 0
    BY <1>1, <2>1 DEF Answers, OnTime, Cleared, FloorR, FloorU
  <2>3. \A i \in 0 .. 0 - 1 : FALSE
    OBVIOUS
  <2>. QED
    BY <2>2, <2>3 DEF Settled
<1>. QED
  BY <1>1, <1>2, <1>3, <1>4 DEF OnTime

(* A child domain touches no table.                                        *)
LEMMA BindChildOnTime ==
  ASSUME IInv, OnTime, BindChild
  PROVE  OnTime'
<1>1. UNCHANGED <<rt, gen, tx, ring, drain, ts_rules, ts_updates, ts_counts, cap_policy,
                  catalog, accepted>>
  BY DEF BindChild, chanVars, tableVars, reportVars
<1>2. SameTx
  BY <1>1 DEF SameTx
<1>3. InFlight' => InFlight /\ (OnItsWay => OnItsWay')
  BY <1>1, <1>2, SameTables DEF InFlight, OnItsWay, Holding
<1>. QED
  BY <1>1, <1>2, <1>3, FlightStep

(* A runtime that dies leaves no request behind, or is late.               *)
LEMMA CrashOnTime ==
  ASSUME IInv, OnTime, Crash, ~late'
  PROVE  OnTime'
<1>1. tx' = Idle /\ rt' = "down" /\ ring' = ring /\ ~InFlight
      /\ drain' = [drain EXCEPT !.kick = FALSE]
  BY DEF Crash
<1>2. drain'.at = drain.at
  BY <1>1 DEF IInv, Types, ChanTypes, DrainType
<1>. QED
  BY <1>1, <1>2 DEF OnTime, InFlight, Cleared, Serving

(* Once late, for good.                                                    *)
LEMMA LateStays ==
  ASSUME Next, late
  PROVE  late'
  BY DEF Next, DrainStep, TxStep, ClearStep, DrainStart, DrainTake, DrainFull, DrainWrite,
         DrainCount, DrainEmpty, DrainRelease, Begin, Push, Kick, PollAdmitted, PollFailed,
         RollRules, RollUpdates, RollMask, Commit, Start, Stop, ClearCounts, ClearTask, ClearState,
         ClearPolicy, Seed, BindChild, Crash

(* Every step keeps the invariant of the transactions.                     *)
LEMMA NextTInv ==
  ASSUME TInv, [Next]_vars
  PROVE  TInv'
<1>1. CASE UNCHANGED vars
  BY <1>1, NextIInv DEF TInv, vars, Answers, OnTime, Waiting, InFlight, Cleared, Progress, CountsAt,
       Placed, Entry, OnItsWay, Request, Before, Holding, Target, OwnSlots, Settled, FloorR, FloorU,
       Aligned, Bound, Serving
<1>2. CASE Next
  <2>1. IInv /\ Answers
    BY DEF TInv
  <2>2. IInv' /\ Answers'
    BY <1>2, <2>1, NextIInv, NextAnswers
  <2>3. ASSUME ~late' PROVE OnTime'
    <3>1. OnTime
      BY <1>2, <2>3, LateStays DEF TInv
    <3>2. CASE \E p \in Procs : DrainStart(p)
      BY <2>1, <3>1, <3>2, DrainOnTime
    <3>3. CASE DrainStep
      BY <2>1, <3>1, <3>3, DrainOnTime, DrainWriteOnTime, DrainCountOnTime DEF DrainStep
    <3>4. CASE \E d \in AllDeltas : Begin(d)
      BY <2>1, <3>1, <3>4, BeginOnTime
    <3>5. CASE TxStep
      BY <2>1, <2>3, <3>1, <3>5, PushOnTime, KickOnTime, PollAdmittedOnTime, PollFailedOnTime,
         RollCountsOnTime, RollMaskOnTime, CommitOnTime DEF TxStep
    <3>6. CASE Start \/ Stop \/ ClearStep \/ Seed
      BY <2>1, <3>1, <3>6, LifeOnTime
    <3>7. CASE BindChild \/ Crash
      BY <2>1, <2>3, <3>1, <3>7, BindChildOnTime, CrashOnTime
    <3>. QED
      BY <1>2, <3>2, <3>3, <3>4, <3>5, <3>6, <3>7 DEF Next
  <2>. QED
    BY <2>2, <2>3 DEF TInv
<1>. QED
  BY <1>1, <1>2

(* In every behaviour, whoever drains, with whatever authority, and with   *)
(* crashes at any step: until a request outlives its transaction, the      *)
(* tables are what the transactions made of them.                          *)
THEOREM TransactionInvariant ==
  Spec => []TInv
<1>1. Init => TInv
  BY InitTInv
<1>2. TInv /\ [Next]_vars => TInv'
  BY NextTInv
<1>. QED
  BY <1>1, <1>2, PTL DEF Spec

----------------------------------------------------------------------------
(* What is in force, entry by entry.                                       *)
LEMMA InForce ==
  ASSUME IInv
  PROVE  /\ \A i \in 0 .. ts_counts["rule"] - 1 : ts_rules[i].target \in DomIds
         /\ \A d, k : <<d, k>> \in LiveOf(d) <=>
              \/ \E i \in 0 .. ts_counts["rule"] - 1 : Bound(i) /\ Entry(ts_rules[i], d, k)
              \/ \E i \in 0 .. ts_counts["update"] - 1 : Entry(ts_updates[i], d, k)
         /\ \A d : \A x \in LiveOf(d) : \E k : x = <<d, k>>
<1>1. \A i \in 0 .. ts_counts["rule"] - 1 : ts_rules[i].target \in DomIds
  BY Shapes DEF IInv, Types, CountTypes, Requests, Written, Slot, Genuine, Kinds
<1>2. \A e : e \in Live <=>
        \/ \E i \in 0 .. ts_counts["rule"] - 1 : Bound(i) /\ e = ts_rules[i]
        \/ \E i \in 0 .. ts_counts["update"] - 1 : e = ts_updates[i]
  BY DEF Live, LiveRules, LiveUpdates, Bound
<1>3. \A d, k : <<d, k>> \in LiveOf(d) <=> \E e \in Live : Entry(e, d, k)
  BY DEF LiveOf, Entry
<1>4. \A d : \A x \in LiveOf(d) : \E k : x = <<d, k>>
  BY DEF LiveOf
<1>5. \A d, k : <<d, k>> \in LiveOf(d) <=>
        \/ \E i \in 0 .. ts_counts["rule"] - 1 : Bound(i) /\ Entry(ts_rules[i], d, k)
        \/ \E i \in 0 .. ts_counts["update"] - 1 : Entry(ts_updates[i], d, k)
  BY <1>2, <1>3
<1>. QED
  BY <1>1, <1>4, <1>5

(* Entries of a live delta are entries it has.                             *)
LEMMA LiveInWhole ==
  ASSUME IInv, NEW d
  PROVE  LiveOf(d) \subseteq Whole(d)
<1>. SUFFICES ASSUME NEW x \in LiveOf(d) PROVE x \in Whole(d)
  OBVIOUS
<1>1. PICK k : x = <<d, k>>
  BY InForce
<1>2. k \in 1 .. Size(d)
  <2>1. ts_counts["rule"] \in Nat /\ ts_counts["update"] \in Nat
    BY DEF IInv, Types, CountTypes
  <2>2. /\ \A i \in 0 .. ts_counts["rule"] - 1 : Genuine(ts_rules[i])
        /\ \A i \in 0 .. ts_counts["update"] - 1 : Genuine(ts_updates[i])
    BY <2>1 DEF IInv, Requests, Written, Slot, Kinds
  <2>. QED
    BY <1>1, <2>2, InForce DEF Entry, Genuine
<1>. QED
  BY <1>1, <1>2 DEF Whole

(* Between transactions the accepted deltas are live with every entry, the *)
(* others of this runtime with none.                                       *)
LEMMA SettledLive ==
  ASSUME IInv, tx = Idle, Settled
  PROVE  /\ \A d \in accepted : Whole(d) \subseteq LiveOf(d)
         /\ \A d : d \notin accepted => LiveOf(d) = {}
<1>1. FloorR = ts_counts["rule"] /\ FloorU = ts_counts["update"]
  BY DEF FloorR, FloorU
<1>2. ASSUME NEW d \in accepted, NEW k \in 1 .. Size(d) PROVE <<d, k>> \in LiveOf(d)
  BY <1>1, <1>2, InForce DEF Settled
<1>3. ASSUME NEW d, d \notin accepted, NEW x \in LiveOf(d) PROVE FALSE
  <2>1. PICK k : x = <<d, k>>
    BY InForce
  <2>2. \/ \E i \in 0 .. FloorR - 1 : Bound(i) /\ Entry(ts_rules[i], d, k)
        \/ \E i \in 0 .. FloorU - 1 : Entry(ts_updates[i], d, k)
    BY <1>1, <2>1, InForce
  <2>. QED
    BY <1>3, <2>2 DEF Settled, Entry
<1>. QED
  BY <1>2, <1>3 DEF Whole

(* For any deltas, tables, rings and number of runtimes: until a request   *)
(* outlives its transaction, what append_policy_delta reported as admitted *)
(* is live, every entry of it, and what it rolled back is gone.            *)
THEOREM TransactionsAtomic ==
  Spec => []TxAtomic
<1>1. TInv => TxAtomic
  <2>. SUFFICES ASSUME TInv, ~late, rt \in {"install", "up"}, tx = Idle
                PROVE  /\ \A d \in accepted : LiveOf(d) = Whole(d)
                       /\ \A d \in failed : LiveOf(d) = {}
    BY DEF TxAtomic
  <2>1. IInv /\ Settled /\ accepted \cap failed = {}
    BY DEF TInv, OnTime, Serving, Answers
  <2>. QED
    BY <2>1, SettledLive, LiveInWhole
<1>. QED
  BY <1>1, TransactionInvariant, PTL

(* And the rule id that a live rule carries leads to its own metadata in   *)
(* RuntimePolicyCatalog.                                                   *)
THEOREM CatalogIsAligned ==
  Spec => []CatalogAligned
<1>1. TInv => CatalogAligned
  <2>. SUFFICES ASSUME TInv, ~late, rt \in {"install", "up"}, tx = Idle,
                       NEW r \in LiveRules, r.gen = gen
                PROVE  r.id \in 1 .. Len(catalog) /\ catalog[r.id] = [d |-> r.d, k |-> r.k]
    BY DEF CatalogAligned
  <2>1. Settled /\ FloorR = ts_counts["rule"]
    BY DEF TInv, OnTime, Serving, FloorR
  <2>2. PICK i \in 0 .. ts_counts["rule"] - 1 : Bound(i) /\ r = ts_rules[i]
    BY DEF LiveRules, Bound
  <2>. QED
    BY <2>1, <2>2 DEF Settled, Aligned
<1>. QED
  BY <1>1, TransactionInvariant, PTL

----------------------------------------------------------------------------
(* The refinement mapping, named.                                          *)
Enforced == UNION {LiveOf(d) : d \in AllDeltas}
Busy == IF tx = Idle THEN None ELSE tx.d

(* An entry is in force by a slot below a count, bound if it is a rule's.  *)
InForceBy(d, k) ==
  \/ \E i \in 0 .. ts_counts["rule"] - 1 : Bound(i) /\ Entry(ts_rules[i], d, k)
  \/ \E i \in 0 .. ts_counts["update"] - 1 : Entry(ts_updates[i], d, k)

(* What is in force, entry by entry, for the mapping.                      *)
ForceIs ==
  /\ \A d \in AllDeltas : \A k : <<d, k>> \in Enforced <=> InForceBy(d, k)
  /\ \A x \in Enforced : \E d \in AllDeltas : \E k : x = <<d, k>> /\ k \in 1 .. Size(d)

(* Only entries that deltas have are in force.                             *)
LEMMA ForceEntries ==
  IInv => ForceIs
<1>. SUFFICES ASSUME IInv PROVE ForceIs
  OBVIOUS
<1>1. \A x \in Enforced : \E d \in AllDeltas : x \in LiveOf(d)
  BY DEF Enforced
<1>2. \A d \in AllDeltas : LiveOf(d) \subseteq Enforced
  BY DEF Enforced
<1>3. \A d, k, c : <<d, k>> \in LiveOf(c) => c = d
  BY DEF LiveOf
<1>4. \A d \in AllDeltas : \A k : <<d, k>> \in Enforced <=> <<d, k>> \in LiveOf(d)
  BY <1>1, <1>2, <1>3
<1>5. \A d, k : <<d, k>> \in LiveOf(d) <=> InForceBy(d, k)
  BY InForce DEF InForceBy
<1>6. \A d : \A x \in LiveOf(d) : \E k \in 1 .. Size(d) : x = <<d, k>>
  BY LiveInWhole DEF Whole
<1>. QED
  BY <1>1, <1>4, <1>5, <1>6 DEF ForceIs

(* The same of the next state.                                             *)
LEMMA ForceEntriesNext ==
  IInv' => ForceIs'
  BY ForceEntries, PTL

(* Two sets of entries that agree on the entries of every delta.           *)
LEMMA ForceEqual ==
  ASSUME ForceIs, ForceIs', \A d \in AllDeltas : \A k : InForceBy(d, k)' <=> InForceBy(d, k)
  PROVE  Enforced' = Enforced
<1>1. \A d \in AllDeltas : \A k : <<d, k>> \in Enforced' <=> <<d, k>> \in Enforced
  BY DEF ForceIs
<1>2. /\ \A x \in Enforced : \E d \in AllDeltas : \E k : x = <<d, k>>
      /\ \A x \in Enforced' : \E d \in AllDeltas : \E k : x = <<d, k>>
  BY DEF ForceIs
<1>3. ASSUME NEW x PROVE x \in Enforced' <=> x \in Enforced
  BY <1>1, <1>2
<1>. QED
  BY <1>3

(* A step that keeps slots and bindings below the counts, and the counts,  *)
(* changes nothing that is in force.                                       *)
LEMMA SameForce ==
  ASSUME IInv, IInv', UNCHANGED <<gen, ts_counts>>,
         \A i \in 0 .. ts_counts["rule"] - 1 : ts_rules'[i] = ts_rules[i] /\ (Bound(i)' <=> Bound(i)),
         \A i \in 0 .. ts_counts["update"] - 1 : ts_updates'[i] = ts_updates[i]
  PROVE  Enforced' = Enforced
<1>1. /\ \A i \in 0 .. ts_counts["rule"] - 1 : \A d, k :
           Entry(ts_rules[i], d, k)' <=> Entry(ts_rules[i], d, k)
      /\ \A i \in 0 .. ts_counts["update"] - 1 : \A d, k :
           Entry(ts_updates[i], d, k)' <=> Entry(ts_updates[i], d, k)
  BY DEF Entry
<1>2. \A d, k : InForceBy(d, k)' <=> InForceBy(d, k)
  BY <1>1 DEF InForceBy
<1>. QED
  BY <1>2, ForceEntries, ForceEntriesNext, ForceEqual

(* While no table changes.                                                 *)
LEMMA SameForceTables ==
  ASSUME IInv, IInv', UNCHANGED <<gen, ts_rules, ts_updates, ts_counts, cap_policy>>
  PROVE  Enforced' = Enforced
  BY SameForce DEF Bound

(* With both counts at zero nothing is in force.                           *)
LEMMA NoForce ==
  ASSUME IInv, ts_counts["rule"] = 0, ts_counts["update"] = 0
  PROVE  Enforced = {}
<1>1. \A i \in 0 .. 0 - 1 : FALSE
  OBVIOUS
<1>2. \A d, k : ~InForceBy(d, k)
  BY <1>1 DEF InForceBy
<1>. QED
  BY <1>2, ForceEntries DEF ForceIs

(* Neither is anything for a runtime that has just started.                *)
LEMMA NewGeneration ==
  ASSUME IInv, IInv', gen' = gen + 1, UNCHANGED <<ts_rules, ts_updates, ts_counts>>
  PROVE  Enforced' = {}
<1>1. gen \in Nat /\ ts_counts["rule"] \in Nat /\ ts_counts["update"] \in Nat
  BY Sizes DEF IInv, Types, RtTypes, CountTypes
<1>2. /\ \A i \in 0 .. ts_counts["rule"] - 1 : Genuine(ts_rules[i])
      /\ \A i \in 0 .. ts_counts["update"] - 1 : Genuine(ts_updates[i])
  BY <1>1 DEF IInv, Requests, Written, Slot, Kinds
<1>3. \A e : Genuine(e) => e.gen # gen + 1
  <2>1. \A e : Genuine(e) => e.gen \in Nat /\ e.gen <= gen
    BY Shapes, Sizes DEF Genuine
  <2>. QED
    BY <1>1, <2>1
<1>4. \A d, k : ~InForceBy(d, k)'
  BY <1>2, <1>3 DEF InForceBy, Entry
<1>. QED
  BY <1>4, ForceEntriesNext DEF ForceIs

(* A step that moves counts among the transaction's own slots brings into  *)
(* force, or takes out of it, entries of its delta only.                   *)
LEMMA OwnWork ==
  ASSUME IInv, IInv', tx # Idle, SameTx, OwnSlots, OwnSlots',
         UNCHANGED <<gen, ts_rules, ts_updates, cap_policy>>
  PROVE  /\ Enforced' \ Whole(tx.d) = Enforced \ Whole(tx.d)
         /\ Enforced' \subseteq Enforced \cup Whole(tx.d)
<1>1. /\ tx.rules0 \in Nat /\ tx.updates0 \in Nat
      /\ ts_counts["rule"] \in Nat /\ ts_counts["update"] \in Nat
      /\ ts_counts'["rule"] \in Nat /\ ts_counts'["update"] \in Nat
      /\ tx.rules0 <= ts_counts["rule"] /\ tx.updates0 <= ts_counts["update"]
      /\ tx.rules0 <= ts_counts'["rule"] /\ tx.updates0 <= ts_counts'["update"]
  BY TxNumbers DEF IInv, Types, CountTypes, OwnSlots, SameTx
<1>2. ASSUME NEW d, NEW k, d # tx.d PROVE InForceBy(d, k)' <=> InForceBy(d, k)
  <2>. DEFINE Low == \/ \E i \in 0 .. tx.rules0 - 1 : Bound(i) /\ Entry(ts_rules[i], d, k)
                     \/ \E i \in 0 .. tx.updates0 - 1 : Entry(ts_updates[i], d, k)
  <2>1. /\ \A i \in 0 .. tx.rules0 - 1 : i \in 0 .. ts_counts["rule"] - 1 /\ i \in 0 .. ts_counts'["rule"] - 1
        /\ \A i \in 0 .. tx.updates0 - 1 :
             i \in 0 .. ts_counts["update"] - 1 /\ i \in 0 .. ts_counts'["update"] - 1
    BY <1>1
  <2>2. /\ \A i \in 0 .. ts_counts["rule"] - 1 :
             i \in 0 .. tx.rules0 - 1 \/ i \in tx.rules0 .. ts_counts["rule"] - 1
        /\ \A i \in 0 .. ts_counts["update"] - 1 :
             i \in 0 .. tx.updates0 - 1 \/ i \in tx.updates0 .. ts_counts["update"] - 1
        /\ \A i \in 0 .. ts_counts'["rule"] - 1 :
             i \in 0 .. tx.rules0 - 1 \/ i \in tx.rules0 .. ts_counts'["rule"] - 1
        /\ \A i \in 0 .. ts_counts'["update"] - 1 :
             i \in 0 .. tx.updates0 - 1 \/ i \in tx.updates0 .. ts_counts'["update"] - 1
    BY <1>1
  <2>3. /\ \A i \in tx.rules0 .. ts_counts["rule"] - 1 : ts_rules[i].d # d
        /\ \A i \in tx.updates0 .. ts_counts["update"] - 1 : ts_updates[i].d # d
        /\ \A i \in tx.rules0 .. ts_counts'["rule"] - 1 : ts_rules[i].d # d
        /\ \A i \in tx.updates0 .. ts_counts'["update"] - 1 : ts_updates[i].d # d
    BY <1>2 DEF OwnSlots, SameTx
  <2>4. InForceBy(d, k) <=> Low
    BY <2>1, <2>2, <2>3 DEF InForceBy, Entry
  <2>5. \A i : /\ Bound(i)' <=> Bound(i)
               /\ Entry(ts_rules[i], d, k)' <=> Entry(ts_rules[i], d, k)
               /\ Entry(ts_updates[i], d, k)' <=> Entry(ts_updates[i], d, k)
    BY DEF Bound, Entry
  <2>6. InForceBy(d, k)' <=>
          \/ \E i \in 0 .. ts_counts'["rule"] - 1 : Bound(i) /\ Entry(ts_rules[i], d, k)
          \/ \E i \in 0 .. ts_counts'["update"] - 1 : Entry(ts_updates[i], d, k)
    BY <2>5 DEF InForceBy
  <2>7. InForceBy(d, k)' <=> Low
    BY <2>1, <2>2, <2>3, <2>6 DEF Entry
  <2>. QED
    BY <2>4, <2>7
<1>3. ForceIs /\ ForceIs'
  BY ForceEntries, ForceEntriesNext
<1>4. \A k \in 1 .. Size(tx.d) : <<tx.d, k>> \in Whole(tx.d)
  BY DEF Whole
<1>5. ASSUME NEW x, x \notin Whole(tx.d) PROVE x \in Enforced' <=> x \in Enforced
  <2>1. ASSUME x \in Enforced \/ x \in Enforced'
        PROVE  \E d \in AllDeltas : \E k : x = <<d, k>> /\ d # tx.d
    BY <1>3, <1>4, <1>5, <2>1 DEF ForceIs
  <2>. QED
    BY <1>2, <1>3, <2>1 DEF ForceIs
<1>. QED
  BY <1>5

(* A step that the promise does not see.                                   *)
LEMMA Unseen ==
  ASSUME rt' \in {"install", "up"} <=> rt \in {"install", "up"},
         Busy' = Busy, Enforced' = Enforced, UNCHANGED <<accepted, failed, late>>
  PROVE  UNCHANGED Promise!vars
  BY DEF Promise!vars, Busy, Enforced

(* The steps by which a drain moves requests, and those of a transaction   *)
(* between its start and its end, are unseen.                              *)
LEMMA ChannelUnseen ==
  ASSUME IInv, IInv', ~late',
         \/ \E p \in Procs : DrainStart(p)
         \/ DrainTake \/ DrainFull \/ DrainWrite \/ DrainEmpty \/ DrainRelease
         \/ Push \/ Kick \/ PollAdmitted \/ PollFailed \/ BindChild,
         late' = late
  PROVE  UNCHANGED Promise!vars
<1>1. UNCHANGED <<rt, gen, ts_counts, accepted, failed, late>>
  BY DEF DrainStart, DrainTake, DrainFull, DrainWrite, DrainEmpty, DrainRelease, Push, Kick,
       PollAdmitted, PollFailed, BindChild, tableVars, reportVars
<1>2. Busy' = Busy
  <2>1. tx \in TxType /\ (tx.pc \in Pcs => tx # Idle) /\ (drain.kick => tx.pc \in Pcs)
    BY DEF IInv, Types, LifeCycle, Pcs, Idle
  <2>2. CASE tx' = tx
    BY <2>2 DEF Busy
  <2>3. CASE tx.pc \in Pcs /\ \E pc \in Pcs : tx' = [tx EXCEPT !.pc = pc]
    <3>1. tx' # Idle /\ tx'.d = tx.d
      BY <2>1, <2>3, PcMoves DEF Moved
    <3>. QED
      BY <2>1, <2>3, <3>1 DEF Busy
  <2>4. CASE tx.pc \in Pcs /\ tx' = [tx EXCEPT !.pc = "push", !.k = @ + 1]
    <3>1. tx \in [pc : Pcs, d : AllDeltas, k : Nat, base : Nat, rules0 : Nat, updates0 : Nat,
                  mask0 : SUBSET Nat]
      BY <2>1, <2>4 DEF TxType, Pcs
    <3>2. tx'.pc = "push" /\ tx'.d = tx.d
      BY <2>4, <3>1
    <3>. QED
      BY <2>1, <2>4, <3>2 DEF Busy, Idle
  <2>. QED
    BY <2>1, <2>2, <2>3, <2>4 DEF DrainStart, DrainTake, DrainFull, DrainWrite, DrainEmpty,
       DrainRelease, Push, Kick, PollAdmitted, PollFailed, BindChild, Pcs
<1>3. Enforced' = Enforced
  <2>1. CASE DrainWrite
    <3>1. /\ \A i \in 0 .. ts_counts["rule"] - 1 : ts_rules'[i] = ts_rules[i]
          /\ \A i \in 0 .. ts_counts["update"] - 1 : ts_updates'[i] = ts_updates[i]
          /\ \A x \in DomIds, i \in 0 .. ts_counts["rule"] - 1 :
               i \in cap_policy'[x] <=> i \in cap_policy[x]
      BY <2>1, DrainWriteSlots
    <3>2. \A i \in 0 .. ts_counts["rule"] - 1 : Bound(i)' <=> Bound(i)
      BY <3>1, InForce DEF Bound
    <3>. QED
      BY <1>1, <3>1, <3>2, SameForce
  <2>2. CASE ~DrainWrite
    <3>1. UNCHANGED <<ts_rules, ts_updates, cap_policy>>
      BY <2>2 DEF DrainStart, DrainTake, DrainFull, DrainEmpty, DrainRelease, Push, Kick,
         PollAdmitted, PollFailed, BindChild, tableVars
    <3>. QED
      BY <1>1, <3>1, SameForceTables
  <2>. QED
    BY <2>1, <2>2
<1>. QED
  BY <1>1, <1>2, <1>3, Unseen

(* Entries of the delta at hand come into force one by one, and leave with *)
(* the counts.                                                             *)
LEMMA CountsWork ==
  ASSUME IInv, IInv', OnTime, OnTime', DrainCount \/ RollRules \/ RollUpdates
  PROVE  Promise!Work
<1>1. /\ UNCHANGED <<rt, gen, ts_rules, ts_updates, cap_policy, accepted, failed, late>>
  BY DEF DrainCount, RollRules, RollUpdates, reportVars
<1>2. tx # Idle /\ SameTx
  <2>1. CASE DrainCount
    <3>1. Holding /\ tx' = tx
      BY <2>1 DEF DrainCount, Holding
    <3>. QED
      BY <3>1, HeldIsOwn DEF SameTx
  <2>2. CASE RollRules \/ RollUpdates
    <3>1. tx.pc \in Pcs /\ \E pc \in Pcs : tx' = [tx EXCEPT !.pc = pc]
      BY <2>2 DEF RollRules, RollUpdates, Pcs
    <3>2. tx \in TxType /\ tx # Idle
      BY <3>1, TxFacts
    <3>. QED
      BY <3>1, <3>2, PcMoves DEF Moved, SameTx
  <2>. QED
    BY <2>1, <2>2
<1>3. OwnSlots /\ OwnSlots' /\ tx' # Idle /\ tx'.d = tx.d
  BY <1>2 DEF OnTime, SameTx
<1>4. /\ Enforced' \ Whole(tx.d) = Enforced \ Whole(tx.d)
      /\ Enforced' \subseteq Enforced \cup Whole(tx.d)
  BY <1>1, <1>2, <1>3, OwnWork
<1>5. tx.d \in AllDeltas /\ Busy = tx.d /\ Busy' = tx.d /\ Busy # None
  BY <1>2, <1>3, TxNumbers, NoneAssumption DEF Busy
<1>6. [d \in AllDeltas |-> Whole(d)][Busy] = Whole(tx.d)
  BY <1>5
<1>. QED
  BY <1>1, <1>4, <1>5, <1>6 DEF Promise!Work, Busy, Enforced

(* The answer to a success, true when it is given.                         *)
LEMMA CommitAccepts ==
  ASSUME IInv, IInv', Answers, OnTime, OnTime', Commit
  PROVE  Promise!Accept
<1>1. /\ tx.pc = "commit" /\ tx' = Idle /\ accepted' = accepted \cup {tx.d}
      /\ rt' = IF rt = "install" THEN "up" ELSE rt
      /\ UNCHANGED <<gen, ts_rules, ts_updates, ts_counts, cap_policy, failed, late>>
  BY DEF Commit, tableVars
<1>2. tx # Idle /\ tx.d \in AllDeltas /\ rt \in {"install", "up"}
  BY <1>1, TxFacts DEF Pcs
<1>3. Enforced' = Enforced
  BY <1>1, SameForceTables
<1>4. Whole(tx.d) \subseteq Enforced'
  <2>1. Settled' /\ FloorR' = ts_counts'["rule"] /\ FloorU' = ts_counts'["update"]
    BY <1>1, <1>2 DEF OnTime, Serving, FloorR, FloorU
  <2>2. PICK d \in AllDeltas : d = tx.d
    BY <1>2
  <2>3. ASSUME NEW k \in 1 .. Size(d) PROVE InForceBy(d, k)'
    <3>1. d \in accepted'
      BY <1>1, <2>2
    <3>2. IF k <= NUpdates[d] THEN \E i \in 0 .. FloorU' - 1 : Entry(ts_updates[i], d, k)'
          ELSE \E i \in 0 .. FloorR' - 1 : Entry(ts_rules[i], d, k)' /\ Bound(i)'
      BY <2>1, <3>1 DEF Settled
    <3>. QED
      BY <2>1, <3>2 DEF InForceBy
  <2>4. \A k \in 1 .. Size(d) : <<d, k>> \in Enforced'
    BY <2>2, <2>3, ForceEntriesNext DEF ForceIs
  <2>5. Whole(d) \subseteq Enforced'
    BY <2>4 DEF Whole
  <2>. QED
    BY <2>2, <2>5
<1>5. Busy = tx.d /\ Busy # None /\ Busy' = None
  BY <1>1, <1>2, NoneAssumption DEF Busy
<1>6. [d \in AllDeltas |-> Whole(d)][Busy] = Whole(tx.d)
  BY <1>2, <1>5
<1>. QED
  BY <1>1, <1>2, <1>3, <1>4, <1>5, <1>6 DEF Promise!Accept, Busy, Enforced

(* The answer to a failure, true when it is given.                         *)
LEMMA RollMaskRefuses ==
  ASSUME IInv, IInv', Answers, OnTime, RollMask
  PROVE  Promise!Refuse
<1>1. /\ tx.pc = "roll_mask" /\ tx' = Idle /\ failed' = failed \cup {tx.d}
      /\ rt' = IF rt = "install" THEN "down" ELSE rt
      /\ cap_policy' = [cap_policy EXCEPT ![Target(tx.d)] = tx.mask0]
      /\ UNCHANGED <<gen, ts_rules, ts_updates, ts_counts, accepted, late>>
  BY DEF RollMask
<1>2. /\ tx # Idle /\ tx.d \in AllDeltas /\ rt \in {"install", "up"} /\ Target(tx.d) \in DomIds
  BY <1>1, TxFacts DEF Pcs
<1>3. /\ ts_counts["rule"] = tx.rules0 /\ ts_counts["update"] = tx.updates0 /\ OwnSlots /\ Settled
  BY <1>1, <1>2 DEF OnTime, Progress, Serving
<1>4. FloorR = ts_counts["rule"] /\ FloorU = ts_counts["update"]
  BY <1>2, <1>3 DEF FloorR, FloorU
<1>5. Enforced' = Enforced
  <2>1. cap_policy \in [DomIds -> SUBSET (0 .. MAX_RULES - 1)]
    BY DEF IInv, Types, SlotTypes
  <2>2. \A i \in 0 .. ts_counts["rule"] - 1 : i \in tx.mask0 <=> i \in cap_policy[Target(tx.d)]
    BY <1>3 DEF OwnSlots
  <2>3. \A i \in 0 .. ts_counts["rule"] - 1 : Bound(i)' <=> Bound(i)
    BY <1>1, <1>2, <2>1, <2>2, InForce DEF Bound
  <2>. QED
    BY <1>1, <2>3, SameForce
<1>6. Enforced \cap Whole(tx.d) = {}
  <2>1. tx.d \notin accepted
    BY <1>2 DEF Answers
  <2>2. \A k : ~InForceBy(tx.d, k)
    BY <1>3, <1>4, <2>1 DEF Settled, InForceBy, Entry
  <2>3. \A k : <<tx.d, k>> \notin Enforced
    BY <1>2, <2>2, ForceEntries DEF ForceIs
  <2>. QED
    BY <2>3 DEF Whole
<1>7. Busy = tx.d /\ Busy # None /\ Busy' = None
  BY <1>1, <1>2, NoneAssumption DEF Busy
<1>8. [d \in AllDeltas |-> Whole(d)][Busy] = Whole(tx.d)
  BY <1>2, <1>7
<1>9. (rt' \in {"install", "up"}) = (Busy # Policy)
  BY <1>1, <1>2, <1>7 DEF Answers
<1>. QED
  BY <1>1, <1>5, <1>6, <1>7, <1>8, <1>9 DEF Promise!Refuse, Busy, Enforced

(* A transaction begins with a delta that has no answer yet.               *)
LEMMA BeginSubmits ==
  ASSUME IInv, IInv', Answers, NEW d \in AllDeltas, Begin(d)
  PROVE  Promise!Submit(d)
<1>1. /\ tx = Idle /\ rt \in {"install", "up"} /\ tx'.pc = "push" /\ tx'.d = d
      /\ UNCHANGED <<rt, gen, ts_rules, ts_updates, ts_counts, cap_policy, accepted, failed, late>>
  BY DEF Begin, tableVars, reportVars
<1>2. d \notin accepted \cup failed
  BY DEF Begin, Answers
<1>3. Busy = None /\ Busy' = d /\ Enforced' = Enforced
  BY <1>1, SameForceTables DEF Busy, Idle
<1>. QED
  BY <1>1, <1>2, <1>3 DEF Promise!Submit, Busy, Enforced

(* The life cycle of a runtime, as the promise sees it.                    *)
LEMMA LifePromised ==
  ASSUME IInv, IInv', Answers, OnTime, ~late', Start \/ Stop \/ ClearStep \/ Seed \/ Crash
  PROVE  \/ Promise!Restart \/ Promise!Serve \/ Promise!Down \/ Promise!Clear
         \/ UNCHANGED Promise!vars
<1>1. CASE Start
  <2>1. /\ rt = "down" /\ rt' = "clear_counts" /\ gen' = gen + 1
        /\ accepted' = {} /\ failed' = {}
        /\ UNCHANGED <<tx, ts_rules, ts_updates, ts_counts, late>>
    BY <1>1 DEF Start, tableVars
  <2>2. Enforced' = {} /\ Busy' = Busy
    BY <2>1, NewGeneration DEF Busy
  <2>. QED
    BY <2>1, <2>2 DEF Promise!Restart, Busy, Enforced
<1>2. CASE Stop
  <2>1. /\ rt = "up" /\ rt' = "stop_counts" /\ tx = Idle /\ tx' = tx
        /\ UNCHANGED <<gen, ts_rules, ts_updates, ts_counts, cap_policy, accepted, failed, late>>
    BY <1>2 DEF Stop, tableVars, reportVars
  <2>2. Enforced' = Enforced /\ Busy' = None
    BY <2>1, SameForceTables DEF Busy
  <2>. QED
    BY <2>1, <2>2 DEF Promise!Down, Busy, Enforced
<1>3. CASE ClearStep
  <2>1. /\ rt \notin {"install", "up"} /\ rt' \notin {"install", "up"}
        /\ UNCHANGED <<tx, accepted, failed, late>>
    BY <1>3 DEF ClearStep, ClearCounts, ClearTask, ClearState, ClearPolicy, reportVars
  <2>2. ts_counts'["rule"] = 0 /\ ts_counts'["update"] = 0
    BY <1>3 DEF ClearStep, ClearCounts, ClearTask, ClearState, ClearPolicy, tableVars, OnTime, Cleared
  <2>3. \A d, k : ~InForceBy(d, k)'
    <3>1. \A i \in 0 .. 0 - 1 : FALSE
      OBVIOUS
    <3>. QED
      BY <2>2, <3>1 DEF InForceBy
  <2>4. Enforced' = {} /\ Busy' = Busy
    BY <2>1, <2>3, ForceEntriesNext DEF Busy, ForceIs
  <2>. QED
    BY <2>1, <2>4 DEF Promise!Clear, Busy, Enforced
<1>4. CASE Seed
  <2>1. /\ rt = "seed" /\ rt' = "install"
        /\ UNCHANGED <<gen, tx, ts_rules, ts_updates, ts_counts, cap_policy, accepted, failed, late>>
    BY <1>4 DEF Seed, tableVars, reportVars
  <2>2. Enforced = {} /\ Enforced' = Enforced /\ Busy' = Busy
    BY <2>1, NoForce, SameForceTables DEF OnTime, Cleared, Busy
  <2>. QED
    BY <2>1, <2>2 DEF Promise!Serve, Busy, Enforced
<1>5. CASE Crash
  <2>1. /\ rt' = "down" /\ tx' = Idle /\ late' = late
        /\ UNCHANGED <<gen, ts_rules, ts_updates, ts_counts, cap_policy, accepted, failed>>
    <3>1. late \in BOOLEAN
      BY DEF IInv, Types, RtTypes
    <3>. QED
      BY <1>5, <3>1 DEF Crash, tableVars, reportVars
  <2>2. Enforced' = Enforced /\ Busy' = None
    BY <2>1, SameForceTables DEF Busy
  <2>3. CASE rt \in {"install", "up"}
    BY <2>1, <2>2, <2>3 DEF Promise!Down, Busy, Enforced
  <2>4. CASE rt \notin {"install", "up"}
    <3>1. Busy = None
      BY <2>4, NotServing DEF Busy
    <3>. QED
      BY <2>1, <2>2, <2>4, <3>1, Unseen
  <2>. QED
    BY <2>3, <2>4
<1>. QED
  BY <1>1, <1>2, <1>3, <1>4, <1>5

(* Every step of the channel is a step of the promise, or unseen.          *)
LEMMA StepPromised ==
  ASSUME TInv, TInv', [Next]_vars
  PROVE  [Promise!Next]_(Promise!vars)
<1>1. CASE UNCHANGED vars
  <2>1. Busy' = Busy /\ Enforced' = Enforced
    BY <1>1 DEF vars, Busy, Enforced, LiveOf, Live, LiveRules, LiveUpdates
  <2>. QED
    BY <1>1, <2>1, Unseen DEF vars
<1>2. CASE Next /\ late'
  BY <1>2 DEF Promise!Next
<1>3. CASE Next /\ ~late'
  <2>1. IInv /\ IInv' /\ Answers /\ OnTime /\ OnTime' /\ late' = late
    <3>1. late \in BOOLEAN /\ late' \in BOOLEAN
      BY DEF TInv, IInv, Types, RtTypes
    <3>. QED
      BY <1>3, <3>1, LateStays DEF TInv
  <2>2. CASE \/ \E p \in Procs : DrainStart(p)
             \/ DrainTake \/ DrainFull \/ DrainWrite \/ DrainEmpty \/ DrainRelease
             \/ Push \/ Kick \/ PollAdmitted \/ PollFailed \/ BindChild
    BY <1>3, <2>1, <2>2, ChannelUnseen
  <2>3. CASE DrainCount \/ RollRules \/ RollUpdates
    BY <2>1, <2>3, CountsWork DEF Promise!Next
  <2>4. CASE Commit
    BY <2>1, <2>4, CommitAccepts DEF Promise!Next
  <2>5. CASE RollMask
    BY <2>1, <2>5, RollMaskRefuses DEF Promise!Next
  <2>6. ASSUME NEW d \in AllDeltas, Begin(d) PROVE Promise!Next
    <3>1. Promise!Submit(d) /\ d \in DOMAIN [x \in AllDeltas |-> Whole(x)]
      BY <2>1, <2>6, BeginSubmits
    <3>. QED
      BY <3>1 DEF Promise!Next
  <2>7. CASE Start \/ Stop \/ ClearStep \/ Seed \/ Crash
    BY <1>3, <2>1, <2>7, LifePromised DEF Promise!Next
  <2>. QED
    BY <1>3, <2>2, <2>3, <2>4, <2>5, <2>6, <2>7 DEF Next, DrainStep, TxStep
<1>. QED
  BY <1>1, <1>2, <1>3

(* The channel implements AtomicPolicy, for any deltas, tables, rings and  *)
(* number of runtimes: at every step a transaction, its rollback and       *)
(* whoever drains for it touch the entries of its own delta only, and the  *)
(* answer a caller gets is true when it is given.                          *)
THEOREM ChannelImplements ==
  Spec => Implements
<1>1. Init => Promise!Init
  <2>. SUFFICES ASSUME Init PROVE Promise!Init
    OBVIOUS
  <2>1. IInv /\ Enforced = {}
    BY InitIInv, NoForce DEF Init
  <2>. QED
    BY <2>1 DEF Init, Promise!Init, Enforced
<1>2. TInv /\ TInv' /\ [Next]_vars => [Promise!Next]_(Promise!vars)
  BY StepPromised
<1>. QED
  BY <1>1, <1>2, TransactionInvariant, PTL DEF Spec, Implements, Promise!Spec
=============================================================================
