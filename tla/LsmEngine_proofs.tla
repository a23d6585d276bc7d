-------------------------- MODULE LsmEngine_proofs --------------------------
(***************************************************************************)
(* Theorems about LsmEngine, for any number of processes, files, pipes,    *)
(* paths, descriptors and renames, outside the two gaps.                   *)
(*                                                                         *)
(* LabelsFollow is not inductive.  It rests on what holds between a hook   *)
(* and its return: the data a pending call will deliver is labelled where  *)
(* it is going; a file some descriptor is open on is labelled by its inode;*)
(* a file under a path is labelled by inode or by the path the engine has  *)
(* for it; and renames in progress keep their paths to themselves.         *)
(***************************************************************************)
EXTENDS LsmEngine, TLAPS

OpenPend == [op : {"open"}, obj : Files, acc : Accesses, path : Names]
IoPend == [op : {"io"}, obj : Objs, dir : {"r", "w"}, carry : BOOLEAN]
RenamePend == [op : {"rename"}, obj : Files, old : Names, new : Names]

(* The maps and the tables of the kernel have their types.                 *)
Typed ==
  /\ alive \subseteq Procs
  /\ labels \in [Procs -> BOOLEAN]
  /\ ts_file \in [Ids -> BOOLEAN]
  /\ name \in [Files -> Names]
  /\ linked \subseteq Files
  /\ fds \in [Procs -> SUBSET (Objs \X {"r", "w"})]
  /\ pend \in [Procs -> {Idle} \cup OpenPend \cup IoPend \cup RenamePend]
  /\ know \in [Procs -> BOOLEAN]
  /\ held \in [Objs -> BOOLEAN]

IsOpening(p) == pend[p].op = "open"
IsRenaming(p) == pend[p].op = "rename"

(* The engine finds file f labelled when it meets it under path n.         *)
Covered(f, n) == ts_file[f] \/ n = Source \/ ts_file[n]

(* Whoever knows the secret is labelled, and so is the place a pending     *)
(* read or write takes it to.                                              *)
Carried ==
  /\ \A p \in Procs : know[p] => labels[p]
  /\ \A p \in Procs : pend[p].op = "io" /\ pend[p].carry =>
       IF pend[p].dir = "r" THEN labels[p] ELSE ts_file[pend[p].obj]

(* An object that is open somewhere is labelled by its inode; a file that  *)
(* is being opened, by its inode or its path.                              *)
Opened ==
  /\ \A p \in Procs, o \in Objs, dir \in {"r", "w"} :
       <<o, dir>> \in fds[p] /\ held[o] => ts_file[o]
  /\ \A p \in Procs : IsOpening(p) =>
       /\ name[pend[p].obj] = pend[p].path
       /\ held[pend[p].obj] => Covered(pend[p].obj, pend[p].path)

(* A file with a name is labelled by inode or by the path it is known by.  *)
Named ==
  /\ \A f \in linked : held[f] /\ (\A p \in Procs : IsRenaming(p) => pend[p].obj # f)
       => Covered(f, name[f])
  /\ \A p \in Procs : IsRenaming(p) /\ held[pend[p].obj] /\ pend[p].obj \in linked
       => Covered(pend[p].obj, pend[p].old)

(* Paths lead to one file each, and a rename has its two for itself.       *)
Exclusive ==
  /\ \A f, g \in linked : name[f] = name[g] => f = g
  /\ \A p \in Procs : IsRenaming(p) =>
       /\ pend[p].old # pend[p].new
       /\ name[pend[p].obj] = pend[p].new
       /\ \A g \in linked : g # pend[p].obj => name[g] \notin {pend[p].old, pend[p].new}
       /\ \A q \in Procs : Opening(q) \cap Renaming(p) = {}
       /\ \A q \in Procs : q # p => Renaming(q) \cap Renaming(p) = {}

(* Only a live process is in a call.                                       *)
Quiet == \A p \in Procs : p \notin alive => pend[p] = Idle

IInv == Typed /\ Carried /\ Opened /\ Named /\ Exclusive /\ Quiet

----------------------------------------------------------------------------
(* What a pending call is, by its operation.                               *)
LEMMA PendTypes ==
  ASSUME Typed, NEW p \in Procs
  PROVE  /\ IsOpening(p) => pend[p] \in OpenPend
         /\ IsRenaming(p) => pend[p] \in RenamePend
         /\ pend[p].op = "io" => pend[p] \in IoPend
         /\ pend[p].op \in {"none", "open", "io", "rename"}
         /\ pend[p].op = "none" => pend[p] = Idle
<1>1. pend[p] \in {Idle} \cup OpenPend \cup IoPend \cup RenamePend
  BY DEF Typed
<1>2. \A c \in OpenPend : c.op = "open"
  BY DEF OpenPend
<1>3. \A c \in IoPend : c.op = "io"
  BY DEF IoPend
<1>4. \A c \in RenamePend : c.op = "rename"
  BY DEF RenamePend
<1>5. Idle.op = "none"
  BY DEF Idle
<1>. QED
  BY <1>1, <1>2, <1>3, <1>4, <1>5 DEF IsOpening, IsRenaming

(* The paths a pending call has to itself.                                 *)
LEMMA PendPaths ==
  ASSUME NEW p \in Procs
  PROVE  /\ IsOpening(p) => Opening(p) = {pend[p].path}
         /\ ~IsOpening(p) => Opening(p) = {}
         /\ IsRenaming(p) => Renaming(p) = {pend[p].old, pend[p].new}
         /\ ~IsRenaming(p) => Renaming(p) = {}
  BY DEF IsOpening, IsRenaming, Opening, Renaming

(* The ids of objects and of paths are different.                          *)
LEMMA IdKinds ==
  /\ Files \subseteq Objs /\ Objs \subseteq Ids /\ Names \subseteq Ids
  /\ \A o \in Objs, n \in Names : o # n
  /\ \A f \in Files, q \in Pipes : f # q
  /\ Source \in Names /\ Sink \in Names
  BY LsmAssumption DEF Objs, Ids

(* A step that moves no data and no name, forgets no label and closes      *)
(* nothing but descriptors and names keeps the invariant.                  *)
LEMMA GrowStep ==
  ASSUME IInv, Typed',
         UNCHANGED <<alive, name, pend, know, held>>,
         linked' \subseteq linked,
         \A p \in Procs : fds'[p] \subseteq fds[p],
         \A p \in Procs : labels[p] => labels'[p],
         \A i \in Ids : ts_file[i] => ts_file'[i]
  PROVE  IInv'
<1>1. \A f \in Files, n \in Names : Covered(f, n) => Covered(f, n)'
  BY IdKinds DEF Covered
<1>2. Carried'
  <2>1. \A p \in Procs : pend[p].op = "io" => pend[p].obj \in Ids
    BY PendTypes, IdKinds DEF IInv, IoPend
  <2>. QED
    BY <2>1 DEF IInv, Carried
<1>3. Opened'
  <2>1. \A p \in Procs : IsOpening(p) => pend[p].obj \in Files /\ pend[p].path \in Names
    BY PendTypes DEF IInv, OpenPend
  <2>2. \A p \in Procs : IsOpening(p)' <=> IsOpening(p)
    BY DEF IsOpening
  <2>. QED
    BY <1>1, <2>1, <2>2, IdKinds DEF IInv, Opened
<1>4. Named'
  <2>1. \A p \in Procs : IsRenaming(p) => pend[p].obj \in Files /\ pend[p].old \in Names
    BY PendTypes DEF IInv, RenamePend
  <2>2. \A p \in Procs : IsRenaming(p)' <=> IsRenaming(p)
    BY DEF IsRenaming
  <2>3. \A f \in linked : f \in Files /\ name[f] \in Names
    BY DEF IInv, Typed
  <2>. QED
    BY <1>1, <2>1, <2>2, <2>3 DEF IInv, Named
<1>5. Exclusive'
  BY DEF IInv, Exclusive, IsRenaming, Renaming, Opening
<1>6. Quiet'
  BY DEF IInv, Quiet
<1>. QED
  BY <1>2, <1>3, <1>4, <1>5, <1>6 DEF IInv

----------------------------------------------------------------------------
(* The steps.                                                              *)

(* The label algebra of a hook: what it adds, pointwise.                   *)
LEMMA FlowPointwise ==
  ASSUME Typed, NEW p \in Procs, NEW ts \in [Ids -> BOOLEAN], NEW id \in Ids,
         NEW acc, NEW src
  PROVE  /\ Read(p, ts, id, acc, src) \in [Procs -> BOOLEAN]
         /\ WriteFlow(p, ts, id, acc, src) \in [Ids -> BOOLEAN]
         /\ \A q \in Procs : labels[q] => Read(p, ts, id, acc, src)[q]
         /\ \A q \in Procs : q # p => Read(p, ts, id, acc, src)[q] = labels[q]
         /\ "r" \in acc /\ ts[id] => Read(p, ts, id, acc, src)[p]
         /\ \A i \in Ids : ts[i] => WriteFlow(p, ts, id, acc, src)[i]
         /\ "w" \in acc /\ labels[p] => WriteFlow(p, ts, id, acc, src)[id]
<1>1. Seen(p, ts, id, acc, src) \in BOOLEAN
  BY DEF Seen
<1>2. labels \in [Procs -> BOOLEAN]
  BY DEF Typed
<1>3. labels[p] => Seen(p, ts, id, acc, src)
  BY DEF Seen
<1>4. "r" \in acc /\ ts[id] => Seen(p, ts, id, acc, src)
  BY DEF Seen
<1>. QED
  BY <1>1, <1>2, <1>3, <1>4 DEF Read, WriteFlow

(* The invariant holds of a freshly loaded engine.                         *)
LEMMA InitIInv ==
  Init => IInv
<1>. SUFFICES ASSUME Init PROVE IInv
  OBVIOUS
<1>1. \A p \in Procs : pend[p] = Idle /\ pend[p].op = "none"
  BY DEF Init, Idle
<1>2. Typed
  BY LsmAssumption DEF Init, Typed, Objs
<1>3. \A p \in Procs : ~IsOpening(p) /\ ~IsRenaming(p)
  BY <1>1 DEF IsOpening, IsRenaming
<1>4. Carried
  BY <1>1 DEF Init, Carried
<1>5. Opened
  BY <1>3 DEF Init, Opened
<1>6. Named
  BY <1>3, LsmAssumption DEF Init, Named, Covered, Objs
<1>7. Exclusive
  BY <1>3, LsmAssumption DEF Init, Exclusive
<1>. QED
  BY <1>1, <1>2, <1>4, <1>5, <1>6, <1>7 DEF IInv, Quiet

(* What a step leaves of a process whose call it does not touch.           *)
LEMMA SamePend ==
  ASSUME NEW q \in Procs, pend'[q] = pend[q]
  PROVE  /\ IsOpening(q)' <=> IsOpening(q)
         /\ IsRenaming(q)' <=> IsRenaming(q)
         /\ Opening(q)' = Opening(q) /\ Renaming(q)' = Renaming(q)
  BY DEF IsOpening, IsRenaming, Opening, Renaming

(* Labels are only added: a covered file stays covered.                    *)
LEMMA CoveredGrows ==
  ASSUME \A i \in Ids : ts_file[i] => ts_file'[i]
  PROVE  \A f \in Files, n \in Names : Covered(f, n) => Covered(f, n)'
  BY IdKinds DEF Covered

(* The hook of open: the file is known by its path, which nobody renames.  *)
LEMMA OpenCheckKeeps ==
  ASSUME IInv, Gaps = {}, NEW p \in Procs, NEW f \in Files, NEW acc \in Accesses,
         OpenCheck(p, f, acc)
  PROVE  IInv'
<1>. DEFINE src == name[f] = Source
            c == [op |-> "open", obj |-> f, acc |-> acc, path |-> name[f]]
<1>1. /\ Typed /\ f \in Ids /\ ts_file \in [Ids -> BOOLEAN] /\ src \in BOOLEAN
      /\ name[f] \in Names /\ f \in linked /\ p \in alive
  BY IdKinds DEF IInv, Typed, OpenCheck, Ready
<1>2. /\ labels' = Read(p, ts_file, f, acc, src)
      /\ ts_file' = WriteFlow(p, ts_file, f, acc, src)
      /\ pend' = [pend EXCEPT ![p] = c]
      /\ UNCHANGED <<alive, name, linked, fds, know, held>>
  BY DEF OpenCheck
<1>3. /\ labels' \in [Procs -> BOOLEAN] /\ ts_file' \in [Ids -> BOOLEAN]
      /\ \A q \in Procs : labels[q] => labels'[q]
      /\ \A i \in Ids : ts_file[i] => ts_file'[i]
  BY <1>1, <1>2, FlowPointwise
<1>4. \A q \in Procs : Renaming(q) \cap {name[f]} = {}
  BY DEF OpenCheck, NotRenamed
<1>5. /\ pend'[p] = c /\ c \in OpenPend
      /\ \A q \in Procs : q # p => pend'[q] = pend[q]
  BY <1>1, <1>2 DEF IInv, Typed, OpenPend
<1>6. Typed'
  BY <1>1, <1>2, <1>3, <1>5 DEF Typed
<1>7. /\ ~IsRenaming(p) /\ ~IsRenaming(p)' /\ IsOpening(p)'
      /\ Opening(p)' = {name[f]} /\ Renaming(p)' = {}
  BY <1>5 DEF IsRenaming, IsOpening, Opening, Renaming, OpenCheck, Ready, Idle
<1>8. \A g \in Files, n \in Names : Covered(g, n) => Covered(g, n)'
  BY <1>3, CoveredGrows
<1>9. Carried'
  <2>1. \A q \in Procs : pend[q].op = "io" => pend[q].obj \in Ids
    BY PendTypes, IdKinds DEF IInv, IoPend
  <2>. QED
    BY <1>2, <1>3, <1>5, <2>1 DEF IInv, Carried
<1>10. Opened'
  <2>1. held[f] => Covered(f, name[f])
    <3>1. \A q \in Procs : IsRenaming(q) => pend[q].obj # f
      BY <1>4, PendPaths DEF IInv, Exclusive
    <3>. QED
      BY <1>1, <3>1 DEF IInv, Named
  <2>2. \A q \in Procs : IsOpening(q) => pend[q].obj \in Files /\ pend[q].path \in Names
    BY PendTypes DEF IInv, OpenPend
  <2>3. \A q \in Procs, o \in Objs, dir \in {"r", "w"} :
          <<o, dir>> \in fds'[q] /\ held'[o] => ts_file'[o]
    BY <1>2, <1>3, IdKinds DEF IInv, Opened
  <2>4. \A q \in Procs : IsOpening(q)' =>
          /\ name'[pend'[q].obj] = pend'[q].path
          /\ (held[pend[q].obj] => Covered(pend[q].obj, pend[q].path))'
    <3>. SUFFICES ASSUME NEW q \in Procs, IsOpening(q)'
                  PROVE  /\ name'[pend'[q].obj] = pend'[q].path
                         /\ (held[pend[q].obj] => Covered(pend[q].obj, pend[q].path))'
      OBVIOUS
    <3>1. CASE q = p
      BY <1>1, <1>2, <1>5, <1>8, <2>1, <3>1
    <3>2. CASE q # p
      BY <1>2, <1>5, <1>8, <2>2, <3>2, SamePend DEF IInv, Opened
    <3>. QED
      BY <3>1, <3>2
  <2>. QED
    BY <2>3, <2>4 DEF Opened
<1>11. Named'
  <2>1. \A q \in Procs : IsRenaming(q) => pend[q].obj \in Files /\ pend[q].old \in Names
    BY PendTypes DEF IInv, RenamePend
  <2>2. \A q \in Procs : IsRenaming(q)' <=> IsRenaming(q)
    BY <1>5, <1>7, SamePend
  <2>3. \A g \in linked : g \in Files /\ name[g] \in Names
    BY DEF IInv, Typed
  <2>4. \A q \in Procs : IsRenaming(q) => pend'[q] = pend[q]
    BY <1>5, <1>7
  <2>. QED
    BY <1>2, <1>8, <2>1, <2>2, <2>3, <2>4 DEF IInv, Named
<1>12. Exclusive'
  <2>1. \A q \in Procs : Renaming(q)' = Renaming(q) /\ (IsRenaming(q)' <=> IsRenaming(q))
    BY <1>5, <1>7, SamePend, PendPaths
  <2>2. \A q \in Procs : IsRenaming(q) => pend'[q] = pend[q]
    BY <1>5, <1>7
  <2>3. \A q, r \in Procs : IsRenaming(r) => Opening(q)' \cap Renaming(r) = {}
    BY <1>4, <1>5, <1>7, SamePend DEF IInv, Exclusive
  <2>. QED
    BY <1>2, <2>1, <2>2, <2>3 DEF IInv, Exclusive
<1>13. Quiet'
  BY <1>1, <1>2, <1>5 DEF IInv, Quiet
<1>. QED
  BY <1>6, <1>9, <1>10, <1>11, <1>12, <1>13 DEF IInv

(* Outside of open and rename, paths are left alone and labels only grow.  *)
LEMMA PathsKept ==
  ASSUME IInv,
         UNCHANGED <<name, linked>>,
         \A q \in Procs : \/ pend'[q] = pend[q]
                          \/ ~IsRenaming(q) /\ ~IsRenaming(q)' /\ ~IsOpening(q)',
         \A i \in Ids : ts_file[i] => ts_file'[i],
         \A o \in Objs : held'[o] => held[o] \/ ts_file'[o]
  PROVE  /\ Named' /\ Exclusive'
         /\ \A q \in Procs : IsOpening(q)' =>
              /\ name'[pend'[q].obj] = pend'[q].path
              /\ (held[pend[q].obj] => Covered(pend[q].obj, pend[q].path))'
<1>1. \A g \in Files, n \in Names : Covered(g, n) => Covered(g, n)'
  BY CoveredGrows
<1>2. \A q \in Procs : /\ IsRenaming(q)' <=> IsRenaming(q)
                       /\ IsRenaming(q) => pend'[q] = pend[q]
                       /\ IsOpening(q)' => IsOpening(q) /\ pend'[q] = pend[q]
  BY SamePend
<1>3. \A q \in Procs : /\ IsRenaming(q) => pend[q].obj \in Files /\ pend[q].old \in Names
                       /\ IsOpening(q) => pend[q].obj \in Files /\ pend[q].path \in Names
  BY PendTypes DEF IInv, RenamePend, OpenPend
<1>4. \A g \in linked : g \in Files /\ name[g] \in Names
  BY DEF IInv, Typed
<1>5. \A f \in Files, n \in Names : held'[f] /\ (held[f] => Covered(f, n)') => Covered(f, n)'
  BY IdKinds DEF Covered
<1>6. Named'
  <2>1. ASSUME NEW f \in linked', held'[f],
               \A q \in Procs : IsRenaming(q)' => pend'[q].obj # f
        PROVE  Covered(f, name[f])'
    BY <1>1, <1>2, <1>4, <1>5, <2>1 DEF IInv, Named
  <2>2. ASSUME NEW q \in Procs, IsRenaming(q)', held'[pend'[q].obj], pend'[q].obj \in linked'
        PROVE  Covered(pend[q].obj, pend[q].old)'
    BY <1>1, <1>2, <1>3, <1>5, <2>2 DEF IInv, Named
  <2>. QED
    BY <2>1, <2>2 DEF Named
<1>7. Exclusive'
  <2>1. \A q \in Procs : Renaming(q)' = Renaming(q)
    BY <1>2, SamePend, PendPaths DEF Renaming, IsRenaming
  <2>2. \A q \in Procs : Opening(q)' \subseteq Opening(q)
    BY <1>2 DEF Opening, IsOpening
  <2>. QED
    BY <1>2, <2>1, <2>2 DEF IInv, Exclusive
<1>8. ASSUME NEW q \in Procs, IsOpening(q)'
      PROVE  /\ name'[pend'[q].obj] = pend'[q].path
             /\ (held[pend[q].obj] => Covered(pend[q].obj, pend[q].path))'
  BY <1>1, <1>2, <1>3, <1>5, <1>8 DEF IInv, Opened
<1>. QED
  BY <1>6, <1>7, <1>8

(* The return of open: the labels of the path have reached the inode.      *)
LEMMA OpenReturnKeeps ==
  ASSUME IInv, NEW p \in Procs, OpenReturn(p)
  PROVE  IInv'
<1>. DEFINE c == pend[p]
            src == c.path = Source
            ts == [ts_file EXCEPT ![c.obj] = @ \/ ts_file[c.path] \/ c.path = Source]
<1>1. /\ Typed /\ c \in OpenPend /\ c.obj \in Files /\ c.path \in Names /\ c.acc \in Accesses
      /\ IsOpening(p)
  BY PendTypes DEF IInv, OpenReturn, IsOpening, OpenPend
<1>2. /\ c.obj \in Ids /\ c.path \in Ids /\ ts \in [Ids -> BOOLEAN]
      /\ \A i \in Ids : ts_file[i] => ts[i]
      /\ ts_file[c.path] \/ c.path = Source => ts[c.obj]
  BY <1>1, IdKinds DEF Typed
<1>3. /\ labels' = Read(p, ts, c.obj, c.acc, src)
      /\ ts_file' = WriteFlow(p, ts, c.obj, c.acc, src)
      /\ fds' = [fds EXCEPT ![p] = @ \cup ({c.obj} \X c.acc)]
      /\ pend' = [pend EXCEPT ![p] = Idle]
      /\ UNCHANGED <<alive, name, linked, know, held>>
  BY DEF OpenReturn
<1>4. /\ labels' \in [Procs -> BOOLEAN] /\ ts_file' \in [Ids -> BOOLEAN]
      /\ \A q \in Procs : labels[q] => labels'[q]
      /\ \A i \in Ids : ts[i] => ts_file'[i]
  <2>. HIDE DEF ts, src, c
  <2>. QED
    BY <1>1, <1>2, <1>3, FlowPointwise
<1>5. /\ pend'[p] = Idle /\ \A q \in Procs : q # p => pend'[q] = pend[q]
      /\ pend' \in [Procs -> {Idle} \cup OpenPend \cup IoPend \cup RenamePend]
  BY <1>1, <1>3 DEF Typed
<1>6. /\ fds'[p] = fds[p] \cup ({c.obj} \X c.acc)
      /\ \A q \in Procs : q # p => fds'[q] = fds[q]
      /\ fds' \in [Procs -> SUBSET (Objs \X {"r", "w"})]
  BY <1>1, <1>3, IdKinds DEF Typed, Accesses
<1>7. Typed'
  BY <1>1, <1>3, <1>4, <1>5, <1>6 DEF Typed
<1>8. ~IsRenaming(p) /\ ~IsRenaming(p)' /\ ~IsOpening(p)'
  BY <1>1, <1>5 DEF IsRenaming, IsOpening, Idle
<1>9. \A i \in Ids : ts_file[i] => ts_file'[i]
  BY <1>2, <1>4
<1>10. Carried'
  <2>1. \A q \in Procs : pend[q].op = "io" => pend[q].obj \in Ids
    BY PendTypes, IdKinds DEF IInv, IoPend
  <2>2. pend'[p].op # "io"
    BY <1>5 DEF Idle
  <2>. QED
    BY <1>3, <1>4, <1>5, <1>9, <2>1, <2>2 DEF IInv, Carried
<1>11. Named' /\ Exclusive'
       /\ \A q \in Procs : IsOpening(q)' =>
              /\ name'[pend'[q].obj] = pend'[q].path
              /\ (held[pend[q].obj] => Covered(pend[q].obj, pend[q].path))'
  BY <1>3, <1>5, <1>8, <1>9, PathsKept
<1>12. Opened'
  <2>1. held[c.obj] => ts_file'[c.obj]
    BY <1>1, <1>2, <1>4 DEF IInv, Opened, Covered
  <2>2. ASSUME NEW q \in Procs, NEW o \in Objs, NEW dir \in {"r", "w"},
               <<o, dir>> \in fds'[q], held'[o]
        PROVE  ts_file'[o]
    <3>1. CASE <<o, dir>> \in fds[q]
      BY <1>3, <1>9, <2>2, <3>1, IdKinds DEF IInv, Opened
    <3>2. CASE <<o, dir>> \notin fds[q]
      BY <1>3, <1>6, <2>1, <2>2, <3>2
    <3>. QED
      BY <3>1, <3>2
  <2>. QED
    BY <1>11, <2>2 DEF Opened
<1>13. Quiet'
  BY <1>3, <1>5 DEF IInv, Quiet
<1>. QED
  BY <1>7, <1>10, <1>11, <1>12, <1>13 DEF IInv

(* The hook of read and write: the labels cross before the data does.      *)
LEMMA IoCheckKeeps ==
  ASSUME IInv, NEW p \in Procs, NEW o \in Objs, NEW dir \in {"r", "w"}, IoCheck(p, o, dir)
  PROVE  IInv'
<1>. DEFINE src == BaseIs(o, Source)
            c == [op |-> "io", obj |-> o, dir |-> dir,
                  carry |-> IF dir = "r" THEN held[o] ELSE know[p]]
<1>1. Typed /\ o \in Ids /\ ts_file \in [Ids -> BOOLEAN] /\ p \in alive /\ pend[p] = Idle
  BY IdKinds DEF IInv, Typed, IoCheck, Ready
<1>2. /\ labels' = Read(p, ts_file, o, {dir}, src)
      /\ ts_file' = WriteFlow(p, ts_file, o, {dir}, src)
      /\ pend' = [pend EXCEPT ![p] = c]
      /\ UNCHANGED <<alive, name, linked, fds, know, held>>
      /\ <<o, dir>> \in fds[p]
  BY DEF IoCheck
<1>3. /\ labels' \in [Procs -> BOOLEAN] /\ ts_file' \in [Ids -> BOOLEAN]
      /\ \A q \in Procs : labels[q] => labels'[q]
      /\ \A i \in Ids : ts_file[i] => ts_file'[i]
      /\ dir = "r" /\ ts_file[o] => labels'[p]
      /\ dir = "w" /\ labels[p] => ts_file'[o]
  BY <1>1, <1>2, FlowPointwise
<1>4. /\ pend'[p] = c /\ c \in IoPend
      /\ \A q \in Procs : q # p => pend'[q] = pend[q]
  <2>1. held[o] \in BOOLEAN /\ know[p] \in BOOLEAN
    BY <1>1 DEF Typed
  <2>. QED
    BY <1>1, <1>2, <2>1 DEF Typed, IoPend
<1>5. Typed'
  BY <1>1, <1>2, <1>3, <1>4 DEF Typed
<1>6. ~IsRenaming(p) /\ ~IsRenaming(p)' /\ ~IsOpening(p)'
  BY <1>1, <1>4 DEF IsRenaming, IsOpening, Idle
<1>7. Carried'
  <2>1. \A q \in Procs : pend[q].op = "io" => pend[q].obj \in Ids
    BY PendTypes, IdKinds DEF IInv, IoPend
  <2>2. c.carry => IF dir = "r" THEN labels'[p] ELSE ts_file'[o]
    BY <1>2, <1>3 DEF IInv, Carried, Opened
  <2>3. pend'[p].obj = o /\ pend'[p].dir = dir /\ pend'[p].carry = c.carry
    BY <1>4
  <2>4. ASSUME NEW q \in Procs, pend'[q].op = "io", pend'[q].carry
        PROVE  IF pend'[q].dir = "r" THEN labels'[q] ELSE ts_file'[pend'[q].obj]
    <3>. HIDE DEF c
    <3>1. CASE q = p
      BY <2>2, <2>3, <2>4, <3>1
    <3>2. CASE q # p
      BY <1>3, <1>4, <2>1, <2>4, <3>2 DEF IInv, Carried
    <3>. QED
      BY <3>1, <3>2
  <2>. QED
    BY <1>2, <1>3, <2>4 DEF IInv, Carried
<1>8. Named' /\ Exclusive'
       /\ \A q \in Procs : IsOpening(q)' =>
              /\ name'[pend'[q].obj] = pend'[q].path
              /\ (held[pend[q].obj] => Covered(pend[q].obj, pend[q].path))'
  BY <1>2, <1>3, <1>4, <1>6, PathsKept
<1>9. Opened'
  BY <1>2, <1>3, <1>8, IdKinds DEF IInv, Opened
<1>10. Quiet'
  BY <1>1, <1>2, <1>4 DEF IInv, Quiet
<1>. QED
  BY <1>5, <1>7, <1>8, <1>9, <1>10 DEF IInv

(* The data of a read arrives at a process labelled since the hook.        *)
LEMMA ReadReturnKeeps ==
  ASSUME IInv, Gaps = {}, NEW p \in Procs, ReadReturn(p)
  PROVE  IInv'
<1>. DEFINE c == pend[p]
<1>1. Typed /\ c \in IoPend /\ c.carry \in BOOLEAN /\ c.op = "io" /\ c.dir = "r"
  BY PendTypes DEF IInv, ReadReturn, IoPend
<1>2. /\ know' = [know EXCEPT ![p] = @ \/ c.carry]
      /\ pend' = [pend EXCEPT ![p] = Idle]
      /\ UNCHANGED <<alive, labels, ts_file, name, linked, fds, held>>
  BY DEF ReadReturn, Late
<1>3. /\ pend'[p] = Idle /\ pend'[p].op = "none"
      /\ \A q \in Procs : q # p => pend'[q] = pend[q]
      /\ pend' \in [Procs -> {Idle} \cup OpenPend \cup IoPend \cup RenamePend]
  BY <1>1, <1>2 DEF Typed, Idle
<1>4. /\ know' \in [Procs -> BOOLEAN]
      /\ \A q \in Procs : know'[q] => know[q] \/ (q = p /\ c.carry)
  BY <1>1, <1>2 DEF Typed
<1>5. Typed'
  BY <1>1, <1>2, <1>3, <1>4 DEF Typed
<1>6. ~IsRenaming(p) /\ ~IsRenaming(p)' /\ ~IsOpening(p)'
  BY <1>1, <1>3 DEF IsRenaming, IsOpening
<1>7. Carried'
  BY <1>1, <1>2, <1>3, <1>4 DEF IInv, Carried
<1>8. Named' /\ Exclusive'
       /\ \A q \in Procs : IsOpening(q)' =>
              /\ name'[pend'[q].obj] = pend'[q].path
              /\ (held[pend[q].obj] => Covered(pend[q].obj, pend[q].path))'
  BY <1>2, <1>3, <1>6, PathsKept
<1>9. Opened'
  BY <1>2, <1>8 DEF IInv, Opened
<1>10. Quiet'
  BY <1>2, <1>3 DEF IInv, Quiet
<1>. QED
  BY <1>5, <1>7, <1>8, <1>9, <1>10 DEF IInv

(* The data of a write arrives at an object labelled since the hook.       *)
LEMMA WriteReturnKeeps ==
  ASSUME IInv, NEW p \in Procs, WriteReturn(p)
  PROVE  IInv'
<1>. DEFINE c == pend[p]
<1>1. /\ Typed /\ c \in IoPend /\ c.carry \in BOOLEAN /\ c.obj \in Objs
      /\ c.op = "io" /\ c.dir = "w"
  BY PendTypes DEF IInv, WriteReturn, IoPend
<1>2. /\ held' = [held EXCEPT ![c.obj] = @ \/ c.carry]
      /\ pend' = [pend EXCEPT ![p] = Idle]
      /\ UNCHANGED <<alive, labels, ts_file, name, linked, fds, know>>
  BY DEF WriteReturn
<1>3. /\ pend'[p] = Idle /\ pend'[p].op = "none"
      /\ \A q \in Procs : q # p => pend'[q] = pend[q]
      /\ pend' \in [Procs -> {Idle} \cup OpenPend \cup IoPend \cup RenamePend]
  BY <1>1, <1>2 DEF Typed, Idle
<1>4. /\ held' \in [Objs -> BOOLEAN]
      /\ \A o \in Objs : held'[o] => held[o] \/ (o = c.obj /\ c.carry)
  BY <1>1, <1>2 DEF Typed
<1>5. \A o \in Objs : held'[o] => held[o] \/ ts_file'[o]
  BY <1>1, <1>2, <1>4 DEF IInv, Carried
<1>6. Typed'
  BY <1>1, <1>2, <1>3, <1>4 DEF Typed
<1>7. ~IsRenaming(p) /\ ~IsRenaming(p)' /\ ~IsOpening(p)'
  BY <1>1, <1>3 DEF IsRenaming, IsOpening
<1>8. Carried'
  BY <1>2, <1>3 DEF IInv, Carried
<1>9. Named' /\ Exclusive'
       /\ \A q \in Procs : IsOpening(q)' =>
              /\ name'[pend'[q].obj] = pend'[q].path
              /\ (held[pend[q].obj] => Covered(pend[q].obj, pend[q].path))'
  BY <1>2, <1>3, <1>5, <1>7, PathsKept
<1>10. Opened'
  BY <1>2, <1>5, <1>9 DEF IInv, Opened
<1>11. Quiet'
  BY <1>2, <1>3 DEF IInv, Quiet
<1>. QED
  BY <1>6, <1>8, <1>9, <1>10, <1>11 DEF IInv

(* A new pipe is empty, whatever labels its inode still has.               *)
LEMMA PipeKeeps ==
  ASSUME IInv, NEW p \in Procs, NEW o \in Pipes, Pipe(p, o)
  PROVE  IInv'
<1>1. /\ Typed /\ o \in Objs
      /\ fds' = [fds EXCEPT ![p] = @ \cup ({o} \X {"r", "w"})]
      /\ held' = [held EXCEPT ![o] = FALSE]
      /\ UNCHANGED <<alive, labels, ts_file, name, linked, pend, know>>
  BY DEF IInv, Pipe, Objs
<1>2. /\ held' \in [Objs -> BOOLEAN] /\ ~held'[o]
      /\ \A u \in Objs : held'[u] => held[u] /\ u # o
  BY <1>1 DEF Typed
<1>3. /\ fds' \in [Procs -> SUBSET (Objs \X {"r", "w"})]
      /\ \A q \in Procs, u \in Objs, dir \in {"r", "w"} :
           <<u, dir>> \in fds'[q] => <<u, dir>> \in fds[q] \/ u = o
  BY <1>1 DEF Typed
<1>4. Typed'
  BY <1>1, <1>2, <1>3 DEF Typed
<1>5. Carried'
  BY <1>1 DEF IInv, Carried
<1>6. Named' /\ Exclusive'
       /\ \A q \in Procs : IsOpening(q)' =>
              /\ name'[pend'[q].obj] = pend'[q].path
              /\ (held[pend[q].obj] => Covered(pend[q].obj, pend[q].path))'
  BY <1>1, <1>2, PathsKept
<1>7. Opened'
  BY <1>1, <1>2, <1>3, <1>6 DEF IInv, Opened
<1>8. Quiet'
  BY <1>1 DEF IInv, Quiet
<1>. QED
  BY <1>4, <1>5, <1>6, <1>7, <1>8 DEF IInv

(* A child starts with what its parent has, and with no call pending.      *)
LEMMA ForkKeeps ==
  ASSUME IInv, NEW p \in Procs, NEW q \in Procs, Fork(p, q)
  PROVE  IInv'
<1>1. /\ Typed
      /\ alive' = alive \cup {q} /\ q \notin alive
      /\ labels' = [labels EXCEPT ![q] = labels[p]]
      /\ fds' = [fds EXCEPT ![q] = fds[p]]
      /\ know' = [know EXCEPT ![q] = know[p]]
      /\ UNCHANGED <<ts_file, name, linked, pend, held>>
  BY DEF IInv, Fork
<1>2. pend[q].op = "none"
  BY <1>1 DEF IInv, Quiet, Idle
<1>3. Typed'
  BY <1>1 DEF Typed
<1>4. /\ labels'[q] = labels[p] /\ know'[q] = know[p] /\ fds'[q] = fds[p]
      /\ \A r \in Procs : r # q =>
           labels'[r] = labels[r] /\ know'[r] = know[r] /\ fds'[r] = fds[r]
  BY <1>1 DEF Typed
<1>5. Carried'
  BY <1>1, <1>2, <1>4 DEF IInv, Carried
<1>6. Named' /\ Exclusive'
       /\ \A r \in Procs : IsOpening(r)' =>
              /\ name'[pend'[r].obj] = pend'[r].path
              /\ (held[pend[r].obj] => Covered(pend[r].obj, pend[r].path))'
  BY <1>1, PathsKept
<1>7. Opened'
  <2>1. \A r \in Procs, o \in Objs, dir \in {"r", "w"} :
          <<o, dir>> \in fds'[r] /\ held'[o] => ts_file'[o]
    BY <1>1, <1>4 DEF IInv, Opened
  <2>. QED
    BY <1>6, <2>1 DEF Opened
<1>8. Quiet'
  BY <1>1 DEF IInv, Quiet
<1>. QED
  BY <1>3, <1>5, <1>6, <1>7, <1>8 DEF IInv

(* An exiting process takes its label and its knowledge with it.           *)
LEMMA ExitKeeps ==
  ASSUME IInv, NEW p \in Procs, Exit(p)
  PROVE  IInv'
<1>1. /\ Typed /\ pend[p] = Idle
      /\ alive' = alive \ {p}
      /\ labels' = [labels EXCEPT ![p] = FALSE]
      /\ fds' = [fds EXCEPT ![p] = {}]
      /\ know' = [know EXCEPT ![p] = FALSE]
      /\ UNCHANGED <<ts_file, name, linked, pend, held>>
  BY DEF IInv, Exit, Ready
<1>2. pend[p].op = "none"
  BY <1>1 DEF Idle
<1>3. Typed'
  BY <1>1 DEF Typed
<1>4. /\ ~know'[p] /\ fds'[p] = {}
      /\ \A r \in Procs : r # p =>
           labels'[r] = labels[r] /\ know'[r] = know[r] /\ fds'[r] = fds[r]
  BY <1>1 DEF Typed
<1>5. Carried'
  BY <1>1, <1>2, <1>4 DEF IInv, Carried
<1>6. Named' /\ Exclusive'
       /\ \A r \in Procs : IsOpening(r)' =>
              /\ name'[pend'[r].obj] = pend'[r].path
              /\ (held[pend[r].obj] => Covered(pend[r].obj, pend[r].path))'
  BY <1>1, PathsKept
<1>7. Opened'
  <2>1. \A r \in Procs, o \in Objs, dir \in {"r", "w"} :
          <<o, dir>> \in fds'[r] /\ held'[o] => ts_file'[o]
    BY <1>1, <1>4 DEF IInv, Opened
  <2>. QED
    BY <1>6, <2>1 DEF Opened
<1>8. Quiet'
  BY <1>1 DEF IInv, Quiet
<1>. QED
  BY <1>3, <1>5, <1>6, <1>7, <1>8 DEF IInv

(* Every id in S, and no other, takes the labels of the writer.            *)
LEMMA WriteAllPointwise ==
  ASSUME NEW p \in Procs, NEW ts \in [Ids -> BOOLEAN], NEW S
  PROVE  /\ WriteAll(p, ts, S) \in [Ids -> BOOLEAN]
         /\ \A i \in Ids : WriteAll(p, ts, S)[i] <=> ts[i] \/ (i \in S /\ labels[p])
  BY DEF WriteAll

(* Steps that only add labels and take descriptors or names away.          *)
LEMMA SmallStepsKeep ==
  ASSUME IInv, NEW p \in Procs,
         \/ \E o \in Objs, dir \in {"r", "w"} : Close(p, o, dir)
         \/ \E f \in Files : RenameRefused(p, f) \/ Unlink(p, f)
         \/ Connect(p)
  PROVE  IInv'
<1>1. Typed /\ ts_file \in [Ids -> BOOLEAN]
  BY DEF IInv, Typed
<1>2. ASSUME NEW o \in Objs, NEW dir \in {"r", "w"}, Close(p, o, dir)
      PROVE  IInv'
  <2>1. /\ fds' = [fds EXCEPT ![p] = @ \ {<<o, dir>>}]
        /\ UNCHANGED <<alive, labels, ts_file, name, linked, pend, know, held>>
    BY <1>2 DEF Close
  <2>2. Typed' /\ \A q \in Procs : fds'[q] \subseteq fds[q]
    BY <1>1, <2>1 DEF Typed
  <2>. QED
    BY <2>1, <2>2, GrowStep
<1>3. ASSUME NEW f \in Files, RenameRefused(p, f)
      PROVE  IInv'
  <2>1. /\ ts_file' = WriteAll(p, ts_file, {f})
        /\ UNCHANGED <<alive, labels, name, linked, fds, pend, know, held>>
    BY <1>3 DEF RenameRefused
  <2>2. ts_file' \in [Ids -> BOOLEAN] /\ \A i \in Ids : ts_file[i] => ts_file'[i]
    BY <1>1, <2>1, WriteAllPointwise
  <2>3. Typed'
    BY <1>1, <2>1, <2>2 DEF Typed
  <2>. QED
    BY <2>1, <2>2, <2>3, GrowStep
<1>4. ASSUME NEW f \in Files, Unlink(p, f)
      PROVE  IInv'
  <2>1. /\ \E S : ts_file' = WriteAll(p, ts_file, S)
        /\ linked' \subseteq linked
        /\ UNCHANGED <<alive, labels, name, fds, pend, know, held>>
    BY <1>4 DEF Unlink
  <2>2. ts_file' \in [Ids -> BOOLEAN] /\ \A i \in Ids : ts_file[i] => ts_file'[i]
    BY <1>1, <2>1, WriteAllPointwise
  <2>3. Typed'
    BY <1>1, <2>1, <2>2 DEF Typed
  <2>. QED
    BY <2>1, <2>2, <2>3, GrowStep
<1>5. ASSUME Connect(p)
      PROVE  IInv'
  <2>1. UNCHANGED <<alive, labels, ts_file, name, linked, fds, pend, know, held>>
    BY <1>5 DEF Connect
  <2>2. Typed'
    BY <1>1, <2>1 DEF Typed
  <2>. QED
    BY <2>1, <2>2, GrowStep
<1>. QED
  BY <1>2, <1>3, <1>4, <1>5

(* The hook of rename: both paths are free of other calls, and the file    *)
(* that is replaced goes out of reach by path.                             *)
LEMMA RenameKeeps ==
  ASSUME IInv, Gaps = {}, NEW p \in Procs, NEW f \in Files, NEW new \in Names,
         Rename(p, f, new)
  PROVE  IInv'
<1>. DEFINE old == name[f]
            c == [op |-> "rename", obj |-> f, old |-> old, new |-> new]
<1>1. /\ Typed /\ ts_file \in [Ids -> BOOLEAN]
      /\ old \in Names /\ new # old /\ f \in linked /\ p \in alive /\ pend[p] = Idle
  BY DEF IInv, Typed, Rename, Ready
<1>2. /\ \E S : ts_file' = WriteAll(p, ts_file, S)
      /\ linked' = linked \ Victims(new)
      /\ name' = [name EXCEPT ![f] = new]
      /\ pend' = [pend EXCEPT ![p] = c]
      /\ UNCHANGED <<alive, labels, fds, know, held>>
  BY DEF Rename
<1>3. ts_file' \in [Ids -> BOOLEAN] /\ \A i \in Ids : ts_file[i] => ts_file'[i]
  BY <1>1, <1>2, WriteAllPointwise
<1>4. /\ \A q \in Procs : Renaming(q) \cap {old, new} = {}
      /\ \A q \in Procs : Opening(q) \cap {old, new} = {}
  BY DEF Rename, NotRenamed, NotOpening
<1>5. /\ pend'[p] = c /\ c \in RenamePend
      /\ \A q \in Procs : q # p => pend'[q] = pend[q]
  BY <1>1, <1>2 DEF Typed, RenamePend
<1>6. /\ name' \in [Files -> Names] /\ name'[f] = new
      /\ \A g \in Files : g # f => name'[g] = name[g]
  BY <1>1, <1>2 DEF Typed
<1>7. /\ linked' \subseteq linked
      /\ \A g \in linked' : name[g] # new
  BY <1>2 DEF Victims
<1>8. Typed'
  BY <1>1, <1>2, <1>3, <1>5, <1>6, <1>7 DEF Typed
<1>9. /\ ~IsRenaming(p) /\ ~IsOpening(p) /\ IsRenaming(p)' /\ ~IsOpening(p)'
      /\ Opening(p)' = {} /\ Renaming(p)' = {old, new}
      /\ pend'[p].obj = f /\ pend'[p].old = old /\ pend'[p].new = new
      /\ pend[p].op # "io" /\ pend'[p].op # "io"
  BY <1>1, <1>5 DEF IsRenaming, IsOpening, Opening, Renaming, Idle
<1>. HIDE DEF c
<1>10. \A g \in Files, n \in Names : Covered(g, n) => Covered(g, n)'
  BY <1>3, CoveredGrows
<1>11. \A q \in Procs : IsRenaming(q) =>
         /\ pend[q].obj # f /\ pend[q].old \in Names /\ pend[q].obj \in Files
         /\ name[pend[q].obj] = pend[q].new
         /\ {pend[q].old, pend[q].new} \cap {old, new} = {}
  BY <1>4, PendTypes, PendPaths DEF IInv, Exclusive, RenamePend
<1>12. \A q \in Procs : IsOpening(q) =>
         pend[q].obj # f /\ pend[q].obj \in Files /\ pend[q].path \in Names
  BY <1>4, PendTypes, PendPaths DEF IInv, Opened, OpenPend
<1>13. Carried'
  <2>1. \A q \in Procs : pend[q].op = "io" => pend[q].obj \in Ids
    BY PendTypes, IdKinds DEF IInv, IoPend
  <2>. QED
    BY <1>2, <1>3, <1>5, <1>9, <2>1 DEF IInv, Carried
<1>14. Opened'
  <2>1. \A q \in Procs, o \in Objs, dir \in {"r", "w"} :
          <<o, dir>> \in fds'[q] /\ held'[o] => ts_file'[o]
    BY <1>2, <1>3, IdKinds DEF IInv, Opened
  <2>2. ASSUME NEW q \in Procs, IsOpening(q)'
        PROVE  /\ name'[pend'[q].obj] = pend'[q].path
               /\ (held[pend[q].obj] => Covered(pend[q].obj, pend[q].path))'
    <3>1. q # p /\ IsOpening(q) /\ pend'[q] = pend[q]
      BY <1>5, <1>9, <2>2, SamePend
    <3>. QED
      BY <1>2, <1>6, <1>10, <1>12, <3>1 DEF IInv, Opened
  <2>. QED
    BY <2>1, <2>2 DEF Opened
<1>15. \A q \in Procs : q # p => /\ IsRenaming(q)' <=> IsRenaming(q)
                                 /\ Renaming(q)' = Renaming(q)
                                 /\ Opening(q)' = Opening(q)
  BY <1>5, SamePend
<1>16. \A g \in linked : g \in Files /\ name[g] \in Names
  BY DEF IInv, Typed
<1>17. Named'
  <2>1. ASSUME NEW g \in linked', held'[g],
               \A q \in Procs : IsRenaming(q)' => pend'[q].obj # g
        PROVE  Covered(g, name[g])'
    <3>1. g # f /\ name'[g] = name[g]
      BY <1>6, <1>7, <1>9, <1>16, <2>1
    <3>2. \A q \in Procs : IsRenaming(q) => pend[q].obj # g
      BY <1>5, <1>9, <1>15, <2>1
    <3>. QED
      BY <1>2, <1>7, <1>10, <1>16, <2>1, <3>1, <3>2 DEF IInv, Named
  <2>2. ASSUME NEW q \in Procs, IsRenaming(q)', held'[pend'[q].obj], pend'[q].obj \in linked'
        PROVE  Covered(pend[q].obj, pend[q].old)'
    <3>1. CASE q = p
      <4>1. Covered(f, old)
        BY <1>1, <1>2, <1>9, <1>11, <2>2, <3>1 DEF IInv, Named
      <4>. QED
        BY <1>1, <1>9, <1>10, <3>1, <4>1
    <3>2. CASE q # p
      BY <1>2, <1>5, <1>7, <1>10, <1>11, <1>15, <2>2, <3>2 DEF IInv, Named
    <3>. QED
      BY <3>1, <3>2
  <2>. QED
    BY <2>1, <2>2 DEF Named
<1>18. Exclusive'
  <2>1. \A g, h \in linked' : name'[g] = name'[h] => g = h
    BY <1>6, <1>7, <1>16 DEF IInv, Exclusive
  <2>2. /\ pend'[p].old # pend'[p].new /\ name'[pend'[p].obj] = pend'[p].new
        /\ \A g \in linked' : g # pend'[p].obj => name'[g] \notin {pend'[p].old, pend'[p].new}
        /\ \A q \in Procs : Opening(q)' \cap Renaming(p)' = {}
        /\ \A q \in Procs : q # p => Renaming(q)' \cap Renaming(p)' = {}
    <3>1. \A g \in linked' : g # f => name'[g] \notin {old, new}
      BY <1>1, <1>6, <1>7, <1>16 DEF IInv, Exclusive
    <3>. QED
      BY <1>1, <1>4, <1>6, <1>9, <1>15, <3>1
  <2>3. ASSUME NEW q \in Procs, q # p, IsRenaming(q)'
        PROVE  /\ pend'[q].old # pend'[q].new /\ name'[pend'[q].obj] = pend'[q].new
               /\ \A g \in linked' : g # pend'[q].obj =>
                    name'[g] \notin {pend'[q].old, pend'[q].new}
               /\ \A r \in Procs : Opening(r)' \cap Renaming(q)' = {}
               /\ \A r \in Procs : r # q => Renaming(r)' \cap Renaming(q)' = {}
    <3>1. IsRenaming(q) /\ pend'[q] = pend[q] /\ Renaming(q)' = Renaming(q)
      BY <1>5, <1>15, <2>3
    <3>2. \A g \in linked' : g # pend'[q].obj => name'[g] \notin {pend'[q].old, pend'[q].new}
      BY <1>6, <1>7, <1>11, <1>16, <3>1 DEF IInv, Exclusive
    <3>3. \A r \in Procs : Opening(r)' \cap Renaming(q)' = {}
      BY <1>9, <1>15, <3>1 DEF IInv, Exclusive
    <3>4. \A r \in Procs : r # q => Renaming(r)' \cap Renaming(q)' = {}
      BY <1>4, <1>9, <1>15, <3>1 DEF IInv, Exclusive
    <3>. QED
      BY <1>6, <1>11, <3>1, <3>2, <3>3, <3>4 DEF IInv, Exclusive
  <2>. QED
    BY <2>1, <2>2, <2>3 DEF Exclusive
<1>19. Quiet'
  BY <1>1, <1>2, <1>5 DEF IInv, Quiet
<1>. QED
  BY <1>8, <1>13, <1>14, <1>17, <1>18, <1>19 DEF IInv

(* The return of rename: what the old path has is moved to the new one,    *)
(* and no other call depends on either.                                    *)
LEMMA RenameReturnKeeps ==
  ASSUME IInv, NEW p \in Procs, RenameReturn(p)
  PROVE  IInv'
<1>. DEFINE c == pend[p]
            m == [ts_file EXCEPT ![c.old] = @ \/ c.old = Source]
            w == WriteAll(p, m, {c.old, c.new})
<1>1. /\ Typed /\ IsRenaming(p) /\ c \in RenamePend
      /\ c.obj \in Files /\ c.old \in Names /\ c.new \in Names
      /\ c.old # c.new /\ name[c.obj] = c.new /\ Renaming(p) = {c.old, c.new}
  BY PendTypes, PendPaths DEF IInv, Exclusive, RenameReturn, IsRenaming, RenamePend
<1>2. /\ m \in [Ids -> BOOLEAN]
      /\ \A i \in Ids : i # c.old => m[i] = ts_file[i]
      /\ ts_file[c.old] \/ c.old = Source => m[c.old]
  BY <1>1, IdKinds DEF Typed
<1>3. /\ ts_file' = [w EXCEPT ![c.new] = w[c.old], ![c.old] = FALSE]
      /\ pend' = [pend EXCEPT ![p] = Idle]
      /\ UNCHANGED <<alive, labels, name, linked, fds, know, held>>
  BY DEF RenameReturn
<1>4. /\ w \in [Ids -> BOOLEAN]
      /\ \A i \in Ids : w[i] <=> m[i] \/ (i \in {c.old, c.new} /\ labels[p])
  <2>. HIDE DEF m, c
  <2>. QED
    BY <1>2, WriteAllPointwise
<1>5. /\ ts_file' \in [Ids -> BOOLEAN]
      /\ \A i \in Ids : i \notin {c.old, c.new} => (ts_file[i] => ts_file'[i])
      /\ ts_file[c.old] \/ c.old = Source => ts_file'[c.new]
  <2>. HIDE DEF m, w, c
  <2>. QED
    BY <1>1, <1>2, <1>3, <1>4, IdKinds
<1>6. \A o \in Objs : ts_file[o] => ts_file'[o]
  BY <1>1, <1>5, IdKinds
<1>7. /\ pend'[p] = Idle /\ pend'[p].op = "none"
      /\ \A q \in Procs : q # p => pend'[q] = pend[q]
      /\ pend' \in [Procs -> {Idle} \cup OpenPend \cup IoPend \cup RenamePend]
  BY <1>1, <1>3 DEF Typed, Idle
<1>8. Typed'
  BY <1>1, <1>3, <1>5, <1>7 DEF Typed
<1>9. \A q \in Procs : /\ IsOpening(q)' => q # p /\ IsOpening(q)
                       /\ IsRenaming(q)' => q # p /\ IsRenaming(q)
                       /\ q # p /\ IsRenaming(q) => IsRenaming(q)'
                       /\ Opening(q)' \subseteq Opening(q)
                       /\ Renaming(q)' \subseteq Renaming(q)
  BY <1>7 DEF IsOpening, IsRenaming, Opening, Renaming
<1>. HIDE DEF m, w
<1>10. \A g \in Files, n \in Names : n \notin Renaming(p) /\ Covered(g, n) => Covered(g, n)'
  BY <1>1, <1>5, <1>6, IdKinds DEF Covered
<1>11. Carried'
  <2>1. \A q \in Procs : pend[q].op = "io" => pend[q].obj \in Objs
    BY PendTypes, IdKinds DEF IInv, IoPend
  <2>. QED
    BY <1>3, <1>6, <1>7, <2>1 DEF IInv, Carried
<1>12. Opened'
  <2>1. \A q \in Procs, o \in Objs, dir \in {"r", "w"} :
          <<o, dir>> \in fds'[q] /\ held'[o] => ts_file'[o]
    BY <1>3, <1>6 DEF IInv, Opened
  <2>2. ASSUME NEW q \in Procs, IsOpening(q)'
        PROVE  /\ name'[pend'[q].obj] = pend'[q].path
               /\ (held[pend[q].obj] => Covered(pend[q].obj, pend[q].path))'
    <3>1. q # p /\ IsOpening(q) /\ pend'[q] = pend[q]
      BY <1>7, <1>9, <2>2
    <3>2. /\ pend[q].obj \in Files /\ pend[q].path \in Names
          /\ pend[q].path \notin Renaming(p)
      BY <1>1, <3>1, PendTypes, PendPaths DEF IInv, OpenPend, Exclusive
    <3>. QED
      BY <1>3, <1>10, <3>1, <3>2 DEF IInv, Opened
  <2>. QED
    BY <2>1, <2>2 DEF Opened
<1>13. \A g \in linked : g \in Files /\ name[g] \in Names
  BY DEF IInv, Typed
<1>14. Named'
  <2>1. ASSUME NEW g \in linked', held'[g],
               \A q \in Procs : IsRenaming(q)' => pend'[q].obj # g
        PROVE  Covered(g, name[g])'
    <3>1. CASE g = c.obj
      <4>1. Covered(g, c.old)
        BY <1>1, <1>3, <2>1, <3>1 DEF IInv, Named
      <4>. QED
        BY <1>1, <1>3, <1>5, <1>6, <3>1, <4>1, IdKinds DEF Covered
    <3>2. CASE g # c.obj
      <4>1. name[g] \notin Renaming(p)
        BY <1>1, <1>3, <3>2 DEF IInv, Exclusive
      <4>2. \A q \in Procs : IsRenaming(q) => pend[q].obj # g
        BY <1>7, <1>9, <2>1, <3>2
      <4>. QED
        BY <1>3, <1>10, <1>13, <2>1, <4>1, <4>2 DEF IInv, Named
    <3>. QED
      BY <3>1, <3>2
  <2>2. ASSUME NEW q \in Procs, IsRenaming(q)', held'[pend'[q].obj], pend'[q].obj \in linked'
        PROVE  Covered(pend[q].obj, pend[q].old)'
    <3>1. q # p /\ IsRenaming(q) /\ pend'[q] = pend[q]
      BY <1>7, <1>9, <2>2
    <3>2. /\ pend[q].obj \in Files /\ pend[q].old \in Names
          /\ pend[q].old \notin Renaming(p)
      BY <1>1, <3>1, PendTypes, PendPaths DEF IInv, RenamePend, Exclusive
    <3>. QED
      BY <1>3, <1>10, <2>2, <3>1, <3>2 DEF IInv, Named
  <2>. QED
    BY <2>1, <2>2 DEF Named
<1>15. Exclusive'
  BY <1>3, <1>7, <1>9 DEF IInv, Exclusive
<1>16. Quiet'
  BY <1>3, <1>7 DEF IInv, Quiet
<1>. QED
  BY <1>8, <1>11, <1>12, <1>14, <1>15, <1>16 DEF IInv

----------------------------------------------------------------------------
(* Theorems about the specification.                                       *)

(* Every step of the engine keeps the invariant.                           *)
LEMMA NextIInv ==
  ASSUME Gaps = {}, IInv, [Next]_vars
  PROVE  IInv'
<1>1. CASE Next
  BY <1>1, OpenCheckKeeps, OpenReturnKeeps, IoCheckKeeps, SmallStepsKeep, ReadReturnKeeps,
     WriteReturnKeeps, PipeKeeps, RenameKeeps, RenameReturnKeeps, ForkKeeps, ExitKeeps
     DEF Next
<1>2. CASE UNCHANGED vars
  <2>1. UNCHANGED <<alive, labels, ts_file, name, linked, fds, pend, know, held>>
    BY <1>2 DEF vars
  <2>2. Typed'
    BY <2>1 DEF IInv, Typed
  <2>. QED
    BY <2>1, <2>2, GrowStep
<1>. QED
  BY <1>1, <1>2

(* What the engine has for the files, the calls in progress included, is   *)
(* an inductive invariant of enforce mode outside its two gaps.            *)
THEOREM InductiveInvariant ==
  ASSUME Gaps = {}
  PROVE  Spec => []IInv
<1>1. Init => IInv
  BY InitIInv
<1>2. IInv /\ [Next]_vars => IInv'
  BY NextIInv
<1>. QED
  BY <1>1, <1>2, PTL DEF Spec

(* One process at a time renames a file, so the path the engine knows it   *)
(* by is well defined.                                                     *)
LEMMA KnownPathIs ==
  ASSUME IInv, NEW f \in linked
  PROVE  held[f] => Covered(f, KnownPath(f))
<1>. DEFINE moving == {p \in Procs : pend[p].op = "rename" /\ pend[p].obj = f}
<1>1. CASE moving = {}
  <2>1. \A p \in Procs : IsRenaming(p) => pend[p].obj # f
    BY <1>1 DEF IsRenaming
  <2>2. KnownPath(f) = name[f]
    BY <1>1 DEF KnownPath
  <2>. QED
    BY <2>1, <2>2 DEF IInv, Named
<1>2. CASE moving # {}
  <2>1. PICK q \in moving : KnownPath(f) = pend[q].old
    BY <1>2 DEF KnownPath
  <2>2. q \in Procs /\ IsRenaming(q) /\ pend[q].obj = f
    BY <2>1 DEF IsRenaming
  <2>. QED
    BY <2>1, <2>2 DEF IInv, Named
<1>. QED
  BY <1>1, <1>2

(* The invariant says of every reachable object what LabelsFollow says.    *)
LEMMA IInvLabelsFollow ==
  IInv => LabelsFollow
<1>. SUFFICES ASSUME IInv PROVE LabelsFollow
  OBVIOUS
<1>1. ASSUME NEW o \in Objs, held[o], Reachable(o)
      PROVE  ts_file[o] \/ (o \in Files /\ ByPath(o))
  <2>1. CASE o \in linked
    BY <1>1, <2>1, KnownPathIs DEF ByPath, Covered, IInv, Typed
  <2>2. ASSUME NEW p \in Procs, fds[p] \cap ({o} \X {"r", "w"}) # {}
        PROVE  ts_file[o]
    <3>1. PICK x \in {o} \X {"r", "w"} : x \in fds[p]
      BY <2>2
    <3>2. x = <<o, x[2]>> /\ x[2] \in {"r", "w"}
      BY <3>1
    <3>3. <<o, x[2]>> \in fds[p]
      BY <3>1, <3>2
    <3>. QED
      BY <1>1, <3>2, <3>3 DEF IInv, Opened
  <2>3. ASSUME NEW p \in Procs, pend[p].op = "open", pend[p].obj = o
        PROVE  ts_file[o] \/ (o \in Files /\ ByPath(o))
    <3>1. /\ IsOpening(p) /\ o \in Files /\ name[o] = pend[p].path
          /\ Covered(o, pend[p].path) /\ Opening(p) = {name[o]}
      BY <1>1, <2>3, PendTypes, PendPaths DEF IsOpening, IInv, Opened, OpenPend
    <3>2. \A q \in Procs : IsRenaming(q) => pend[q].obj # o
      BY <3>1, PendPaths DEF IInv, Exclusive
    <3>3. KnownPath(o) = name[o]
      BY <3>2 DEF KnownPath, IsRenaming
    <3>. QED
      BY <3>1, <3>3 DEF ByPath, Covered
  <2>. QED
    BY <1>1, <2>1, <2>2, <2>3 DEF Reachable
<1>. QED
  BY <1>1 DEF LabelsFollow, IInv, Carried

(* Labels follow information in enforce mode, for any number of processes, *)
(* files and renames: label and data move at different moments, and no     *)
(* interleaving of the calls leaves the secret where the engine has no     *)
(* label for it.  The two gaps, a read that blocks in the hook's shadow    *)
(* and a lookup during another's rename, are assumed away.                 *)
THEOREM LabelsFollowData ==
  ASSUME Gaps = {}
  PROVE  Spec => []LabelsFollow
  BY InductiveInvariant, IInvLabelsFollow, PTL

(* A hook lets no call through that would breach: it decides with labels   *)
(* that already stand for all the process knows.                           *)
LEMMA NextBlock ==
  ASSUME BaseMatch, IInv, BlockHolds, [Next]_vars
  PROVE  BlockHolds'
<1>. SUFFICES breach' = {}
  BY DEF BlockHolds
<1>1. breach = {} /\ \A p \in Procs : know[p] => labels[p]
  BY DEF BlockHolds, IInv, Carried
<1>2. ASSUME NEW p \in Procs, NEW f \in Files, NEW acc \in Accesses, OpenCheck(p, f, acc)
      PROVE  breach' = {}
  BY <1>1, <1>2 DEF OpenCheck, Denied, Seen
<1>3. ASSUME NEW p \in Procs, NEW o \in Objs, NEW dir \in {"r", "w"}, IoCheck(p, o, dir)
      PROVE  breach' = {}
  BY <1>1, <1>3 DEF IoCheck, Denied, Seen, BaseIs
<1>4. ASSUME NEW p \in Procs, NEW f \in Files, NEW n \in Names, Rename(p, f, n)
      PROVE  breach' = {}
  BY <1>1, <1>4 DEF Rename, RenameDenied
<1>5. ASSUME NEW p \in Procs, NEW f \in Files, Unlink(p, f)
      PROVE  breach' = {}
  BY <1>1, <1>5 DEF Unlink
<1>6. ASSUME NEW p \in Procs, Connect(p)
      PROVE  breach' = {}
  BY <1>1, <1>6 DEF Connect
<1>7. ASSUME NEW p \in Procs,
             \/ OpenReturn(p) \/ ReadReturn(p) \/ WriteReturn(p) \/ RenameReturn(p) \/ Exit(p)
             \/ \E o \in Objs, dir \in {"r", "w"} : Close(p, o, dir)
             \/ \E q \in Pipes : Pipe(p, q)
             \/ \E f \in Files : RenameRefused(p, f)
             \/ \E q \in Procs : Fork(p, q)
      PROVE  breach' = {}
  BY <1>1, <1>7 DEF OpenReturn, Close, ReadReturn, WriteReturn, Pipe, RenameReturn,
                    RenameRefused, Fork, Exit
<1>8. CASE Next
  BY <1>2, <1>3, <1>4, <1>5, <1>6, <1>7, <1>8 DEF Next
<1>9. CASE UNCHANGED vars
  BY <1>1, <1>9 DEF vars
<1>. QED
  BY <1>8, <1>9

(* Pre-operation denial: nothing protected is written by a process that    *)
(* had the secret when it made the call, provided the patterns match the   *)
(* last path component too (LsmBlock shows what happens otherwise).        *)
THEOREM BlocksHold ==
  ASSUME Gaps = {}, BaseMatch
  PROVE  Spec => []BlockHolds
<1>1. Init => BlockHolds
  BY DEF Init, BlockHolds
<1>2. IInv /\ BlockHolds /\ [Next]_vars => BlockHolds'
  BY NextBlock
<1>. QED
  BY <1>1, <1>2, InductiveInvariant, PTL DEF Spec
=============================================================================
