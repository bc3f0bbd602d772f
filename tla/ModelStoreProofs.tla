-------------------------- MODULE ModelStoreProofs --------------------------
(***************************************************************************)
(* Theorems about ModelStore, for any worker processes, containers, bounds  *)
(* and any file names, shared or not.                                       *)
(***************************************************************************)
EXTENDS ModelStore, TLAPS

\* The markers are no models, and differ from each other.
LEMMA Markers == /\ NoModel \notin Model
                 /\ Partial \notin Model
                 /\ NoModel # Partial
BY DEF NoModel, Partial, Model

\* What VersionOf is, for a model, a marker of an absent one and of an unreadable one.
LEMMA Versions ==
    /\ VersionOf(NoModel) = 0
    /\ VersionOf(Partial) = 0
    /\ \A m \in Model : VersionOf(m) = m.version /\ m.version \in 0 .. MaxVersion
<1>1. \A m \in Model : m \notin {NoModel, Partial} /\ m.version \in 0 .. MaxVersion
  BY Markers DEF Model
<1> QED
  BY <1>1 DEF VersionOf

\* A file name is one of the files, and two ids are namesakes if it is the same.
LEMMA Paths ==
    ASSUME NEW c \in Containers
    PROVE  /\ FileOf[c] \in Files /\ ModelPath(c) = FileOf[c] /\ c # Nobody
           /\ \A d \in Containers : d \in Namesakes(c) <=> FileOf[d] = FileOf[c]
           /\ Nobody \notin Namesakes(c)
BY ModelStoreAssumption DEF ModelPath, Namesakes, Nobody

-----------------------------------------------------------------------------
(* The inductive invariant.  A model that is stored for file f is for one of *)
(* f's containers and its version was earned there (CellOK); this holds in   *)
(* the memory of every process and on the disk, and each follows from the    *)
(* other, a load and a save being copies.  A deletion is undone by nobody    *)
(* because a process that still writes the file has lost its name (Gone).    *)

CellOK(m, f) == m \in Model => FileOf[m.owner] = f /\ m.version <= trained[f]

MemoryOK == \A p \in Processes, c \in Containers : CellOK(models[p][c], FileOf[c])
DiskOK == \A f \in Files : CellOK(disk[f], f)

\* The file being written belongs to a model that has just been trained.
SavingOK ==
    \A p \in Processes :
        saving[p] # Nobody => /\ models[p][saving[p]] \in Model
                              /\ models[p][saving[p]].est = "fitted"
                              /\ models[p][saving[p]].version > 0

\* After a successful DELETE there is no file, nobody is writing one of that
\* name, and memory has at most an untrained entry.
Gone ==
    \A p \in Processes, c \in Containers :
        deleted[p][c] => /\ disk[FileOf[c]] = NoModel
                         /\ VersionOf(models[p][c]) = 0
                         /\ \A q \in linked : saving[q] \notin Namesakes(c)

StoreInv == TypeOK /\ SavingOK /\ DiskModelsScore /\ MemoryOK /\ DiskOK /\ Gone

\* What get_model and get_or_create_model find.
LEMMA Found ==
    ASSUME StoreInv, NEW p \in Processes, NEW c \in Containers
    PROVE  /\ Lookup(p, c) \in Model \union {NoModel} /\ GetOrCreate(p, c) \in Model
           /\ CellOK(Lookup(p, c), FileOf[c]) /\ CellOK(GetOrCreate(p, c), FileOf[c])
           /\ deleted[p][c] => /\ VersionOf(Lookup(p, c)) = 0
                               /\ VersionOf(GetOrCreate(p, c)) = 0
<1> DEFINE f == FileOf[c]
           m == models[p][c]
<1>1. f \in Files /\ ModelPath(c) = f
  BY Paths
<1>2. /\ m \in Model \union {NoModel} /\ disk[f] \in Model \union {NoModel, Partial}
      /\ trained[f] \in Nat
  BY <1>1 DEF StoreInv, TypeOK
<1>3. CellOK(m, f) /\ CellOK(disk[f], f)
  BY <1>1 DEF StoreInv, MemoryOK, DiskOK
<1>4. LoadFromDisk(c) = IF disk[f] = Partial THEN NoModel ELSE disk[f]
  BY <1>1 DEF LoadFromDisk
<1>5. /\ LoadFromDisk(c) \in Model \union {NoModel}
      /\ LoadFromDisk(c) = NoModel \/ LoadFromDisk(c) = disk[f]
  BY <1>2, <1>4
<1>6. /\ Lookup(p, c) \in Model \union {NoModel}
      /\ Lookup(p, c) \in {m, disk[f], NoModel}
  BY <1>2, <1>5 DEF Lookup
<1>7. CellOK(NoModel, f)
  BY Markers DEF CellOK
<1>8. CellOK(Lookup(p, c), f)
  BY <1>3, <1>6, <1>7
<1>9. NewModel(c) \in Model /\ NewModel(c).owner = c /\ NewModel(c).version = 0
  BY ModelStoreAssumption DEF NewModel, Model
<1>10. CellOK(NewModel(c), f)
  BY <1>2, <1>9 DEF CellOK
<1>11. GetOrCreate(p, c) \in Model /\ CellOK(GetOrCreate(p, c), f)
  BY <1>6, <1>8, <1>9, <1>10 DEF GetOrCreate
<1>12. ASSUME deleted[p][c]
       PROVE  VersionOf(Lookup(p, c)) = 0 /\ VersionOf(GetOrCreate(p, c)) = 0
  <2>1. disk[f] = NoModel /\ VersionOf(m) = 0
    BY <1>12 DEF StoreInv, Gone
  <2>2. VersionOf(NoModel) = 0 /\ VersionOf(NewModel(c)) = 0
    BY <1>9, Versions
  <2>3. VersionOf(Lookup(p, c)) = 0
    BY <1>6, <2>1, <2>2
  <2> QED
    BY <2>2, <2>3 DEF GetOrCreate
<1> QED
  BY <1>6, <1>8, <1>11, <1>12

\* One entry of one process's memory is replaced.
LEMMA Remembered ==
    ASSUME TypeOK, NEW p \in Processes, NEW c \in Containers,
           NEW m \in Model \union {NoModel}, Remember(p, c, m)
    PROVE  /\ models' \in [Processes -> [Containers -> Model \union {NoModel}]]
           /\ models'[p][c] = m
           /\ \A q \in Processes, d \in Containers :
                 q # p \/ d # c => models'[q][d] = models[q][d]
<1>1. models \in [Processes -> [Containers -> Model \union {NoModel}]]
  BY DEF TypeOK
<1>2. models' = [models EXCEPT ![p] = [models[p] EXCEPT ![c] = m]]
  BY DEF Remember
<1>3. [models[p] EXCEPT ![c] = m] \in [Containers -> Model \union {NoModel}]
  BY <1>1
<1>4. models'[p] = [models[p] EXCEPT ![c] = m]
  BY <1>1, <1>2
<1>5. \A q \in Processes : q # p => models'[q] = models[q]
  BY <1>1, <1>2
<1>6. models' \in [Processes -> [Containers -> Model \union {NoModel}]]
  BY <1>1, <1>2, <1>3
<1>7. models'[p][c] = m
  BY <1>1, <1>4
<1>8. \A d \in Containers : d # c => models'[p][d] = models[p][d]
  BY <1>1, <1>4
<1> QED
  BY <1>5, <1>6, <1>7, <1>8

\* A request that changes memory only, and puts there what belongs to the file.
LEMMA MemoryStep ==
    ASSUME StoreInv, NEW p \in Processes, NEW c \in Containers,
           NEW m \in Model \union {NoModel}, Remember(p, c, m),
           CellOK(m, FileOf[c]), deleted[p][c] => VersionOf(m) = 0,
           saving[p] = Nobody,
           UNCHANGED <<disk, saving, linked, trained, deleted>>
    PROVE  StoreInv'
<1>1. /\ models' \in [Processes -> [Containers -> Model \union {NoModel}]]
      /\ models'[p][c] = m
      /\ \A q \in Processes, d \in Containers :
            q # p \/ d # c => models'[q][d] = models[q][d]
  BY Remembered DEF StoreInv
<1>2. TypeOK'
  BY <1>1 DEF StoreInv, TypeOK
<1>3. SavingOK'
  <2> SUFFICES ASSUME NEW q \in Processes, saving[q] # Nobody
               PROVE  models'[q][saving[q]] = models[q][saving[q]]
    BY DEF StoreInv, SavingOK
  <2>1. q # p /\ saving[q] \in Containers
    BY DEF StoreInv, TypeOK
  <2> QED
    BY <1>1, <2>1
<1>4. DiskModelsScore' /\ DiskOK'
  BY DEF StoreInv, DiskModelsScore, DiskOK, CellOK
<1>5. MemoryOK'
  <2> SUFFICES ASSUME NEW q \in Processes, NEW d \in Containers
               PROVE  CellOK(models[q][d], FileOf[d])'
    BY DEF MemoryOK
  <2>1. CellOK(models[q][d], FileOf[d])
    BY DEF StoreInv, MemoryOK
  <2>2. models'[q][d] = models[q][d] \/ (models'[q][d] = m /\ d = c)
    BY <1>1
  <2> QED
    BY <2>1, <2>2 DEF CellOK
<1>6. Gone'
  <2> SUFFICES ASSUME NEW q \in Processes, NEW d \in Containers, deleted[q][d]
               PROVE  VersionOf(models'[q][d]) = 0
    BY DEF StoreInv, Gone
  <2>1. VersionOf(models[q][d]) = 0
    BY DEF StoreInv, Gone
  <2> QED
    BY <1>1, <2>1
<1> QED
  BY <1>2, <1>3, <1>4, <1>5, <1>6 DEF StoreInv

\* A training that fails leaves a model (IsolationForestModel.train).
LEMMA UnfittedType ==
    ASSUME NEW m \in Model
    PROVE  /\ [m EXCEPT !.est = "raw"] \in Model
           /\ [m EXCEPT !.est = "raw"].version = m.version
           /\ [m EXCEPT !.est = "raw"].owner = m.owner
BY DEF Model

\* What train_model puts in memory for a container.
LEMMA TrainedType ==
    ASSUME StoreInv, NEW p \in Processes, NEW c \in Containers,
           GetOrCreate(p, c).version < MaxVersion
    PROVE  /\ Trained(p, c) \in Model
           /\ Trained(p, c).est = "fitted"
           /\ Trained(p, c).version = GetOrCreate(p, c).version + 1
           /\ Trained(p, c).version > 0
           /\ Trained(p, c).owner = GetOrCreate(p, c).owner
<1>1. GetOrCreate(p, c) \in Model
  BY Found
<1> QED
  BY <1>1, ModelStoreAssumption DEF Trained, Model

\* StoreInv holds at first.
LEMMA StoreInvInit == Init => StoreInv
<1> SUFFICES ASSUME Init PROVE StoreInv
  OBVIOUS
<1>1. TypeOK
  BY ModelStoreAssumption DEF Init, TypeOK
<1>2. SavingOK /\ DiskModelsScore
  BY DEF Init, SavingOK, DiskModelsScore
<1>3. MemoryOK /\ DiskOK
  BY Markers DEF Init, MemoryOK, DiskOK, CellOK
<1>4. Gone
  BY DEF Init, Gone
<1> QED
  BY <1>1, <1>2, <1>3, <1>4 DEF StoreInv

\* train_model up to the open file.
LEMMA TrainModelStep ==
    ASSUME StoreInv, NEW p \in Processes, NEW c \in Containers, TrainModel(p, c)
    PROVE  StoreInv'
<1> DEFINE f == FileOf[c]
           m == Trained(p, c)
<1>1. /\ m \in Model /\ m.est = "fitted" /\ m.version > 0
      /\ m.version = GetOrCreate(p, c).version + 1 /\ m.owner = GetOrCreate(p, c).owner
  BY TrainedType DEF TrainModel
<1>2. /\ f \in Files /\ ModelPath(c) = f /\ trained[f] \in Nat
      /\ \A d \in Containers : d \in Namesakes(c) <=> FileOf[d] = f
      /\ \A d \in Containers : FileOf[d] \in Files /\ d # Nobody
  BY Paths DEF StoreInv, TypeOK
<1>3. /\ GetOrCreate(p, c) \in Model /\ GetOrCreate(p, c).version \in Nat
      /\ FileOf[m.owner] = f /\ GetOrCreate(p, c).version <= trained[f]
  <2>1. GetOrCreate(p, c) \in Model /\ CellOK(GetOrCreate(p, c), f)
    BY Found
  <2> QED
    BY <1>1, <2>1 DEF CellOK, Model
<1>4. /\ models' \in [Processes -> [Containers -> Model \union {NoModel}]]
      /\ models'[p][c] = m
      /\ \A q \in Processes, d \in Containers :
            q # p \/ d # c => models'[q][d] = models[q][d]
  BY <1>1, Remembered DEF StoreInv, TrainModel
<1>5. /\ trained' \in [Files -> Nat] /\ trained'[f] = trained[f] + 1
      /\ \A g \in Files : g # f => trained'[g] = trained[g]
      /\ \A g \in Files : trained[g] \in Nat /\ trained[g] <= trained'[g]
  BY <1>2 DEF TrainModel, StoreInv, TypeOK
<1>6. /\ deleted' \in [Processes -> [Containers -> BOOLEAN]]
      /\ \A q \in Processes, d \in Containers :
            deleted'[q][d] => deleted[q][d] /\ FileOf[d] # f
  BY <1>2 DEF TrainModel
<1>7. \/ /\ disk' = [disk EXCEPT ![f] = Partial]
         /\ saving' = [saving EXCEPT ![p] = c]
         /\ linked' = linked \union {p}
      \/ UNCHANGED <<disk, saving, linked>>
  BY <1>2 DEF TrainModel
<1>8. /\ disk' \in [Files -> Model \union {NoModel, Partial}]
      /\ \A g \in Files : disk'[g] = disk[g] \/ (g = f /\ disk'[g] = Partial)
      /\ saving' \in [Processes -> Containers \union {Nobody}]
      /\ linked' \subseteq linked \union {p} /\ linked' \in SUBSET Processes
      /\ \A q \in Processes : saving'[q] = saving[q] \/ (q = p /\ saving'[q] = c)
      /\ p \in linked' => saving'[p] = c \/ p \in linked
  <2>1. /\ disk \in [Files -> Model \union {NoModel, Partial}]
        /\ saving \in [Processes -> Containers \union {Nobody}]
        /\ linked \in SUBSET Processes
    BY DEF StoreInv, TypeOK
  <2>2. CASE UNCHANGED <<disk, saving, linked>>
    BY <2>1, <2>2
  <2>3. CASE /\ disk' = [disk EXCEPT ![f] = Partial]
             /\ saving' = [saving EXCEPT ![p] = c]
             /\ linked' = linked \union {p}
    <3>1. /\ disk' \in [Files -> Model \union {NoModel, Partial}]
          /\ \A g \in Files : disk'[g] = disk[g] \/ (g = f /\ disk'[g] = Partial)
      BY <1>2, <2>1, <2>3
    <3>2. /\ saving' \in [Processes -> Containers \union {Nobody}]
          /\ \A q \in Processes : saving'[q] = saving[q] \/ (q = p /\ saving'[q] = c)
          /\ saving'[p] = c
      BY <2>1, <2>3
    <3> QED
      BY <2>1, <2>3, <3>1, <3>2
  <2> QED
    BY <1>7, <2>2, <2>3
<1>9. TypeOK'
  BY <1>4, <1>5, <1>6, <1>8 DEF TypeOK
<1>10. SavingOK'
  <2> SUFFICES ASSUME NEW q \in Processes, saving'[q] # Nobody
               PROVE  /\ models'[q][saving'[q]] \in Model
                      /\ models'[q][saving'[q]].est = "fitted"
                      /\ models'[q][saving'[q]].version > 0
    BY DEF SavingOK
  <2>1. CASE q = p
    <3>1. saving[p] = Nobody
      BY DEF TrainModel
    <3>2. saving'[q] = c
      BY <1>8, <2>1, <3>1
    <3> QED
      BY <1>1, <1>4, <2>1, <3>2
  <2>2. CASE q # p
    <3>1. saving'[q] = saving[q] /\ saving[q] \in Containers
      BY <1>8, <2>2 DEF StoreInv, TypeOK
    <3>2. models'[q][saving'[q]] = models[q][saving[q]]
      BY <1>4, <2>2, <3>1
    <3> QED
      BY <3>1, <3>2 DEF StoreInv, SavingOK
  <2> QED
    BY <2>1, <2>2
<1>11. DiskModelsScore'
  BY <1>8 DEF StoreInv, DiskModelsScore
<1>12. DiskOK'
  <2> SUFFICES ASSUME NEW g \in Files PROVE CellOK(disk[g], g)'
    BY DEF DiskOK
  <2>1. CellOK(disk[g], g) /\ trained[g] \in Nat /\ trained'[g] \in Nat
        /\ trained[g] <= trained'[g]
    BY <1>5 DEF StoreInv, DiskOK
  <2>2. disk'[g] = disk[g] \/ disk'[g] = Partial
    BY <1>8
  <2>3. \A x \in Model : x.version \in Nat
    BY DEF Model
  <2> QED
    BY <2>1, <2>2, <2>3, Markers DEF CellOK
<1>13. MemoryOK'
  <2> SUFFICES ASSUME NEW q \in Processes, NEW d \in Containers
               PROVE  CellOK(models[q][d], FileOf[d])'
    BY DEF MemoryOK
  <2>1. CASE q = p /\ d = c
    BY <1>1, <1>2, <1>3, <1>4, <1>5, <2>1 DEF CellOK
  <2>2. CASE q # p \/ d # c
    <3>1. models'[q][d] = models[q][d] /\ CellOK(models[q][d], FileOf[d])
      BY <1>4, <2>2 DEF StoreInv, MemoryOK
    <3>2. trained[FileOf[d]] \in Nat /\ trained'[FileOf[d]] \in Nat
          /\ trained[FileOf[d]] <= trained'[FileOf[d]]
      BY <1>2, <1>5
    <3>3. \A x \in Model : x.version \in Nat
      BY DEF Model
    <3> QED
      BY <3>1, <3>2, <3>3 DEF CellOK
  <2> QED
    BY <2>1, <2>2
<1>14. Gone'
  <2> SUFFICES ASSUME NEW q \in Processes, NEW d \in Containers, deleted'[q][d]
               PROVE  /\ disk'[FileOf[d]] = NoModel
                      /\ VersionOf(models'[q][d]) = 0
                      /\ \A r \in linked' : saving'[r] \notin Namesakes(d)
    BY DEF Gone
  <2>1. deleted[q][d] /\ FileOf[d] # f /\ d # c
    BY <1>6
  <2>2. /\ disk[FileOf[d]] = NoModel /\ VersionOf(models[q][d]) = 0
        /\ \A r \in linked : saving[r] \notin Namesakes(d)
    BY <2>1 DEF StoreInv, Gone
  <2>3. c \notin Namesakes(d)
    BY <2>1 DEF Namesakes
  <2>4. ASSUME NEW r \in linked' PROVE saving'[r] \notin Namesakes(d)
    BY <1>8, <2>2, <2>3
  <2>5. disk'[FileOf[d]] = disk[FileOf[d]]
    BY <1>2, <1>8, <2>1
  <2>6. models'[q][d] = models[q][d]
    BY <1>4, <2>1
  <2> QED
    BY <2>2, <2>4, <2>5, <2>6
<1> QED
  BY <1>9, <1>10, <1>11, <1>12, <1>13, <1>14 DEF StoreInv

\* _save_to_disk after the open.
LEMMA SaveStep ==
    ASSUME StoreInv, NEW p \in Processes, SaveToDisk(p)
    PROVE  StoreInv'
<1> DEFINE c == saving[p]
           f == FileOf[c]
           m == models[p][c]
<1>1. c \in Containers /\ c # Nobody
  BY DEF SaveToDisk, StoreInv, TypeOK
<1>2. m \in Model /\ m.est = "fitted" /\ m.version > 0
  BY <1>1 DEF StoreInv, SavingOK
<1>3. f \in Files /\ ModelPath(c) = f /\ CellOK(m, f)
  BY <1>1, Paths DEF StoreInv, MemoryOK
<1>4. /\ saving' = [saving EXCEPT ![p] = Nobody] /\ linked' = linked \ {p}
      /\ UNCHANGED <<models, trained, deleted>>
  BY DEF SaveToDisk
<1>5. \/ UNCHANGED disk
      \/ p \in linked /\ \E x \in {m, Partial} : disk' = [disk EXCEPT ![f] = x]
  BY <1>3 DEF SaveToDisk
<1>6. /\ disk' \in [Files -> Model \union {NoModel, Partial}]
      /\ \A g \in Files : \/ disk'[g] = disk[g]
                          \/ p \in linked /\ g = f /\ disk'[g] \in {m, Partial}
  BY <1>2, <1>3, <1>5 DEF StoreInv, TypeOK
<1>7. /\ saving' \in [Processes -> Containers \union {Nobody}]
      /\ saving'[p] = Nobody
      /\ \A q \in Processes : q # p => saving'[q] = saving[q]
  BY <1>4 DEF StoreInv, TypeOK
<1>8. TypeOK'
  BY <1>4, <1>6, <1>7 DEF StoreInv, TypeOK
<1>9. SavingOK'
  BY <1>4, <1>7 DEF StoreInv, SavingOK
<1>10. DiskModelsScore'
  <2> SUFFICES ASSUME NEW g \in Files
               PROVE  \/ disk'[g] \in {NoModel, Partial}
                      \/ disk'[g].est = "fitted" /\ disk'[g].version > 0
    BY DEF DiskModelsScore
  <2>1. CASE disk'[g] = disk[g]
    BY <2>1 DEF StoreInv, DiskModelsScore
  <2>2. CASE disk'[g] \in {m, Partial}
    BY <1>2, <2>2
  <2> QED
    BY <1>6, <2>1, <2>2
<1>11. MemoryOK'
  BY <1>4 DEF StoreInv, MemoryOK, CellOK
<1>12. DiskOK'
  <2> SUFFICES ASSUME NEW g \in Files PROVE CellOK(disk[g], g)'
    BY DEF DiskOK
  <2>1. CellOK(disk[g], g) /\ CellOK(m, f) /\ trained' = trained
    BY <1>3, <1>4 DEF StoreInv, DiskOK
  <2>2. CellOK(Partial, g)
    BY Markers DEF CellOK
  <2>3. CellOK(disk'[g], g)
    BY <1>6, <2>1, <2>2
  <2> QED
    BY <2>1, <2>3 DEF CellOK
<1>13. Gone'
  <2> SUFFICES ASSUME NEW q \in Processes, NEW d \in Containers, deleted[q][d]
               PROVE  /\ disk'[FileOf[d]] = NoModel
                      /\ VersionOf(models[q][d]) = 0
                      /\ \A r \in linked' : saving'[r] \notin Namesakes(d)
    BY <1>4 DEF Gone
  <2>2. /\ disk[FileOf[d]] = NoModel /\ VersionOf(models[q][d]) = 0
        /\ \A r \in linked : saving[r] \notin Namesakes(d)
    BY DEF StoreInv, Gone
  <2>3. p \in linked => FileOf[d] # f
    BY <1>1, <2>2, Paths
  <2>4. FileOf[d] \in Files
    BY Paths
  <2>5. disk'[FileOf[d]] = disk[FileOf[d]]
    BY <1>6, <2>3, <2>4
  <2>6. ASSUME NEW r \in linked' PROVE saving'[r] \notin Namesakes(d)
    <3>1. r \in linked /\ r # p /\ r \in Processes
      BY <1>4 DEF StoreInv, TypeOK
    <3> QED
      BY <1>7, <2>2, <3>1
  <2> QED
    BY <2>2, <2>5, <2>6
<1> QED
  BY <1>8, <1>9, <1>10, <1>11, <1>12, <1>13 DEF StoreInv

\* delete_model, when the file is removed as well.
LEMMA DeleteStep ==
    ASSUME StoreInv, NEW p \in Processes, NEW c \in Containers, DeleteModel(p, c),
           disk' = [disk EXCEPT ![ModelPath(c)] = NoModel],
           linked' = {q \in linked : saving[q] \notin Namesakes(c)},
           deleted' = [deleted EXCEPT ![p][c] = TRUE]
    PROVE  StoreInv'
<1> DEFINE f == FileOf[c]
<1>1. /\ f \in Files /\ ModelPath(c) = f
      /\ \A d \in Containers : FileOf[d] \in Files
      /\ \A d \in Containers : FileOf[d] = f => Namesakes(d) = Namesakes(c)
  BY Paths DEF Namesakes
<1>2. saving[p] = Nobody /\ UNCHANGED <<saving, trained>>
  BY DEF DeleteModel
<1>3. /\ models' \in [Processes -> [Containers -> Model \union {NoModel}]]
      /\ models'[p][c] = NoModel
      /\ \A q \in Processes, d \in Containers :
            q # p \/ d # c => models'[q][d] = models[q][d]
  BY Remembered DEF StoreInv, DeleteModel
<1>4. /\ disk' \in [Files -> Model \union {NoModel, Partial}] /\ disk'[f] = NoModel
      /\ \A g \in Files : disk'[g] = disk[g] \/ disk'[g] = NoModel
  BY <1>1 DEF StoreInv, TypeOK
<1>5. /\ deleted' \in [Processes -> [Containers -> BOOLEAN]]
      /\ \A q \in Processes, d \in Containers :
            deleted'[q][d] => deleted[q][d] \/ (q = p /\ d = c)
  <2>1. deleted \in [Processes -> [Containers -> BOOLEAN]]
    BY DEF StoreInv, TypeOK
  <2>2. [deleted[p] EXCEPT ![c] = TRUE] \in [Containers -> BOOLEAN]
    BY <2>1
  <2>3. deleted' = [deleted EXCEPT ![p] = [deleted[p] EXCEPT ![c] = TRUE]]
    OBVIOUS
  <2>4. deleted' \in [Processes -> [Containers -> BOOLEAN]]
    BY <2>1, <2>2, <2>3, Zenon
  <2>5. ASSUME NEW q \in Processes, NEW d \in Containers, q # p \/ d # c
        PROVE  deleted'[q][d] = deleted[q][d]
    BY <2>1, <2>3, <2>5
  <2> QED
    BY <2>4, <2>5
<1>6. TypeOK'
  BY <1>2, <1>3, <1>4, <1>5 DEF StoreInv, TypeOK
<1>7. SavingOK'
  <2> SUFFICES ASSUME NEW q \in Processes, saving[q] # Nobody
               PROVE  models'[q][saving[q]] = models[q][saving[q]]
    BY <1>2 DEF StoreInv, SavingOK
  <2>1. q # p /\ saving[q] \in Containers
    BY <1>2 DEF StoreInv, TypeOK
  <2> QED
    BY <1>3, <2>1
<1>8. DiskModelsScore'
  BY <1>4 DEF StoreInv, DiskModelsScore
<1>9. DiskOK' /\ MemoryOK'
  <2>1. \A g : CellOK(NoModel, g)
    BY Markers DEF CellOK
  <2>2. \A x, g : CellOK(x, g)' <=> CellOK(x, g)
    BY <1>2 DEF CellOK
  <2>3. ASSUME NEW g \in Files PROVE CellOK(disk'[g], g)
    BY <1>4, <2>1 DEF StoreInv, DiskOK
  <2>4. ASSUME NEW q \in Processes, NEW d \in Containers
        PROVE  CellOK(models'[q][d], FileOf[d])
    BY <1>3, <2>1 DEF StoreInv, MemoryOK
  <2> QED
    BY <1>2, <2>3, <2>4 DEF DiskOK, MemoryOK, CellOK
<1>10. Gone'
  <2> SUFFICES ASSUME NEW q \in Processes, NEW d \in Containers, deleted'[q][d]
               PROVE  /\ disk'[FileOf[d]] = NoModel
                      /\ VersionOf(models'[q][d]) = 0
                      /\ \A r \in linked' : saving'[r] \notin Namesakes(d)
    BY DEF Gone
  <2>1. CASE q = p /\ d = c
    BY <1>2, <1>3, <1>4, <2>1, Versions
  <2>2. CASE deleted[q][d]
    <3>1. /\ disk[FileOf[d]] = NoModel /\ VersionOf(models[q][d]) = 0
          /\ \A r \in linked : saving[r] \notin Namesakes(d)
      BY <2>2 DEF StoreInv, Gone
    <3>2. disk'[FileOf[d]] = NoModel
      BY <1>1, <1>4, <3>1
    <3>3. VersionOf(models'[q][d]) = 0
      BY <1>3, <3>1, Versions
    <3> QED
      BY <1>2, <3>1, <3>2, <3>3
  <2> QED
    BY <1>5, <2>1, <2>2
<1> QED
  BY <1>6, <1>7, <1>8, <1>9, <1>10 DEF StoreInv

\* A process that is started again knows nothing.
LEMMA RestartStep ==
    ASSUME StoreInv, NEW p \in Processes, Restart(p)
    PROVE  StoreInv'
<1>1. /\ models' \in [Processes -> [Containers -> Model \union {NoModel}]]
      /\ \A q \in Processes, d \in Containers :
            \/ models'[q][d] = NoModel
            \/ q # p /\ models'[q][d] = models[q][d]
      /\ \A q \in Processes : q # p => models'[q] = models[q]
  BY DEF Restart, StoreInv, TypeOK
<1>2. /\ saving' \in [Processes -> Containers \union {Nobody}]
      /\ saving'[p] = Nobody
      /\ \A q \in Processes : q # p => saving'[q] = saving[q]
      /\ linked' = linked \ {p}
  BY DEF Restart, StoreInv, TypeOK
<1>3. UNCHANGED <<disk, trained, deleted>>
  BY DEF Restart
<1>4. TypeOK'
  BY <1>1, <1>2, <1>3 DEF StoreInv, TypeOK
<1>5. SavingOK'
  BY <1>1, <1>2 DEF StoreInv, SavingOK
<1>6. DiskModelsScore' /\ DiskOK'
  BY <1>3 DEF StoreInv, DiskModelsScore, DiskOK, CellOK
<1>7. MemoryOK'
  <2> SUFFICES ASSUME NEW q \in Processes, NEW d \in Containers
               PROVE  CellOK(models[q][d], FileOf[d])'
    BY DEF MemoryOK
  <2>1. CellOK(models[q][d], FileOf[d]) /\ CellOK(NoModel, FileOf[d])
    BY Markers DEF StoreInv, MemoryOK, CellOK
  <2> QED
    BY <1>1, <1>3, <2>1 DEF CellOK
<1>8. Gone'
  <2> SUFFICES ASSUME NEW q \in Processes, NEW d \in Containers, deleted[q][d]
               PROVE  /\ VersionOf(models'[q][d]) = 0
                      /\ \A r \in linked' : saving'[r] \notin Namesakes(d)
    BY <1>3 DEF StoreInv, Gone
  <2>1. /\ VersionOf(models[q][d]) = 0
        /\ \A r \in linked : saving[r] \notin Namesakes(d)
    BY DEF StoreInv, Gone
  <2>2. ASSUME NEW r \in linked' PROVE saving'[r] = saving[r] /\ r \in linked
    BY <1>2 DEF StoreInv, TypeOK
  <2> QED
    BY <1>1, <2>1, <2>2, Versions
<1> QED
  BY <1>4, <1>5, <1>6, <1>7, <1>8 DEF StoreInv

\* Each action keeps the invariant.
LEMMA StoreInvStep == StoreInv /\ [Next]_vars => StoreInv'
<1> SUFFICES ASSUME StoreInv, [Next]_vars PROVE StoreInv'
  OBVIOUS
<1>1. ASSUME NEW p \in Processes, NEW c \in Containers, GetModel(p, c) PROVE StoreInv'
  BY <1>1, Found, MemoryStep DEF GetModel
<1>2. ASSUME NEW p \in Processes, NEW c \in Containers, TrainRejected(p, c)
      PROVE  StoreInv'
  BY <1>2, Found, MemoryStep DEF TrainRejected
<1>3. ASSUME NEW p \in Processes, NEW c \in Containers, TrainFails(p, c) PROVE StoreInv'
  <2> DEFINE g == GetOrCreate(p, c)
             m == [g EXCEPT !.est = "raw"]
  <2>1. g \in Model /\ CellOK(g, FileOf[c]) /\ (deleted[p][c] => VersionOf(g) = 0)
    BY Found
  <2>2. m \in Model /\ m.version = g.version /\ m.owner = g.owner
    BY <2>1, UnfittedType
  <2>3. CellOK(m, FileOf[c]) /\ VersionOf(m) = VersionOf(g)
    BY <2>1, <2>2, Versions DEF CellOK
  <2>4. Remember(p, c, m) /\ saving[p] = Nobody
        /\ UNCHANGED <<disk, saving, linked, trained, deleted>>
    BY <1>3 DEF TrainFails
  <2> HIDE DEF m, g
  <2> QED
    BY <2>1, <2>2, <2>3, <2>4, MemoryStep
<1>4. ASSUME NEW p \in Processes, NEW c \in Containers, DeleteModel(p, c)
      PROVE  StoreInv'
  <2>1. CASE UNCHANGED <<disk, linked, deleted>>
    <3>1. CellOK(NoModel, FileOf[c]) /\ VersionOf(NoModel) = 0
      BY Markers, Versions DEF CellOK
    <3> QED
      BY <1>4, <2>1, <3>1, MemoryStep DEF DeleteModel
  <2>2. CASE /\ disk' = [disk EXCEPT ![ModelPath(c)] = NoModel]
             /\ linked' = {q \in linked : saving[q] \notin Namesakes(c)}
             /\ deleted' = [deleted EXCEPT ![p][c] = TRUE]
    BY <1>4, <2>2, DeleteStep
  <2> QED
    BY <1>4, <2>1, <2>2 DEF DeleteModel
<1>5. CASE UNCHANGED vars
  BY <1>5 DEF vars, StoreInv, TypeOK, SavingOK, DiskModelsScore, MemoryOK, DiskOK,
              Gone, CellOK
<1> QED
  BY <1>1, <1>2, <1>3, <1>4, <1>5, TrainModelStep, SaveStep, RestartStep DEF Next

\* StoreInv holds in every state.
THEOREM StoreInvariance == Spec => []StoreInv
BY StoreInvInit, StoreInvStep, PTL DEF Spec

\* _models, the files and the open files always have their declared shapes.
THEOREM TypeCorrect == Spec => []TypeOK
<1>1. StoreInv => TypeOK
  BY DEF StoreInv
<1> QED
  BY <1>1, StoreInvariance, PTL

\* A training that raised never reaches the disk (train_model,
\* _save_to_disk): whatever a restart reads back is trained and can score.
THEOREM SavedModelsScore == Spec => []DiskModelsScore
<1>1. StoreInv => DiskModelsScore
  BY DEF StoreInv
<1> QED
  BY <1>1, StoreInvariance, PTL

\* A trained model that answers for a container was trained for one with that
\* file name, for every map from ids to names.
THEOREM NamesakesServed == Spec => []NamesakesOnly
<1>1. StoreInv => NamesakesOnly
  <2> SUFFICES ASSUME StoreInv, NEW p \in Processes, NEW c \in Containers,
                      VersionOf(Lookup(p, c)) > 0
               PROVE  Lookup(p, c).owner \in Namesakes(c)
    BY DEF NamesakesOnly
  <2>1. Lookup(p, c) \in Model \union {NoModel} /\ CellOK(Lookup(p, c), FileOf[c])
    BY Found
  <2>2. Lookup(p, c) \in Model
    BY <2>1, Versions
  <2>3. Lookup(p, c).owner \in Containers
    BY <2>2 DEF Model
  <2> QED
    BY <2>1, <2>2, <2>3 DEF CellOK, Namesakes
<1> QED
  BY <1>1, StoreInvariance, PTL

\* No version number is higher than the trainings run for its file, by any
\* number of processes saving over one another.
THEOREM VersionsAreEarned == Spec => []VersionsEarned
<1>1. StoreInv => VersionsEarned
  <2> SUFFICES ASSUME StoreInv PROVE VersionsEarned
    OBVIOUS
  <2>1. ASSUME NEW m \in Model \union {NoModel, Partial}, NEW f \in Files, CellOK(m, f)
        PROVE  VersionOf(m) <= trained[f]
    BY <2>1, Versions DEF CellOK, StoreInv, TypeOK
  <2>2. ASSUME NEW p \in Processes, NEW c \in Containers
        PROVE  VersionOf(models[p][c]) <= trained[FileOf[c]]
    BY <2>1, Paths DEF StoreInv, TypeOK, MemoryOK
  <2>3. ASSUME NEW f \in Files PROVE VersionOf(disk[f]) <= trained[f]
    BY <2>1 DEF StoreInv, TypeOK, DiskOK
  <2> QED
    BY <2>2, <2>3 DEF VersionsEarned
<1> QED
  BY <1>1, StoreInvariance, PTL

\* What a process has deleted it does not find again before the next training
\* under that file name, whatever the other processes were doing.
THEOREM DeletionHolds == Spec => []DeletedStaysDeleted
<1>1. StoreInv => DeletedStaysDeleted
  BY Found DEF DeletedStaysDeleted
<1> QED
  BY <1>1, StoreInvariance, PTL

=============================================================================
