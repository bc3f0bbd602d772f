----------------------------- MODULE ModelStore -----------------------------
(***************************************************************************)
(* The model registry of the ML service (ml-service/src/models): one model  *)
(* per container in memory, and a pickle file of it on disk.                *)
(*                                                                         *)
(* In production the service is several worker processes (uvicorn           *)
(* --workers): each has a _models of its own and they share the storage     *)
(* directory.  The endpoints of main.py are coroutines without an await, so *)
(* one process runs one request at a time; between processes a request is   *)
(* cut where it has opened the file.  A process looks at the disk once in a *)
(* request, to load: a request that loads early and trains late is GetModel *)
(* followed by TrainModel.                                                  *)
(*                                                                         *)
(* A model is written over the only copy of its predecessor; meanwhile the  *)
(* process may stop, the write fail, and another process open, read, write  *)
(* or remove the same file.                                                 *)
(***************************************************************************)
EXTENDS Naturals

CONSTANTS Processes,    \* worker processes
          Containers,   \* container ids
          Files,        \* file names in the storage directory
          FileOf,       \* replace("/", "_"): several ids may have one file name
          MaxVersion,   \* bound: version of a model
          MaxTrainings  \* bound, per file: trainings of its containers

ASSUME ModelStoreAssumption ==
    /\ FileOf \in [Containers -> Files]
    /\ "none" \notin Containers       \* stands for no container
    /\ MaxVersion \in Nat /\ MaxTrainings \in [Files -> Nat]

VARIABLES
    models,   \* _models of each process, total on Containers: an absent key has NoModel
    disk,     \* what each file holds
    saving,   \* per process: the container whose file it is writing, or Nobody
    linked,   \* the processes whose open file still has its name
    \* History, read by no guard but the bound.
    trained,  \* trainings that succeeded, per file
    deleted   \* per process and container: a DELETE was answered with success,
              \* and no container of that file has been trained since

vars == <<models, disk, saving, linked, trained, deleted>>

\* IsolationForestModel: container_id, version, and whether the estimator can
\* score; it cannot when there is none yet, and when a training that failed has
\* left an unfitted one.  is_fitted holds from the first successful training on.
Model == [owner : Containers, version : 0 .. MaxVersion,
          est : {"fitted", "raw"}]
NewModel(c) == [owner |-> c, version |-> 0, est |-> "raw"]

NoModel == [kind |-> "absent"]
Partial == [kind |-> "partial"]     \* opened for writing, or unreadable
Nobody == "none"

AnyFile(c) == CHOOSE f \in Files : TRUE  \* mutation: the name ignores the id
ModelPath(c) == FileOf[c]

\* The containers whose models share a file with c's.
Namesakes(c) == {d \in Containers : FileOf[d] = FileOf[c]}

LoadUnchecked(c) == disk[ModelPath(c)]  \* mutation: takes what it could read
\* A missing file, or one that cannot be read back, counts as no model.
LoadFromDisk(c) ==
    IF disk[ModelPath(c)] = Partial THEN NoModel ELSE disk[ModelPath(c)]

\* get_model: the entry in memory, or else the one on disk.
Lookup(p, c) == IF models[p][c] # NoModel THEN models[p][c] ELSE LoadFromDisk(c)
GetOrCreate(p, c) == IF Lookup(p, c) # NoModel THEN Lookup(p, c) ELSE NewModel(c)

VersionOf(m) == IF m \in {NoModel, Partial} THEN 0 ELSE m.version
Remember(p, c, m) == models' = [models EXCEPT ![p][c] = m]

-----------------------------------------------------------------------------

\* Scoring, metadata and statistics: the model is brought into memory.
GetModel(p, c) ==
    /\ saving[p] = Nobody
    /\ Remember(p, c, Lookup(p, c))
    /\ UNCHANGED <<disk, saving, linked, trained, deleted>>

\* train_model with too few samples: the model has been looked up or created
\* when the request is rejected.
TrainRejected(p, c) ==
    /\ saving[p] = Nobody
    /\ Remember(p, c, GetOrCreate(p, c))
    /\ UNCHANGED <<disk, saving, linked, trained, deleted>>

SaveUnfitted(p, c) ==               \* mutation: saves whatever came of it
    LET m == [GetOrCreate(p, c) EXCEPT !.est = "raw"]
    IN  /\ saving[p] = Nobody
        /\ Remember(p, c, m)
        /\ disk' = [disk EXCEPT ![ModelPath(c)] = m]
        /\ UNCHANGED <<saving, linked, trained, deleted>>
CountThenFit(p, c) ==               \* mutation: counted before it has succeeded
    LET m == GetOrCreate(p, c)
    IN  /\ saving[p] = Nobody
        /\ m.version < MaxVersion
        /\ Remember(p, c, [m EXCEPT !.est = "raw", !.version = @ + 1])
        /\ UNCHANGED <<disk, saving, linked, trained, deleted>>
\* fit raises: the estimator has been replaced by an unfitted one, everything
\* else is as before, and nothing is saved.
TrainFails(p, c) ==
    /\ saving[p] = Nobody
    /\ Remember(p, c, [GetOrCreate(p, c) EXCEPT !.est = "raw"])
    /\ UNCHANGED <<disk, saving, linked, trained, deleted>>

Trained(p, c) == [owner |-> GetOrCreate(p, c).owner,
                  version |-> GetOrCreate(p, c).version + 1, est |-> "fitted"]

\* train_model up to opening the file, which empties it, creating it if it is
\* not there.  If it cannot be opened this is logged, and the client is told of
\* success all the same.
TrainModel(p, c) ==
    /\ saving[p] = Nobody
    /\ GetOrCreate(p, c).version < MaxVersion
    /\ trained[FileOf[c]] < MaxTrainings[FileOf[c]]
    /\ Remember(p, c, Trained(p, c))
    /\ trained' = [trained EXCEPT ![FileOf[c]] = @ + 1]
    /\ deleted' = [q \in Processes |-> [d \in Containers |->
                      deleted[q][d] /\ d \notin Namesakes(c)]]
    /\ \/ /\ disk' = [disk EXCEPT ![ModelPath(c)] = Partial]
          /\ saving' = [saving EXCEPT ![p] = c]
          /\ linked' = linked \union {p}
       \/ UNCHANGED <<disk, saving, linked>>

SaveByName(p) ==                    \* mutation: reopens the file to write it
    LET c == saving[p]
    IN  /\ c # Nobody
        /\ disk' = [disk EXCEPT ![ModelPath(c)] = models[p][c]]
        /\ saving' = [saving EXCEPT ![p] = Nobody]
        /\ linked' = linked \ {p}
        /\ UNCHANGED <<models, trained, deleted>>
\* _save_to_disk after the open: the model is written whole, or not, or partly
\* when the write fails or another process writes to the file as well; a
\* file that was removed meanwhile is written without a name.  Failures are
\* logged; the client is told of success.
SaveToDisk(p) ==
    LET c == saving[p]
    IN  /\ c # Nobody
        /\ \/ /\ p \in linked
              /\ \E m \in {models[p][c], Partial} :
                    disk' = [disk EXCEPT ![ModelPath(c)] = m]
           \/ UNCHANGED disk
        /\ saving' = [saving EXCEPT ![p] = Nobody]
        /\ linked' = linked \ {p}
        /\ UNCHANGED <<models, trained, deleted>>

\* delete_model: success when the model is in this process's memory, and its
\* file is removed too; removing the file may raise, when the entry is already
\* gone from memory; 404 when it is not in memory, whatever is on the disk.
DeleteModel(p, c) ==
    /\ saving[p] = Nobody
    /\ models[p][c] # NoModel
    /\ Remember(p, c, NoModel)
    /\ \/ /\ disk' = [disk EXCEPT ![ModelPath(c)] = NoModel]
          /\ linked' = {q \in linked : saving[q] \notin Namesakes(c)}
          /\ deleted' = [deleted EXCEPT ![p][c] = TRUE]
       \/ UNCHANGED <<disk, linked, deleted>>
    /\ UNCHANGED <<saving, trained>>

\* A process ends, wherever it is, and is started again with empty memory.
Restart(p) ==
    /\ models' = [models EXCEPT ![p] = [c \in Containers |-> NoModel]]
    /\ saving' = [saving EXCEPT ![p] = Nobody]
    /\ linked' = linked \ {p}
    /\ UNCHANGED <<disk, trained, deleted>>

Init ==
    /\ models = [p \in Processes |-> [c \in Containers |-> NoModel]]
    /\ disk = [f \in Files |-> NoModel]
    /\ saving = [p \in Processes |-> Nobody]
    /\ linked = {}
    /\ trained = [f \in Files |-> 0]
    /\ deleted = [p \in Processes |-> [c \in Containers |-> FALSE]]

Next ==
    \E p \in Processes :
        \/ \E c \in Containers :
              \/ GetModel(p, c)
              \/ TrainRejected(p, c)
              \/ TrainFails(p, c)
              \/ TrainModel(p, c)
              \/ DeleteModel(p, c)
        \/ SaveToDisk(p)
        \/ Restart(p)

Spec == Init /\ [][Next]_vars

-----------------------------------------------------------------------------

\* Every variable keeps its shape: _models and the files hold models,
\* versions stay within the bound.
TypeOK ==
    /\ models \in [Processes -> [Containers -> Model \union {NoModel}]]
    /\ disk \in [Files -> Model \union {NoModel, Partial}]
    /\ saving \in [Processes -> Containers \union {Nobody}]
    /\ linked \in SUBSET Processes
    /\ trained \in [Files -> Nat]
    /\ deleted \in [Processes -> [Containers -> BOOLEAN]]

\* A trained model that answers for a container, in any process, after any
\* loads, saves and deletions, was trained for that container or for one whose
\* id becomes the same file name (_get_model_path, get_model, _save_to_disk).
\* That the second case exists is a limit of "separate models for each
\* monitored container" (ml-service/README.md).
NamesakesOnly ==
    \A p \in Processes, c \in Containers :
        VersionOf(Lookup(p, c)) > 0 => Lookup(p, c).owner \in Namesakes(c)

\* A version number was earned: no model, in the memory of any process or on
\* the disk, has a higher version than successful trainings have been run for
\* its file, by all processes together, whatever they saved over one another
\* (train, train_model, _load_from_disk).
VersionsEarned ==
    /\ \A p \in Processes, c \in Containers :
          VersionOf(models[p][c]) <= trained[FileOf[c]]
    /\ \A f \in Files : VersionOf(disk[f]) <= trained[f]

\* A training that raised never reaches the disk: what can be read back was
\* trained and can score, so a restart repairs a model left unfitted.
DiskModelsScore ==
    \A f \in Files :
        disk[f] \in {NoModel, Partial}
            \/ (disk[f].est = "fitted" /\ disk[f].version > 0)

\* delete_model: a process that has answered a DELETE with success finds no
\* trained model for the container, after a restart neither, until a container
\* with that file name is trained again; not even when another process was
\* writing the file at that moment.  (Another process may go on answering from
\* its memory.)
DeletedStaysDeleted ==
    \A p \in Processes, c \in Containers :
        deleted[p][c] => VersionOf(Lookup(p, c)) = 0

=============================================================================
