------------------------------ MODULE Training ------------------------------
(***************************************************************************)
(* Orchestrated training on the server: TrainingService (the in-flight jobs) *)
(* over ModelRegistryService (per container, the list of model versions),    *)
(* driven by concurrent HTTP handlers:                                       *)
(*   POST /api/ui/train/{id}          startOrchestratedTraining              *)
(*   POST /api/v1/agent/dump-complete handleDumpComplete                     *)
(*   POST /api/admin/models/sync      syncFromMlService                      *)
(*   POST /api/admin/models/clear     clearCache                             *)
(*   GET  /api/ui/containers          getMeta, through ContainerViewService  *)
(* A handler is cut at every access to the shared maps and lists and at      *)
(* every call to another process.  Around it: the agent that records the     *)
(* dump, and the ML service, whose models other tools train.                 *)
(***************************************************************************)
EXTENDS Integers, Sequences

CONSTANTS Containers,
          Workers,        \* request threads of the servlet container
          Lossy,          \* TRUE: calls from the server to the agent may fail
          MaxTrainings,   \* bounds on the requests of each kind ...
          MaxCompletions,
          MaxSyncs,
          MaxClears,
          MaxPolls,
          MaxMlVersion    \* ... and on the models the tools train

ASSUME TrainingAssumption ==
    /\ Lossy \in BOOLEAN
    /\ {MaxTrainings, MaxCompletions, MaxSyncs, MaxClears, MaxPolls, MaxMlVersion} \subseteq Nat

VARIABLES
    versions,   \* ModelRegistryService.versions: per container a list, oldest first
    epoch,      \* how often the map was cleared: a list of an older epoch is garbage
    jobs,       \* TrainingService.jobs: the version in training, or NoJob
    worker,     \* per request thread: the step it is at and its locals
    dumping,    \* containers the agent is recording for
    mlVersion,  \* the highest version a model of the container has had in the ML service
    served,     \* per kind of request: how many were accepted
    \* History, read by no action.
    puts,       \* jobs entered, per container
    claimed,    \* jobs taken out by a completion, per container
    done        \* the versions those jobs were for, per container

historyVars == <<puts, claimed, done>>
vars == <<versions, epoch, jobs, worker, dumping, mlVersion, served, historyVars>>

Entry == [version : Nat, status : {"TRAINING", "READY"}]
Trained(v) == [version |-> v, status |-> "READY"]
InTraining(v) == [version |-> v, status |-> "TRAINING"]
Latest(c) == versions[c][Len(versions[c])]

NoJob == 0
NoContainer == "none"

Limit == [train |-> MaxTrainings, complete |-> MaxCompletions,
          sync |-> MaxSyncs, clear |-> MaxClears, poll |-> MaxPolls]

Worker ==
    [op : {"idle", "train", "complete", "sync", "poll"},
     pc : {"idle", "meta", "cache", "mark", "put", "request",
           "claim", "read", "size", "set", "query", "append"},
     c : Containers \union {NoContainer}, version : Nat, compared : Nat,
     index : Nat, epoch : Nat, todo : SUBSET Containers]

IdleWorker == [op |-> "idle", pc |-> "idle", c |-> NoContainer, version |-> 0,
               compared |-> 0, index |-> 0, epoch |-> 0, todo |-> {}]

Goto(w, pc) == worker' = [worker EXCEPT ![w].pc = pc]
Finish(w) == worker' = [worker EXCEPT ![w] = IdleWorker]

\* ModelRegistryService.update: append to the container's list.
Update(c, e) == versions' = [versions EXCEPT ![c] = Append(@, e)]

\* AnomalyDetectionPort.getModelMeta: the version one of the ML service's
\* processes has in memory, which may be an older one (ModelStore); 0 when it
\* has none or does not answer.
RemoteVersion(c) == 0 .. mlVersion[c]

-----------------------------------------------------------------------------

Accept(w, kind) ==
    /\ worker[w].pc = "idle"
    /\ served[kind] < Limit[kind]
    /\ served' = [served EXCEPT ![kind] = @ + 1]

\* TrainingController.triggerTraining, and the UI's container view: both
\* begin with getMeta.
StartTraining(w, c) ==
    /\ Accept(w, "train")
    /\ worker' = [worker EXCEPT ![w] =
                     [IdleWorker EXCEPT !.op = "train", !.pc = "meta", !.c = c]]
    /\ UNCHANGED <<versions, epoch, jobs, dumping, mlVersion, historyVars>>

PollView(w, c) ==
    /\ Accept(w, "poll")
    /\ worker' = [worker EXCEPT ![w] =
                     [IdleWorker EXCEPT !.op = "poll", !.pc = "meta", !.c = c]]
    /\ UNCHANGED <<versions, epoch, jobs, dumping, mlVersion, historyVars>>

\* What getMeta returns to: training goes on to mark the next version.
AfterMeta(w, v) ==
    worker' = [worker EXCEPT ![w] =
                  IF @.op = "train" THEN [@ EXCEPT !.pc = "mark", !.version = v]
                                    ELSE IdleWorker]

\* getMeta: the latest local entry; without one, the ML service's model, which
\* is then cached.
GetMeta(w) ==
    LET c == worker[w].c
    IN  /\ worker[w].pc = "meta"
        /\ \/ /\ versions[c] # <<>>
              /\ AfterMeta(w, Latest(c).version)
           \/ /\ versions[c] = <<>>
              /\ \E v \in RemoteVersion(c) :
                    IF v = 0 THEN AfterMeta(w, 0)
                    ELSE worker' = [worker EXCEPT ![w].pc = "cache",
                                                  ![w].version = v]
        /\ UNCHANGED <<versions, epoch, jobs, dumping, mlVersion,
                       served, historyVars>>

CacheMeta(w) ==
    /\ worker[w].pc = "cache"
    /\ Update(worker[w].c, Trained(worker[w].version))
    /\ AfterMeta(w, worker[w].version)
    /\ UNCHANGED <<epoch, jobs, dumping, mlVersion, served, historyVars>>

MarkPreviousVersion(w) ==          \* mutation: one down, not one up
    LET v == worker[w].version - 1
    IN  /\ worker[w].pc = "mark"
        /\ Update(worker[w].c, InTraining(v))
        /\ worker' = [worker EXCEPT ![w].pc = "put", ![w].version = v]
        /\ UNCHANGED <<epoch, jobs, dumping, mlVersion, served, historyVars>>

\* startOrchestratedTraining after getMeta: enter the next version as TRAINING,
\* then the job, then ask the agent for a dump.
MarkTraining(w) ==
    LET v == worker[w].version + 1
    IN  /\ worker[w].pc = "mark"
        /\ Update(worker[w].c, InTraining(v))
        /\ worker' = [worker EXCEPT ![w].pc = "put", ![w].version = v]
        /\ UNCHANGED <<epoch, jobs, dumping, mlVersion, served, historyVars>>

PutJob(w) ==
    LET c == worker[w].c
    IN  /\ worker[w].pc = "put"
        /\ jobs' = [jobs EXCEPT ![c] = worker[w].version]
        /\ puts' = [puts EXCEPT ![c] = @ + 1]
        /\ Goto(w, "request")
        /\ UNCHANGED <<versions, epoch, dumping, mlVersion, served, claimed, done>>

\* HttpAgentAdapter.requestLongDump logs a failed call and returns as if it had
\* succeeded, so the rollback around it never runs.  A request that reaches an
\* agent already recording for the container joins that recording.
RequestDump(w) ==
    LET c == worker[w].c
    IN  /\ worker[w].pc = "request"
        /\ \/ dumping' = dumping \union {c}
           \/ Lossy /\ UNCHANGED dumping
        /\ Finish(w)
        /\ UNCHANGED <<versions, epoch, jobs, mlVersion, served, historyVars>>

-----------------------------------------------------------------------------

\* The agent reports a finished dump to a path the server does not map and
\* takes the 404 for success: nothing reaches TrainingService.
AgentReports(c) ==
    /\ c \in dumping
    /\ dumping' = dumping \ {c}
    /\ UNCHANGED <<versions, epoch, jobs, worker, mlVersion, served, historyVars>>

\* AgentWindowController.handleDumpComplete: some client posts a completion to
\* the path that is mapped and documented; early, late or repeated, as it likes.
PostCompletion(w, c) ==
    /\ Accept(w, "complete")
    /\ worker' = [worker EXCEPT ![w] =
                     [IdleWorker EXCEPT !.op = "complete", !.pc = "claim", !.c = c]]
    /\ UNCHANGED <<versions, epoch, jobs, dumping, mlVersion, historyVars>>

\* The completion has its job.
Claim(w, c, v) ==
    /\ worker' = [worker EXCEPT ![w].pc = "read", ![w].version = v]
    /\ claimed' = [claimed EXCEPT ![c] = @ + 1]
    /\ done' = [done EXCEPT ![c] = @ \union {v}]

GetJob(w) ==                       \* mutation: the job is read and not removed
    LET c == worker[w].c
    IN  /\ worker[w].pc = "claim"
        /\ jobs[c] # NoJob
        /\ Claim(w, c, jobs[c])
        /\ UNCHANGED <<versions, epoch, jobs, dumping, mlVersion, served, puts>>

\* jobs.remove: the completion takes the job, or there is none and it is ignored.
ClaimJob(w) ==
    LET c == worker[w].c
    IN  /\ worker[w].pc = "claim"
        /\ jobs' = [jobs EXCEPT ![c] = NoJob]
        /\ \/ /\ jobs[c] = NoJob
              /\ Finish(w)
              /\ UNCHANGED <<claimed, done>>
           \/ /\ jobs[c] # NoJob
              /\ Claim(w, c, jobs[c])
        /\ UNCHANGED <<versions, epoch, dumping, mlVersion, served, puts>>

ReadAnyLatest(w) ==                \* mutation: the version is not compared
    LET c == worker[w].c
    IN  /\ worker[w].pc = "read"
        /\ IF versions[c] = <<>>
             THEN Finish(w)
             ELSE worker' = [worker EXCEPT ![w].pc = "size", ![w].epoch = epoch,
                                           ![w].version = Latest(c).version,
                                           ![w].compared = Len(versions[c])]
        /\ UNCHANGED <<versions, epoch, jobs, dumping, mlVersion, served, historyVars>>

\* setStatus: get the list and its latest entry, give up on a version mismatch ...
ReadLatest(w) ==
    LET c == worker[w].c
    IN  /\ worker[w].pc = "read"
        /\ IF versions[c] = <<>> \/ Latest(c).version # worker[w].version
             THEN Finish(w)
             ELSE worker' = [worker EXCEPT ![w].pc = "size", ![w].epoch = epoch,
                                           ![w].compared = Len(versions[c])]
        /\ UNCHANGED <<versions, epoch, jobs, dumping, mlVersion, served, historyVars>>

ReadSizeLess(w) ==                 \* mutation: the last but one, as before an add
    LET c == worker[w].c
    IN  /\ worker[w].pc = "size"
        /\ IF worker[w].epoch = epoch /\ Len(versions[c]) > 1
             THEN worker' = [worker EXCEPT ![w].pc = "set",
                                           ![w].index = Len(versions[c]) - 1]
             ELSE Finish(w)
        /\ UNCHANGED <<versions, epoch, jobs, dumping, mlVersion, served, historyVars>>

\* ... then evaluate list.size() - 1 ...
ReadSize(w) ==
    LET c == worker[w].c
    IN  /\ worker[w].pc = "size"
        /\ IF worker[w].epoch = epoch
             THEN worker' = [worker EXCEPT ![w].pc = "set",
                                           ![w].index = Len(versions[c])]
             ELSE Finish(w)
        /\ UNCHANGED <<versions, epoch, jobs, dumping, mlVersion,
                       served, historyVars>>

\* ... and store a READY copy of the entry there.  A list that was cleared
\* meanwhile is no longer in the map.
SetReady(w) ==
    LET c == worker[w].c
    IN  /\ worker[w].pc = "set"
        /\ versions' = IF worker[w].epoch = epoch
                         THEN [versions EXCEPT ![c][worker[w].index] =
                                                  Trained(worker[w].version)]
                         ELSE versions
        /\ Finish(w)
        /\ UNCHANGED <<epoch, jobs, dumping, mlVersion, served, historyVars>>

-----------------------------------------------------------------------------

\* AdminController.syncModelsFromMlService: for each container, query the ML
\* service and append what it says.
StartSync(w) ==
    /\ Accept(w, "sync")
    /\ worker' = [worker EXCEPT ![w] =
                     [IdleWorker EXCEPT !.op = "sync", !.pc = "query",
                                        !.todo = Containers]]
    /\ UNCHANGED <<versions, epoch, jobs, dumping, mlVersion, historyVars>>

SyncQuery(w) ==
    /\ worker[w].pc = "query"
    /\ \/ /\ worker[w].todo = {}
          /\ Finish(w)
       \/ \E c \in worker[w].todo : \E v \in RemoteVersion(c) :
             worker' = [worker EXCEPT ![w].todo = @ \ {c}, ![w].c = c,
                                      ![w].version = v,
                                      ![w].pc = IF v = 0 THEN "query" ELSE "append"]
    /\ UNCHANGED <<versions, epoch, jobs, dumping, mlVersion, served,
                   historyVars>>

SyncAppend(w) ==
    /\ worker[w].pc = "append"
    /\ Update(worker[w].c, Trained(worker[w].version))
    /\ Goto(w, "query")
    /\ UNCHANGED <<epoch, jobs, dumping, mlVersion, served, historyVars>>

\* AdminController.clearModelCache.
ClearCache(w) ==
    /\ Accept(w, "clear")
    /\ versions' = [c \in Containers |-> <<>>]
    /\ epoch' = epoch + 1
    /\ UNCHANGED <<jobs, worker, dumping, mlVersion, historyVars>>

\* A training tool posts to the ML service: a new READY version there.
MlTrain(c) ==
    /\ mlVersion[c] < MaxMlVersion
    /\ mlVersion' = [mlVersion EXCEPT ![c] = @ + 1]
    /\ UNCHANGED <<versions, epoch, jobs, worker, dumping, served,
                   historyVars>>

-----------------------------------------------------------------------------

Init ==
    /\ versions = [c \in Containers |-> <<>>]
    /\ epoch = 0
    /\ jobs = [c \in Containers |-> NoJob]
    /\ worker = [w \in Workers |-> IdleWorker]
    /\ dumping = {}
    /\ mlVersion = [c \in Containers |-> 0]
    /\ served = [k \in DOMAIN Limit |-> 0]
    /\ puts = [c \in Containers |-> 0]
    /\ claimed = [c \in Containers |-> 0]
    /\ done = [c \in Containers |-> {}]

Request(w) ==
    \/ \E c \in Containers : \/ StartTraining(w, c) \/ PollView(w, c)
                            \/ PostCompletion(w, c)
    \/ StartSync(w)
    \/ ClearCache(w)

HandlerStep(w) ==
    \/ GetMeta(w) \/ CacheMeta(w) \/ MarkTraining(w) \/ PutJob(w) \/ RequestDump(w)
    \/ ClaimJob(w) \/ ReadLatest(w) \/ ReadSize(w) \/ SetReady(w)
    \/ SyncQuery(w) \/ SyncAppend(w)

Next ==
    \/ \E w \in Workers : Request(w) \/ HandlerStep(w)
    \/ \E c \in Containers : AgentReports(c) \/ MlTrain(c)

Spec == Init /\ [][Next]_vars

\* The threads run, and the events of a busy host bring every dump to its end.
Fairness ==
    /\ \A w \in Workers : WF_vars(HandlerStep(w))
    /\ \A c \in Containers : WF_vars(AgentReports(c))

FairSpec == Spec /\ Fairness
-----------------------------------------------------------------------------

\* The maps and the handlers' locals keep their types.
TypeOK ==
    /\ versions \in [Containers -> Seq(Entry)]
    /\ epoch \in Nat
    /\ jobs \in [Containers -> Nat]
    /\ worker \in [Workers -> Worker]
    /\ dumping \in SUBSET Containers
    /\ mlVersion \in [Containers -> Nat]
    /\ served \in [DOMAIN Limit -> Nat]
    /\ puts \in [Containers -> Nat]
    /\ claimed \in [Containers -> Nat]
    /\ done \in [Containers -> SUBSET Nat]

\* A training job is finalised at most once: however many completions of a
\* container arrive, late, twice or side by side, no two of them get the same
\* job (startOrchestratedTraining's put, handleDumpComplete's remove).
ClaimedOnce ==
    \A c \in Containers :
        claimed[c] + (IF jobs[c] = NoJob THEN 0 ELSE 1) <= puts[c]

\* A version is READY only for a reason: the ML service reported it, or a
\* completion took the job of that very version, however the handlers of
\* trainings, completions and syncs interleave (getMeta, syncFromMlService,
\* handleDumpComplete, setStatus).
ReadyHasCause ==
    \A c \in Containers : \A i \in DOMAIN versions[c] :
        versions[c][i].status = "READY"
          => versions[c][i].version \in done[c] \union 1 .. mlVersion[c]

\* setStatus evaluates list.size() twice.  Between the two another handler may
\* append, and the update then hits that handler's entry; it never hits one
\* older than the entry whose version was compared.
StatusMovesForward ==
    [][\A c \in Containers : \A i \in DOMAIN versions[c] \intersect DOMAIN versions'[c] :
          versions'[c][i] # versions[c][i]
            => \E w \in Workers : /\ worker[w].pc = "set" /\ worker[w].c = c
                                  /\ worker[w].compared <= i]_vars

\* agent/README.md, "Agent sends completion notification to server": a
\* training job that was entered is finalised in the end (notifyDumpComplete,
\* handleDumpComplete).
JobsDrain == \A c \in Containers : jobs[c] # NoJob ~> jobs[c] = NoJob

=============================================================================
