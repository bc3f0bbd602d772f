# A TLA+ verification of DeepKernel

DeepKernel watches the system calls of containers: an eBPF program and a C++
agent on each host collect them into windows and dumps, a Java server scores,
triages and reacts, and a Python service holds the anomaly models. This
directory holds TLA+ models of the parts where threads, processes and messages
meet, the TLC runs that check them on small instances, and proofs for every
instance that the TLA+ proof system checks.

## Inventory

| Part | State | Operations | Talks to |
|---|---|---|---|
| eBPF program (`agent/ebpf`) | ring of events | reserve, stamp, submit on every CPU | agent, by the ring |
| Agent event loop (`agent/src/agent.cpp`) | `buffers_`: per container a window, dump state, an open stream; last cleanup time | `handleEvent` and all it calls | server, by POSTs |
| Agent command server (`agent_server.cpp`) | socket, one thread | `/long-dump-requests`, `/policies`, `/health` | shares `buffers_` with the event loop, no lock |
| Container mapping (`docker_mapper.cpp`, `container_mapper.cpp`) | caches with a TTL | lookup, expire, clear | docker, crictl, `/proc` |
| Policy enforcer (`policy_enforcer.cpp`) | files of profiles, a list of what was applied | apply | docker |
| HTTP client (`http_client.cpp`) | none | POST, POST with retry | server |
| Conversions (`serialization.cpp`, `FeatureExtractor`, `train_from_dump.py`) | none | events to JSON windows and dump records, both to feature vectors | agent, server, trainer |
| Agent API of the server (`AgentWindowController`) | repositories | ingest a window, take a completion | everything below |
| Training (`TrainingService`, `ModelRegistryService`) | jobs; list of versions per container | start, complete, sync, clear, look up | agent, ML service |
| Anomaly adapters (`anomaly-engine`) | availability flag, local models | score, train, meta | ML service |
| Triage, policy generation, change context | a toggle | pure decisions around remote calls | Gemini, GitHub |
| Repositories | in-memory lists and maps | save, latest, list | request threads |
| ML service (`ml-service/src`) | models in memory and on disk | train, score, meta | server, tools |
| UI, demo applications, tools, scripts | – | – | server |

What is hard here: the two agent threads work on the same buffers without a
lock, and one of them holds a reference to an entry the other may erase;
timestamps of different CPUs arrive out of order and are subtracted unsigned;
a POST blocks the event loop for seconds in the middle of a handler; delivery
is at-most-once in places and at-least-once in others; the server's request
threads read, decide and write shared lists in separate steps; the agent waits
for the server to answer a window while the server waits for the agent to apply
a policy; the process of an event may be gone, or elsewhere, when the agent looks
for its container; a time passes through three integer types. `PROJECT.json`
lists these hazards line by line.

What makes the parts correct:

* buffers: no event lost or sent twice; a window sent at its age, unless
  timestamps are out of order; nothing in use erased;
* dumps: one report per dump; the file is what its header, path, count and
  duration say;
* training: a job finalised once, and in the end; READY has a cause; a status
  never goes back to an older version;
* models of the ML service: a container is answered from a model of its own file
  name; versions are earned by trainings; what is on disk can score; a deletion
  holds in the process that confirmed it;
* policies: what a container runs with was ordered for it; an "applied" has a
  profile file behind it; a silent server holds nobody up, and a stop waits for
  nothing but a silent client or a Docker command;
* container mapping: an event gets a name that its cgroup id accounts for, and a
  wrong answer does not stay;
* conversions: no wrapped difference passes for a time; no record is lost when a
  dump is split; the vectors scored and trained on count the same.

Where the code does not keep one of these, or a promise of the repository's
documents, the section of the module says so, and five runs show it.

## Modules

| Module | Models |
|---|---|
| `KernelEvents` | the tracepoint program on each CPU and the ring |
| `Agent` | extends it: event loop, command thread, buffers, dump files |
| `DumpLife` | abstract: what the agent promises about dumps; `Agent` implements it |
| `AgentProofs` | theorems about `Agent` |
| `AgentWindowProofs` | the decision to post a window, for any order of timestamps |
| `MCAgent` | symmetry sets and the file names for TLC |
| `Training` | training and model registry under concurrent requests |
| `TrainingProofs` | theorems about `Training` |
| `MCTraining` | symmetry sets for TLC |
| `ModelStore` | the ML service's registry: worker processes, their memory, shared files, restarts |
| `ModelStoreProofs` | theorems about `ModelStore` |
| `MCModelStore` | the file names and the symmetry for TLC |
| `Enforcement` | from a window to an enforced policy: retried POST, server, command server, policy enforcer, Docker |
| `EnforcementProofs`, `MCEnforcement` | theorems about it; its instance |
| `ContainerMap` | both container mappers, with processes, runtime services and the ring around them |
| `ContainerMapProofs`, `MCContainerMap` | theorems about it; its instance |
| `Features` | an event's data on both ways to the ML service |
| `FeaturesProofs`, `MCFeatures` | theorems about its times; its instance |
| `PipelineProofs` | theorems about its records: what is split, and what the two extractors make of the same events |

The components meet where one module holds both sides: `Agent` the kernel's CPUs
and the agent's two threads, `Training` the server, the agent and the ML service,
`Enforcement` the agent's two threads, the server and Docker, `ContainerMap` the
kernel, the agent and the runtime, `Features` agent, server and trainer.

Some definitions carry the comment `mutation:`. They are wrong variants of the
definition that follows them; the runs are repeated with one in place of the
other, and must then fail. No specification uses them.

### KernelEvents

`ReserveSlot` is `bpf_ringbuf_reserve`: it takes the next slot, or drops the
event when the ring is full. `SubmitSlot` stamps the slot and publishes it. The
clock may advance, and other CPUs may reserve and submit, in between: this is
how a later slot gets an earlier timestamp. `ConsumeSlot` takes the oldest slot
once it is published, as libbpf does. The ring's size is counted in events.

### Agent

A buffer is a record with the fields of `ContainerBuffer`; a window is the
sequence of its events' timestamps, and of the other fields of an event only
the container is kept. An event comes with the container it is mapped to; how
that is found is `ContainerMap`. `known` is the key set of `buffers_`.

The event loop is one process, `loop.pc` its place in `handleEvent`:

| Action | Code |
|---|---|
| `HandleEvent` | from the ring to `push_back`, with the filter |
| `AppendLongDump` | `appendLongDump`: nothing, a record, or the end of the dump |
| `ClearDumpActive` | `isLongDumpActive = false`, after the stream is closed |
| `NotifyDumpComplete`, `ResetDumpState` | `notifyDumpComplete` up to, and after, its POST |
| `DecideWindow`, `ProcessShortWindow` | the age and count test, the POST and the reset |
| `StopExpiredLongDump`, `ExpiredAllVisited` | the walk of `stopExpiredLongDumps`, in any order |
| `CleanupInactiveBuffers` | the test of `cleanupInactiveBuffers` whether a cleanup is due |
| `InspectBuffer`, `EraseBuffer`, `SweepDone` | its walk: the fields of one entry are read, then the entry is erased |
| `SignalStop` | the end of `run` |

The command thread runs `requestLongDump` in the steps `RequestLongDump` (look
up or create), `OpenDumpFile`, `ActivateDump`, `DescribeDump`, `WriteHeader`. The
cuts are where the other thread can see a difference. A stream is closed, open
on a file, or open on a file and failed: opening an open `ofstream` sets its
fail bit and changes nothing else, and writes to it are lost.

Unlocked access is undefined behaviour, and is modelled by what the build can
do. The steps interleave. An entry may be erased after it was inspected and a
dump started in it since (`agent_v_lost`), or while the command thread holds a
reference to it: the rest of the request is then harmless, or fatal, or done to
another entry that has taken its memory (`UseErasedBuffer`). An insertion while
`stopExpiredLongDumps` or `cleanupInactiveBuffers` walks the table (the nodes
survive a rehash, their order does not) makes the walk repeat or miss entries
(`RequestLongDump`). Torn or reordered single stores and two insertions at the
very same moment are not modelled.

Some things the code does are in the model and contradict no property here, but
a user should know them:

* A second request for a running dump changes the path and the count that will be
  reported, and not the file that is open.
* The reset after the completion POST wipes the path of a dump that was requested
  during it.
* A dump starts at the time of the container's last event, so it may end sooner
  than its duration after the request.
* Windows are posted and dumps ended only when a further event is handled.
* An event older than the last cleanup makes the unsigned age wrap, and the
  buffers are cleaned up at once, more often than the "at most once per minute" of
  agent.cpp:357.
* An entry that a request has just created has no event and counts as inactive.

Timestamps are small numbers. `Minus` is unsigned subtraction modulo a number
so large that a wrapped difference exceeds every threshold, as 2^64 ns does.
The conversion of times to microseconds is left to `Features`. A dump file is
named by `SafeId` of the container, which is not injective (both containers of
the runs have the same), and by the clock: two requests in one tick may share a
name. A file is the list of what was written to it since it was last opened,
not bytes at offsets: two streams open on one file appear as if in append mode.

Left out: the baseline dump `run` starts when `autoBaselineDump` is set (off by
default), `initBpf`, and the text of the messages.

### DumpLife

The abstract life of dumps: `Start`, `End`, `Report`, `Stop`; one report at a
time, each after an end, none after the agent has stopped. A request for a
container that is being dumped extends the dump, and one may come while an
earlier dump of the container is being reported. A container that is not dumped may
be chosen to leave the agent's table (`Choose`), and then leaves it (`Leave`) with
a dump that was started in between: this is the one way a dump of a living agent
is lost without a report.

`Life` in `Agent` instantiates it: the running dumps are the buffers with
`isLongDumpActive`, the report under way and the container about to leave are
read off the event loop's place. `ActivateDump` is then a `Start`,
`ClearDumpActive` an `End`, the notice a `Report`, `InspectBuffer` of a removable
entry a `Choose` and `EraseBuffer` a `Leave`.

### Training

Each request thread runs one handler at a time, cut at every access to the
shared maps and lists and at every call to another process. `computeIfAbsent`
and `add` of `update` are one step: a clear between them has the effect of one
after them. `epoch` counts clears, so that a handler that holds a list from
before a clear writes to garbage. `removeLatest` and the rollbacks that call it
are unreachable, because `HttpAgentAdapter.requestLongDump` swallows every
exception and `setStatus` throws none; `TrainingService.train` has no caller.

The agent appears as the set of containers it is recording for. Its report
(`AgentReports`) goes to `/long-dump-complete`, which the server does not map, and
changes nothing there. A completion on the path that is mapped comes from any
client that follows the documents, at any time and any number of times
(`PostCompletion`). The ML service answers with any version its models have had:
its worker processes have different ones in memory.

With several threads the registry keeps less than its comments say. Two
interleaved trainings of one container can leave a version in TRAINING for which no
job is left. `setStatus` reads the latest entry and stores at the then last index,
so it may overwrite an entry that was appended in between, against the comment
"no-op if versions missing or version mismatch" (ModelRegistryService.java:66). A
sync may append an older version behind a newer one. What does hold is checked
and proved: nothing becomes READY without a cause, and an overwritten entry is
never an older one than the entry compared.

### ModelStore

`ModelRegistry` of the ML service, in any number of worker processes: production
runs with `--workers 4` (ml-service/README.md:49-50), each worker with its own
`_models`, all with the same storage directory. The endpoints are coroutines that
never await, so requests to one process do not interleave and its lock is never
contended; between processes a request is cut where it has opened the file.

`TrainModel` is `train_model` up to opening the file for writing, which empties
it; `SaveToDisk` is the rest, which succeeds, or fails half-way (the exception is
logged and the client is told of success), or meets another process's save to the
same file. `linked` says whose open file still has its name: a file removed
meanwhile is written for nobody. `TrainRejected` and `TrainFails` are the two ways
`train` raises, before and after it has replaced the estimator. `GetModel` stands
for scoring, metadata and statistics, which differ only in what they return.
`DeleteModel` has the outcomes 200, 404 and an exception from `unlink`. `Restart` of
a process may happen anywhere, in the middle of a save too; the loss of the
operating system's buffers is not modelled. The score simulation of the demo is left
out.

`FileOf` is `_get_model_path`, which replaces `/` by `_` and so is not injective:
the containers `a/b` and `a_b` overwrite each other's file, and load each other's
model after a restart. This limits the "separate models for each monitored container"
of ml-service/README.md:12 to containers with different file names, which is what
`NamesakesOnly` says. Three more limits are in the model: a process that stops in
the middle of a save loses the model, and the container starts again at version 1;
deletion decides by the memory of one process, so a model that is only on disk
gets a 404 and stays; and another process goes on serving a deleted model from its
memory.

`trained` and `deleted` are history.

### Enforcement

Three kinds of threads. The agent's event loop is inside `postJsonWithRetry`:
`PostWindow`, `SendAttempt`, `PostAnswered` or `PostTimesOut`, `RetryPost`. Any HTTP
status counts as an answer, 400 and 500 too. Every copy that reaches the server
is a request of its own and runs `ingestWindow`: `Triage` stands for scoring,
triage and policy generation, exceptions included; `StorePolicy` saves and
announces the policy as APPLIED; `CallAgent` is `applyPolicy`, which waits without a
timeout and swallows failures (`CallReturns`). The copy's number is the policy's
id. The agent's command thread accepts one connection at a time and goes through
`handleClient` and `apply`: `RecvRequest`, `ApplyPolicy`, `LookUpContainer`,
`UpdateContainer`, `RestartContainer`, `RecordPolicy`. Opening
the profile's file, writing it, looking up, updating and restarting the container
may each fail. Only a file that cannot be opened is answered with FAILED. The stream
is not looked at after the write, so a policy whose file is cut short (`short`) is
enforced and answered with APPLIED; and where agent/README.md:523 promises a 500
when Docker fails, the code answers APPLIED.

Faults: a POST that does not arrive, or whose answer is late; a server thread that
stalls for ever; a `recv` that returns nothing or a part of the request. A part is
answered with 400, because the server writes the container's id behind the
policy's id and type, and without it the agent does not go on. The agent may be
stopped (`StopServer`, `ThreadExits`, `JoinThread`), killed at any point (`Crash`),
and started with or without a socket (`StartAgent`). `Crash` also stands for the
abort that can follow when `serverLoop` uses the descriptor `stop` has just set to
-1. A client may connect and send nothing, and a Docker command may never end:
neither `recv` nor `std::system` has a timeout, and `stop` joins the thread that waits
there (`Waiting`). When `select` fails the thread ends and the socket stays open (`SelectFails`):
the kernel goes on accepting connections that nobody serves. Docker restarts
containers for reasons of its own (`DockerRestart`), which brings into force what
an `update` without its `restart` had left behind.

Only the server sends SECCOMP policies; other clients appear with the types the
enforcer records without doing anything (`OtherPolicy`). The text of the profiles
is not looked at.

### ContainerMap

The kernel stamps an event with the low 32 bits of the caller's cgroup id (`Low`;
two cgroups may agree in them); the agent looks that id up in a cache, and on a miss
reads `/proc/<pid>/cgroup` of the process, wherever it is by then, and asks the
runtime for a name. `TakeEvent`, `CheckCache`, `ReadCgroup` and `QueryRuntime` are
the steps of one lookup, and between them processes move, exit and return, runtime
services come and go, and entries age. `legacy` selects the mapper: `DockerMapper`
asks Docker only and caches that there is no container; `ContainerMapper` asks what
the cgroup's path and the runtime it found at the start suggest (`Tried`), and
caches only what it found. The legacy mapper has no pattern for CRI-O; below
kubepods its pattern for Kubernetes matches such a path (`Recognised`).

Names are abstracted to how they were made and whose they are. Docker, when it is
up, has an answer for any id, a 404 included, and ends the search (`Responder`). A
container whose path shows the uid of a pod is named by `queryKubernetes`, which
returns the agent's own pod whatever pod it is asked for (`self`); another pod is
named by its labels (`pod`), another container by its name (`name`), and one that
nobody names by its short id (`id`).

`from` in an event and `deserted`, the cgroups a process has left, are history.

### Features

The events of one container go into windows, as JSON with deltas from the first
event, and into a dump, as records with deltas from the record before. The actions
are `handleEvent` with the parts of it that convert and store, the start and end
of a dump, a `Crash` that cuts the file short, and the trainer's
`split_into_windows`, one record a step. The widths are constants, so that TLC can
run with small ones: `Mod64` for the agent's unsigned times, `Mod32` for a record's
delta, `JavaIntMax` for the server's. Events may be older than those before them
by up to `Skew`.

The tables of `classify_arg_class`, of the Java `mapSyscallToAlphabet` and of the
Python mapping are written out, each from its own source. Of a feature vector the
model keeps the counts it is computed from; normalisation and entropy are
functions of these. Two features are known not to agree and no property says they
do: the ratios by argument class (`features_v`), and the duration, which the
trainer takes from the last record's delta and the server from the last event's
offset. After the splitting the trainer drops windows of fewer than `--min-records`
records (train_from_dump.py:384), which is not modelled. A model run has one dump,
and `CloseDump` is a step of its own.

A window the server cannot read is answered with 400, which the agent takes for
success: `RefusedOnlyIfLate` says exactly which windows are lost this way.

## Runs

Passing runs. Deadlock checking is on for the model store, and off for the others:
clocks, events, requests and restarts are bounded, and the agent may be stopped.

| Run | Instance | Shows |
|---|---|---|
| `agent_skew` | 2 CPUs, a watched and a filtered container with one file name, 3 events, 2 overlapping requests, clock 4..5 | `TypeOK`, `NoticePerDump`, `DumpsFollowLife` |
| `agent_two` | 2 CPUs, 2 watched containers, 3 events, 1 request, clock 4..6 | `EventsConserved`, `FlushSpansWindow` |
| `training_race` | 3 threads, 1 container, 2 trainings, 2 completions, a sync, a clear and a view, lossy | `TypeOK`, `ClaimedOnce`, `ReadyHasCause`, `StatusMovesForward` |
| `store` | 2 processes, 3 containers of which 2 have one file name, restarts anywhere | `TypeOK`, `NamesakesOnly`, `VersionsEarned`, `DiskModelsScore`, `DeletedStaysDeleted` |
| `enforce` | 1 container, 1 window posted up to 2 times, 2 lives of the agent, 1 foreign policy, fair | `TypeOK`, `EnforcedWasOrdered`, `AppliedMeansFile`, `PoliciesPerWindow`, `NoWorkAfterStop`, `PostReturns`, `StopReturns` |
| `mapper` | 1 process; a Docker container, a pod, and a CRI-O container with the id of the first; ring of 1, TTL 2, both mappers, fair | `TypeOK`, `AttributedById`, `CacheRecovers` |
| `features` | 3 system calls, 3 events, clock to 9, skew 2, 2 ns to the us, widths 16, 4 and 2 | `TypeOK`, `TimesSurvive`, `RefusedOnlyIfLate`, `DumpDrift`, `SplitKeepsRecords`, `SplitInSlots`, `PipelinesAgree` |

The bounds:

* Agent. Three events suffice for a window of two to be sent and a third event to
  expire a dump or find a stale buffer; the clock starts above the cleanup interval
  (a fresh agent cleans up on its first event) and ranges over more than the
  inactive threshold; two requests are what overlap needs. Two CPUs are enough to
  invert a pair of timestamps, so the ages of windows, buffers and the last cleanup
  wrap in both runs.
* Training. Three threads hold a training, a second training or sync of the same
  container, and a completion at once. A second container would only add handlers
  that touch other entries of the maps; the theorems are for any number.
* ModelStore. Two processes are what it takes to write, read or remove a file under
  another; two ids with one name beside a third one are what sharing needs. Two
  trainings of the shared file put both processes, or both ids, in a race.
* Enforcement. Two attempts give two requests for one window, which overtake each
  other anywhere; two lives put a restart between any two steps of either. The
  container in force is a matter of one container at a time; that a policy never
  reaches another one is part of the theorem, which is for any number.
* ContainerMap. One process suffices for an event to be read elsewhere than it was
  made: it moves while one event is looked up and another waits. A second process
  only adds events of the same kinds. A TTL of 2 lets an entry be used before and
  after a tick.
* Features. One system call that is a file operation, one of no class, and one with
  a bit above the 16 that are kept, so that class and id part ways. Three events at
  nine times hold every order of a first, a middle and a last one with gaps that
  wrap `Mod32` and exceed `JavaIntMax`. `Mod64` leaves room between the largest time
  and a wrapped difference, as 2^64 ns does for centuries.

Runs in which TLC must find a violation, each of a sentence in the repository:

| Run | What is said | What happens |
|---|---|---|
| `agent_v_header` | a dump file starts with its header | a record is written between the flag and the header |
| `agent_v_lost` | "Notifies server when a long dump finishes." | a dump activated between the cleanup's test and its erase goes with the buffer, unreported |
| `training_v_route` | "READY will be set on dump completion" | the completion goes to an unmapped path |
| `mapper_v_pod` | with pod names on, a container is named by its pod, "`prod/payment-api`" | the events of a pod get the name of the agent's pod |
| `features_v` | "Argument class constants (must match server-side definitions)" | the server counts class 0 as file and 1 as network operations, the tracepoint program sends 1 and 2 |

Fairness:

* `Training` (only for the violation `training_v_route`): weak fairness of each
  thread's handler steps, and of the agent's report for a running dump, as on a host
  that goes on producing events. Even so the job stays.
* `Enforcement` (`PostReturns`, `StopReturns`): weak fairness of the event loop,
  whose POST has a timeout, of the steps of the command thread that wait for nobody
  or have a timeout (`Prompt`), and of the join. Nothing is assumed of the server:
  the agent and the server wait for each other, and it is the POST's timeout that
  breaks the circle. Nor of the command thread's clients and Docker commands:
  `StopReturns` says that a stop which never comes back waits for one of these, for
  ever, and for nothing else.
* `ContainerMap` (`CacheRecovers`): weak fairness of the clock only. A lookup may hang,
  for `crictl` runs without a timeout. Processes and services may become quiet at any
  time, or never; the property speaks of the former, and events go on either way.

## Proofs

`AgentProofs`, from `KernelAssumption` and `AgentAssumption` only (the bounds
are natural numbers, the clock starts above zero), for any sets of CPUs and
containers:

* `TypeCorrect`: `Spec => []TypeOK`. The inductive invariant is
  `Inv == TypeOK /\ LoopOK /\ CmdOK`: each thread in the middle of a handler has
  the container, the dump or the file name it works with, which TypeOK alone
  forgets. One lemma per thread, one step per action.
* `EventsAreConserved`: inductive relative to `Inv` and
  `EraseOK == loop.pc = "erase" => buffers[loop.entry].window = <<>>`: the entry is
  erased some steps after it was inspected, and one needs that no event reaches its
  window in between, because only the event loop puts events there.
* `OneNoticePerDump`: from `Inv` and
  `ClearOK == loop.pc = "clear" => buffers[loop.entry].active`. The flag is
  tested, the stream closed and the flag cleared in separate steps, so one
  needs that the command thread never clears it in between.
  `EventLoopOnDump` and `CommandThreadOnDump` sum up what each thread can do to
  one container's dump, the erasure of an active one included.
* `AgentImplementsDumpLife`: `Spec => DumpsFollowLife`, the refinement, from the
  same invariants: every step of either thread is a step of `DumpLife` or changes
  none of its variables.

`AgentWindowProofs`, from the same assumptions, for any number of CPUs and any order
of timestamps:

* `FlushesSpanWindow`: from `WindowsOK`, by which a window's start is the time of its
  first event and the event being handled is in its window. If the age of the window did
  not wrap (`MinusOfEarlier`) its first and its last event span it; if it did, the
  event being handled is stamped before the first.

`TrainingProofs`, for any sets of containers and threads and any interleaving:

* `TypeCorrect`: with `HandlerOK`, a handler past its first step has its
  container.
* `JobsClaimedOnce`: only `PutJob` and `ClaimJob` change the job table, and the
  removal is atomic.
* `ReadyIsCaused`, `StatusNeverGoesBack`: from `LocalsOK`, which says what a handler's
  locals still mean when it writes, whatever the others did meanwhile: a version that
  it will make READY is one of a job it has claimed or of the ML service, and an
  index it has read is not below the entry it has compared, because the list only
  grows until a clear (the epoch). `StepOnLists` sums up what any step can do to
  a list.

`ModelStoreProofs`, from `ModelStoreAssumption`, for any processes, containers, files
and any map from the one to the other:

* `TypeCorrect`, `SavedModelsScore`, `NamesakesServed`, `VersionsAreEarned`,
  `DeletionHolds`: from `StoreInv`. It adds to the types that a process has the model
  it is saving in memory, trained (`SavingOK`); that each model in memory or on disk is
  under the file name of its owner and no newer than that file's trainings
  (`CellOK`, which is what lets a load carry it from one to the other); and that
  after a confirmed deletion neither the process nor the file has a trained model,
  and nobody is writing to a file that still has the name (`Gone`).

`EnforcementProofs`, from `EnforcementAssumption`, for any containers, attempts,
windows and lives of the agent:

* `EnforcementTypes`, `EnforcedPoliciesOrdered`, `AppliedPoliciesHaveFile`,
  `StoppedAgentIdle`: from `EnforcementInv`. The properties look at the two ends,
  the stored policy and Docker; the invariant carries the order along the way:
  whatever waits at the agent or is being served was stored for that container
  (`OrdersKnown`), the profile's file is there from the second step of `apply` on
  (`ProfileWritten`), and Docker's set and running profiles are such policies
  (`DockerKnown`). It is kept because nothing takes back a request, a stored policy
  or a profile (`HistoryKept`).
* `WindowPoliciesBounded`: a policy is stored by one request, once (`PoliciesOK`),
  and the requests that carry a window (`Copies`) are no more than the attempts
  spent on it (`Budget`: all of them for an earlier window, those made so far for the
  one being posted, none for a later one). The policies of a window then map
  injectively into its copies. A killed agent never posts the window again, so the
  bound is not per life.

`ContainerMapProofs`, from `MapAssumption`, for any containers, cgroups, processes,
TTL and ring:

* `MapTypes`, `EventsAttributed`: from `MapInv`. An event in the ring, or being looked
  up, comes from a process that is still in its cgroup unless the cgroup is
  `deserted` (`From`), carries the low half of that cgroup's id (`Stamped`), and
  what is in the cache is accounted for by a cgroup with that id, in the same sense
  (`Fits`).

`FeaturesProofs`, from `FeaturesAssumption`, for any widths and numbers of events:

* `FeatureTypes`, `AcceptedTimesExact`, `RefusalsExplained`, `DumpDriftBounded`: from
  `FeaturesInv`, which says what each posted delta and each record of the file was
  made from (`JsonDeltas`, `FileDeltas`), and that nothing is read while the dump
  is open. `DeltaMeaning` is the arithmetic: a difference that wraps is larger than
  any `JavaIntMax`. The assumption it needs is that the clock stays that far from
  the end of 64 bits. `DumpDrift` is inductive beside it, one record at a time.

`PipelineProofs`, from the same assumption and invariant:

* `VectorsAgree`: the window is a suffix of the events made, what was posted is a
  stretch of them, and the k-th record of the dump is that of the k-th event after
  its start (`Traced`); both formats keep id, class and bucket. The Java switch and
  the Python table give every id the same letter (`SameLetter`), and the trainer's
  cut at 11 never cuts (`SameBucket`), so both count the same sequences.
* `SplitLosesNothing`, `WindowsInSlots`: from `SplitOK`, which adds that the window
  being filled has not left its slot (`SlotOpen`). They need one equation about
  `FlattenSeq` and one about the sum `Total` (`FlattenAppend`, `TotalAppend`). The two
  are recursive functions; the prover cannot apply an induction theorem to them, but
  it has the well-foundedness of `<` on the naturals, from which `LeastOf` takes the
  least length at which a claim fails. That such a function exists, and only one, is
  proved this way for each.

Only model-checked: the liveness properties `JobsDrain`, `PostReturns`, `StopReturns`
and `CacheRecovers`, since fairness and ENABLED are out of this prover's reach. Every
invariant and every other action property of the passing runs is a theorem.

## Plan

1. An abstract specification of a training job, with `Training` shown to
   implement it where the code does, checked by TLC and proved as for `DumpLife`.
2. Runs that show the limits named under Training and ModelStore: the orphaned
   TRAINING, the overwritten newer entry, the shared file.
3. `HybridAnomalyAdapter`'s availability switch over `ModelStore`, once there is a
   property that tells the two models' scores apart.
4. The registration of containers and the live events of `ingestWindow`.

## Not modelled

* `agent/ebpf/vmlinux.h`, most of the repository's C lines: a dump of the kernel's
  types that bpftool generates.
* The anomaly adapters and the isolation forest's arithmetic: scores are numbers no
  property here tells apart, and `Enforcement` lets scoring end either way.
* Triage, change context and policy text: the answers of remote services and text
  rules; their outcomes are a choice.
* `initBpf` and the baseline dump `run` starts when `autoBaselineDump` is set (off by
  default); `clearCache`, `isContainer`, `TrainingService.train` and the training
  rollback, which no code reaches.
* Configuration, wiring, websocket, read-only APIs and maintenance calls; the UI,
  demo applications, scripts and one-shot tools.
* Prompts, JSON and log text.
