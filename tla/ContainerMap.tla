---------------------------- MODULE ContainerMap ----------------------------
(***************************************************************************)
(* How the agent finds the container of an event.  The kernel stamps a       *)
(* syscall with the low half of its cgroup's id; the agent looks that up in  *)
(* a cache and, on a miss, reads /proc/<pid>/cgroup of the process, wherever *)
(* that is by now, asks the container runtime for a name and caches the      *)
(* answer under the id of the event (agent/src/docker_mapper.cpp,            *)
(* container_mapper.cpp).  Names are abstracted to what they were made from: *)
(* an answer says how it names (as) and which container its name is of (of). *)
(***************************************************************************)
EXTENDS Naturals, Sequences

CONSTANTS Containers, Host, Gone,
          Cgroups, Pids, Ids,
          Low,           \* the low 32 bits of each cgroup's id; two may agree
          Home,          \* the container of each cgroup, or Host
          Pattern,       \* which pattern a container's cgroup path matches
          Keeper,        \* the runtime service that knows the container
          Pods,          \* containers of pods, whose paths lie below kubepods
          PodUid,        \* the ones of them whose path shows the pod's uid
          Self,          \* the agent's own container
          KnowsPod,      \* enableKubernetesApi, and the agent is told its own pod
          PreferPod,     \* preferPodName
          TTL,           \* cacheTTLSeconds
          RingCapacity   \* bound: events waiting in the ring

Services == {"docker", "crictl"}

ASSUME MapAssumption ==
    /\ Host \notin Containers
    /\ Gone \notin Cgroups
    /\ Low \in [Cgroups -> Ids]
    /\ Home \in [Cgroups -> Containers \union {Host}]
    /\ Pattern \in [Containers -> {"docker", "containerd", "crio", "kube", "podman"}]
    /\ Keeper \in [Containers -> Services]
    /\ Pods \subseteq Containers
    /\ PodUid \subseteq {c \in Pods : Pattern[c] \in {"containerd", "crio", "kube"}}
    /\ {c \in Containers : Pattern[c] = "kube"} \subseteq PodUid
    /\ Self \in Containers \union {Host}
    /\ KnowsPod \in BOOLEAN
    /\ PreferPod \in BOOLEAN
    /\ TTL \in Nat \ {0}
    /\ RingCapacity \in Nat

VARIABLES
    where,      \* the cgroup each process is in, or Gone
    deserted,   \* cgroups that a process has left (history)
    up,         \* the runtime services that answer
    ring,       \* events the agent has not taken yet
    legacy,     \* useLegacyDockerMapper
    detected,   \* detectedRuntime_, found out once, at the start
    cache,      \* per id: the answer, and how long it is still good for
    look        \* the event loop inside getContainerName, with its last answer

world == <<where, deserted, up>>
agent == <<ring, legacy, detected, cache, look>>
vars == <<where, deserted, up, ring, legacy, detected, cache, look>>

\* An event has an id and a pid; from, the cgroup it came from, is history.
Event == [id : Ids, pid : Pids, from : Cgroups]
Answer == [as : {"name", "id", "pod", "self", "none"}, of : Containers \union {Host}]
NoContainer == [as |-> "none", of |-> Host]
Absent == [left |-> 0, answer |-> NoContainer]

-----------------------------------------------------------------------------
(* The processes, the runtime and the kernel.                                *)

\* runc moves itself into the container's cgroup; a pid is used again.
Move(p, cg) ==
    /\ where[p] # cg
    /\ where' = [where EXCEPT ![p] = cg]
    /\ deserted' = deserted \union ({where[p]} \ {Gone})
    /\ UNCHANGED <<up, agent>>

Exit(p) ==
    /\ where[p] # Gone
    /\ where' = [where EXCEPT ![p] = Gone]
    /\ deserted' = deserted \union {where[p]}
    /\ UNCHANGED <<up, agent>>

RuntimeChanges(s) ==
    /\ up' = IF s \in up THEN up \ {s} ELSE up \union {s}
    /\ UNCHANGED <<where, deserted, agent>>

\* handle_sys_enter stamps cgroup and pid at the time of the call; the 64-bit
\* cgroup id is cut to the 32 bits of the event's field.
Syscall(p) ==
    /\ where[p] # Gone
    /\ Len(ring) < RingCapacity
    /\ ring' = Append(ring, [id |-> Low[where[p]], pid |-> p,
                             from |-> where[p]])
    /\ UNCHANGED <<world, legacy, detected, cache, look>>

\* The steady clock: an entry is good while nowNs() < expiresAtNs, and as good
\* as absent from then on.
Tick ==
    /\ cache' = [i \in Ids |->
                   IF cache[i].left > 1
                     THEN [cache[i] EXCEPT !.left = @ - 1] ELSE Absent]
    /\ UNCHANGED <<world, ring, legacy, detected, look>>

-----------------------------------------------------------------------------
(* getContainerName and mapContainerId, on the event loop.                   *)

Answered(a) == look' = [look EXCEPT !.pc = "done", !.answer = a]

\* The answer is cached under the event's id.
Store(a) ==
    cache' = [cache EXCEPT ![look.ev.id] = [left |-> TTL, answer |-> a]]

TakeEvent ==
    /\ look.pc \in {"idle", "done"}
    /\ ring # <<>>
    /\ look' = [pc |-> "check", ev |-> Head(ring), answer |-> NoContainer]
    /\ ring' = Tail(ring)
    /\ UNCHANGED <<world, legacy, detected, cache>>

RefreshOnHit ==                       \* mutation: a hit prolongs the entry
    /\ look.pc = "check"
    /\ IF cache[look.ev.id].left > 0
         THEN Answered(cache[look.ev.id].answer) /\ Store(cache[look.ev.id].answer)
         ELSE look' = [look EXCEPT !.pc = "read"] /\ UNCHANGED cache
    /\ UNCHANGED <<world, ring, legacy, detected>>
CheckCache ==
    /\ look.pc = "check"
    /\ IF cache[look.ev.id].left > 0
         THEN Answered(cache[look.ev.id].answer)
         ELSE look' = [look EXCEPT !.pc = "read"]
    /\ UNCHANGED <<world, ring, legacy, detected, cache>>

\* extractContainerHashFromCgroup of the legacy mapper has no pattern for CRI-O
\* (below kubepods its pattern for Kubernetes matches instead).
Recognised(c) == ~legacy \/ Pattern[c] # "crio" \/ c \in Pods

\* The container the path of a cgroup shows; Host when it shows none.
Shown(cg) ==
    IF Home[cg] \in Containers /\ Recognised(Home[cg]) THEN Home[cg] ELSE Host

\* What /proc/<pid>/cgroup shows now; Host also when the file is gone.
InProc(p) == IF where[p] = Gone THEN Host ELSE Shown(where[p])

ReadAnyway ==                         \* mutation: an unparsed path is queried for
    /\ look.pc = "read"
    /\ look' = [look EXCEPT !.pc = "query", !.answer.of = Gone]
    /\ UNCHANGED <<world, ring, legacy, detected, cache>>
\* extractContainerHashFromCgroup, parseCgroup: only the legacy mapper caches
\* that there is no container.
ReadCgroup ==
    /\ look.pc = "read"
    /\ IF InProc(look.ev.pid) = Host
         THEN /\ Answered(NoContainer)
              /\ IF legacy THEN Store(NoContainer) ELSE UNCHANGED cache
         ELSE /\ look' = [look EXCEPT !.pc = "query",
                                      !.answer.of = InProc(look.ev.pid)]
              /\ UNCHANGED cache
    /\ UNCHANGED <<world, ring, legacy, detected>>

\* The services asked for a container: the legacy mapper knows Docker only.
Tried(c) ==
    IF legacy THEN {"docker"}
    ELSE CASE Pattern[c] = "docker" -> {"docker"}
           [] Pattern[c] \in {"containerd", "crio"} -> {"crictl"}
           [] Pattern[c] = "podman" -> Services
           [] OTHER -> [docker |-> {"docker"}, cri |-> {"crictl"},
                        unknown |-> Services][detected]

\* The service whose answer ends the search.  Docker is asked first and has a
\* body for any id, be it a 404; crictl prints nothing for one it does not know.
Responder(c) ==
    IF "docker" \in Tried(c) \intersect up THEN "docker"
    ELSE IF "crictl" \in Tried(c) \intersect up /\ Keeper[c] = "crictl" THEN "crictl"
    ELSE "nobody"

Known(c) == Responder(c) = Keeper[c]

FirstName(c) ==                       \* mutation: the first container listed
    [as |-> "name", of |-> CHOOSE d \in Containers : TRUE]
\* getContainerInfo and getContainerName: whoever answered, queryKubernetes
\* gives a container with a pod uid the name of the agent's own pod; else the
\* labels name the pod; the short id stands in for what nobody names.
NameOf(c) ==
    LET pods == IF ~legacy /\ PreferPod THEN Pods ELSE {}
        own == IF KnowsPod THEN PodUid \intersect pods ELSE {}
    IN  IF c \in own /\ Responder(c) # "nobody" THEN [as |-> "self", of |-> Self]
        ELSE [as |-> IF ~Known(c) THEN "id"
                     ELSE IF c \in pods THEN "pod" ELSE "name",
              of |-> c]

\* queryDockerForName, queryDocker, queryCrictl, queryKubernetes.
QueryRuntime ==
    /\ look.pc = "query"
    /\ Answered(NameOf(look.answer.of))
    /\ Store(NameOf(look.answer.of))
    /\ UNCHANGED <<world, ring, legacy, detected>>

-----------------------------------------------------------------------------

Init ==
    /\ where \in [Pids -> Cgroups \union {Gone}]
    /\ deserted = {}
    /\ up \in SUBSET Services
    /\ ring = <<>>
    /\ legacy \in BOOLEAN
    /\ detected \in IF legacy THEN {"unknown"} ELSE {"docker", "cri", "unknown"}
    /\ cache = [i \in Ids |-> Absent]
    /\ \E cg \in Cgroups, p \in Pids :
          look = [pc |-> "idle", ev |-> [id |-> Low[cg], pid |-> p, from |-> cg],
                  answer |-> NoContainer]

Lookup == TakeEvent \/ CheckCache \/ ReadCgroup \/ QueryRuntime

World ==
    \/ \E p \in Pids : Exit(p) \/ Syscall(p) \/ \E cg \in Cgroups : Move(p, cg)
    \/ \E s \in Services : RuntimeChanges(s)
    \/ Tick

Next == Lookup \/ World

Spec == Init /\ [][Next]_vars

\* Time passes.  Nothing is assumed of the event loop: a query may hang (crictl
\* runs without a timeout).
Fairness == WF_vars(Tick)

FairSpec == Spec /\ Fairness

-----------------------------------------------------------------------------

\* Processes, cache entries and answers keep their shapes.
TypeOK ==
    /\ where \in [Pids -> Cgroups \union {Gone}]
    /\ deserted \subseteq Cgroups
    /\ up \subseteq Services
    /\ ring \in Seq(Event)
    /\ legacy \in BOOLEAN
    /\ detected \in {"docker", "cri", "unknown"}
    /\ cache \in [Ids -> [left : 0 .. TTL, answer : Answer]]
    /\ look \in [pc : {"idle", "check", "read", "query", "done"}, ev : Event,
                 answer : Answer]

\* The cgroups that an id may stand for.
Sharing(i) == {cg \in Cgroups : Low[cg] = i}

\* An answer that a lookup of this cgroup would give.
Explains(cg, a) ==
    IF a.as = "self" THEN Home[cg] \in PodUid ELSE a.of = Shown(cg)

\* Whatever the cache, the queue and the lookups of other processes do, each
\* event is given a name that its id accounts for: of the container of a cgroup
\* with that id, or of the agent's own pod where such a container is a pod.
\* Only for an id one of whose cgroups a process has left can a process that
\* is elsewhere, or gone, be read in its place (getContainerName).
AttributedById ==
    look.pc = "done" =>
        \E cg \in Sharing(look.ev.id) :
            cg \in deserted \/ Explains(cg, look.answer)

\* What a lookup gives for a process that is in this cgroup now.
Resolved(cg) == IF Shown(cg) = Host THEN NoContainer ELSE NameOf(Shown(cg))

\* A wrong container, a missing one or a stand-in id does not stay: once the
\* processes stay where they are and the runtime is quiet, and however busy the
\* cgroups are, a time comes from which every answer in the cache is the one a
\* lookup of a cgroup with its id gives now (the TTL of getContainerName and
\* getContainerInfo).
CacheRecovers ==
    <>[][FALSE]_<<where, up>> =>
        <>[](\A i \in Ids : cache[i].left > 0 =>
                \E cg \in Sharing(i) : cache[i].answer = Resolved(cg))

\* agent/README.md on container naming: an event of a pod goes under the name of
\* its pod, or of one that shares its id, unless a process has left the cgroup.
PodsNamed ==
    look.pc = "done" /\ look.answer.as \in {"pod", "self"} =>
        \E cg \in Sharing(look.ev.id) :
            cg \in deserted \/ look.answer.of = Home[cg]

=============================================================================
