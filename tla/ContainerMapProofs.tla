------------------------- MODULE ContainerMapProofs -------------------------
(***************************************************************************)
(* Theorems about ContainerMap, for any processes, cgroups, containers,      *)
(* runtime services, time to live and queue.                                 *)
(***************************************************************************)
EXTENDS ContainerMap, TLAPS

Look == [pc : {"idle", "check", "read", "query", "done"}, ev : Event, answer : Answer]
Entry == [left : 0 .. TTL, answer : Answer]

\* The answers the mapper makes, and the entries it keeps.
LEMMA AnswerTypes ==
    /\ NoContainer \in Answer
    /\ NoContainer.as = "none"
    /\ NoContainer.of = Host
    /\ Absent \in Entry
    /\ Absent.left = 0
<1>1. NoContainer \in Answer /\ NoContainer.as = "none" /\ NoContainer.of = Host
  BY DEF NoContainer, Answer
<1>2. Absent \in Entry /\ Absent.left = 0
  BY <1>1, MapAssumption DEF Absent, Entry
<1> QED
  BY <1>1, <1>2

\* The name of a container is its own, or the agent's pod's for one with a uid.
LEMMA NameOfAnswer ==
    ASSUME NEW c \in Containers
    PROVE  /\ NameOf(c) \in Answer
           /\ NameOf(c).as = "self" => c \in PodUid
           /\ NameOf(c).as # "self" => NameOf(c).of = c
<1> DEFINE pods == IF ~legacy /\ PreferPod THEN Pods ELSE {}
           own == IF KnowsPod THEN PodUid \intersect pods ELSE {}
           other == [as |-> IF ~Known(c) THEN "id"
                            ELSE IF c \in pods THEN "pod" ELSE "name", of |-> c]
<1>1. CASE c \in own /\ Responder(c) # "nobody"
  <2>1. NameOf(c) = [as |-> "self", of |-> Self]
    BY <1>1 DEF NameOf
  <2>2. c \in PodUid
    BY <1>1
  <2> QED
    BY <2>1, <2>2, MapAssumption DEF Answer
<1>2. CASE ~(c \in own /\ Responder(c) # "nobody")
  <2>1. NameOf(c) = other
    BY <1>2 DEF NameOf
  <2>2. other.as \in {"id", "pod", "name"} /\ other.of = c /\ other \in Answer
    BY DEF Answer
  <2> QED
    BY <2>1, <2>2
<1> QED
  BY <1>1, <1>2

\* What storing an answer does to the cache.
LEMMA StoreEffect ==
    ASSUME TypeOK, NEW a \in Answer, Store(a)
    PROVE  /\ cache' \in [Ids -> Entry]
           /\ look.ev.id \in Ids
           /\ \A i \in Ids : cache'[i] = IF i = look.ev.id
                                           THEN [left |-> TTL, answer |-> a]
                                           ELSE cache[i]
<1>1. [left |-> TTL, answer |-> a] \in Entry
  BY MapAssumption DEF Entry
<1>2. look.ev.id \in Ids
  BY DEF TypeOK, Event
<1> QED
  BY <1>1, <1>2 DEF TypeOK, Store, Entry

\* What an answer does to the event loop.
LEMMA AnsweredEffect ==
    ASSUME TypeOK, NEW a \in Answer, Answered(a)
    PROVE  look' \in Look /\ look'.pc = "done" /\ look'.ev = look.ev /\ look'.answer = a
BY DEF TypeOK, Answered, Look

\* What reading /proc/<pid>/cgroup yields.
LEMMA InProcType ==
    ASSUME TypeOK, NEW p \in Pids
    PROVE  InProc(p) \in Containers \union {Host}
BY MapAssumption DEF TypeOK, InProc, Shown

-----------------------------------------------------------------------------

\* Where an event came from, unless its process may have left since.
From(ev) == where[ev.pid] = ev.from \/ ev.from \in deserted

\* The event carries the low half of the id of the cgroup it came from.
Stamped(ev) == ev.id = Low[ev.from]

\* An answer that an id accounts for, unless a process has left a cgroup of it.
Fits(i, a) == \E cg \in Sharing(i) : cg \in deserted \/ Explains(cg, a)

\* The inductive invariant: what waits, what is looked up and what is cached
\* can be traced to a process that is, or was, in a cgroup of the id.
MapInv ==
    /\ TypeOK
    /\ \A n \in DOMAIN ring : From(ring[n]) /\ Stamped(ring[n])
    /\ Stamped(look.ev)
    /\ look.pc \in {"check", "read"} => From(look.ev)
    /\ look.pc = "query" =>
         /\ look.answer.of \in Containers
         /\ look.ev.from \in deserted \/ look.answer.of = Shown(look.ev.from)
    /\ look.pc = "done" => Fits(look.ev.id, look.answer)
    /\ \A i \in Ids : cache[i].left > 0 => Fits(i, cache[i].answer)

\* An answer for a cgroup that is, or was, a process's fits its id.
LEMMA FitsFrom ==
    ASSUME NEW cg \in Cgroups, NEW a, cg \in deserted \/ Explains(cg, a)
    PROVE  Fits(Low[cg], a)
BY DEF Fits, Sharing

\* The shown container depends on the mapper, which stays what it is, and
\* cgroups stay deserted, so what fits keeps fitting.
LEMMA FitsKept ==
    ASSUME deserted \subseteq deserted', legacy' = legacy
    PROVE  /\ \A i, a : Fits(i, a) => Fits(i, a)'
           /\ \A cg : Shown(cg)' = Shown(cg)
<1>1. ASSUME NEW cg PROVE Shown(cg)' = Shown(cg)
  BY DEF Shown, Recognised
<1>2. ASSUME NEW cg, NEW a, Explains(cg, a) PROVE Explains(cg, a)'
  BY <1>1, <1>2 DEF Explains
<1>3. ASSUME NEW i, NEW a, Fits(i, a) PROVE Fits(i, a)'
  <2>1. PICK cg \in Sharing(i) : cg \in deserted \/ Explains(cg, a)
    BY <1>3 DEF Fits
  <2>2. cg \in deserted' \/ Explains(cg, a)'
    BY <1>2, <2>1
  <2> QED
    BY <2>1, <2>2 DEF Fits, Sharing
<1> QED
  BY <1>1, <1>3

\* The start.
LEMMA MapInit == Init => MapInv
<1> SUFFICES ASSUME Init PROVE MapInv
  OBVIOUS
<1>1. PICK cg \in Cgroups, p \in Pids :
        look = [pc |-> "idle", ev |-> [id |-> Low[cg], pid |-> p, from |-> cg],
                answer |-> NoContainer]
  BY DEF Init
<1>2. look \in Look /\ look.ev.id = Low[look.ev.from]
  BY <1>1, AnswerTypes, MapAssumption DEF Look, Event
<1>3. cache \in [Ids -> Entry] /\ \A i \in Ids : cache[i].left = 0
  BY AnswerTypes DEF Init
<1>4. /\ where \in [Pids -> Cgroups \union {Gone}]
      /\ deserted = {} /\ up \subseteq Services
      /\ ring = <<>> /\ legacy \in BOOLEAN
  BY DEF Init
<1>5. detected \in {"docker", "cri", "unknown"}
  BY DEF Init
<1>6. TypeOK
  BY <1>2, <1>3, <1>4, <1>5 DEF TypeOK, Look, Entry
<1> QED
  BY <1>1, <1>2, <1>3, <1>4, <1>6 DEF MapInv, Stamped

\* Processes that leave a cgroup are remembered, so nothing that was traced to
\* it becomes untraceable.
LEMMA WorldKeeps ==
    ASSUME MapInv, NEW p \in Pids, NEW d \in Cgroups \union {Gone},
           where[p] # d,
           where' = [where EXCEPT ![p] = d],
           deserted' = deserted \union ({where[p]} \ {Gone}),
           UNCHANGED <<up, agent>>
    PROVE  MapInv'
<1>1. TypeOK'
  BY DEF MapInv, TypeOK, agent
<1>2. ASSUME NEW ev \in Event, From(ev) PROVE From(ev)'
  <2>1. CASE ev.pid = p /\ where[p] = ev.from
    BY <2>1, MapAssumption DEF From, Event
  <2>2. CASE ev.pid # p
    BY <1>2, <2>2 DEF From, Event, MapInv, TypeOK
  <2>3. CASE ev.from \in deserted
    BY <2>3 DEF From
  <2> QED
    BY <1>2, <2>1, <2>2, <2>3 DEF From
<1>3. /\ deserted \subseteq deserted' /\ legacy' = legacy
      /\ \A i, a : Fits(i, a) => Fits(i, a)'
      /\ \A cg : Shown(cg)' = Shown(cg)
  BY FitsKept DEF agent
<1>4. \A n \in DOMAIN ring : \A ev : ev = ring[n] => From(ev)'
  BY <1>2 DEF MapInv, TypeOK
<1>5. ASSUME look.pc \in {"check", "read"}, NEW ev, ev = look.ev PROVE From(ev)'
  BY <1>2, <1>5 DEF MapInv, TypeOK
<1>6. \A n \in DOMAIN ring' : From(ring[n])' /\ Stamped(ring[n])'
  BY <1>4 DEF MapInv, From, Stamped, agent
<1>7. Stamped(look.ev)' /\ (look'.pc \in {"check", "read"} => From(look.ev)')
  BY <1>5 DEF MapInv, From, Stamped, agent
<1>8. look'.pc = "query" =>
        /\ look'.answer.of \in Containers
        /\ look'.ev.from \in deserted' \/ look'.answer.of = Shown(look.ev.from)'
  <2>1. look' = look
    BY DEF agent
  <2>2. Shown(look.ev.from)' = Shown(look.ev.from)
    BY <1>3, <2>1 DEF Shown, Recognised
  <2> QED
    BY <1>3, <2>1, <2>2 DEF MapInv
<1>9. look'.pc = "done" => Fits(look.ev.id, look.answer)'
  <2>1. look' = look
    BY DEF agent
  <2>2. ASSUME NEW i, NEW a, i = look.ev.id, a = look.answer, look.pc = "done"
        PROVE  Fits(i, a)'
    BY <1>3, <2>2 DEF MapInv
  <2> QED
    BY <2>1, <2>2 DEF Fits, Sharing, Explains
<1>10. ASSUME NEW i \in Ids, cache'[i].left > 0 PROVE Fits(i, cache[i].answer)'
  <2>1. cache' = cache
    BY DEF agent
  <2>2. ASSUME NEW a, a = cache[i].answer PROVE Fits(i, a)'
    BY <1>3, <1>10, <2>1, <2>2 DEF MapInv
  <2> QED
    BY <2>1, <2>2 DEF Fits, Sharing, Explains
<1> QED
  BY <1>1, <1>6, <1>7, <1>8, <1>9, <1>10 DEF MapInv

\* A step of the agent, with the world as it is.
LEMMA LookupKeeps ==
    ASSUME MapInv, Lookup
    PROVE  MapInv'
<1>0. /\ TypeOK /\ look \in Look /\ look.ev \in Event /\ look.ev.id \in Ids
      /\ look.ev.from \in Cgroups /\ look.ev.pid \in Pids
      /\ cache \in [Ids -> Entry]
      /\ look.ev.id = Low[look.ev.from]
  BY DEF MapInv, TypeOK, Look, Event, Entry, Stamped
<1>w. UNCHANGED <<where, deserted, up, legacy, detected>>
  BY DEF Lookup, TakeEvent, CheckCache, ReadCgroup, QueryRuntime, world
<1>f. /\ \A i, a : Fits(i, a) => Fits(i, a)'
      /\ \A cg : Shown(cg)' = Shown(cg)
  BY <1>w, FitsKept
<1>c. ASSUME NEW a \in Answer, Fits(look.ev.id, a),
             cache' \in [Ids -> Entry],
             \A i \in Ids : \/ cache'[i] = cache[i]
                            \/ i = look.ev.id /\ cache'[i].answer = a
      PROVE  \A i \in Ids : cache'[i].left > 0 => Fits(i, cache[i].answer)'
  <2> SUFFICES ASSUME NEW i \in Ids, cache'[i].left > 0
               PROVE  Fits(i, cache[i].answer)'
    OBVIOUS
  <2>1. PICK b : b = cache'[i].answer
    OBVIOUS
  <2>2. Fits(i, b)
    BY <1>c, <2>1 DEF MapInv
  <2>3. Fits(i, b)'
    BY <1>f, <2>2
  <2> QED
    BY <2>1, <2>3 DEF Fits, Sharing, Explains
<1>d. ASSUME NEW a \in Answer, Fits(look.ev.id, a),
             look' \in Look, look'.pc = "done", look'.ev = look.ev, look'.answer = a
      PROVE  Fits(look.ev.id, look.answer)'
  <2>1. PICK i : i = look.ev.id
    OBVIOUS
  <2>2. Fits(i, a)'
    BY <1>d, <1>f, <2>1
  <2> QED
    BY <1>d, <2>1, <2>2 DEF Fits, Sharing, Explains
<1>1. CASE TakeEvent
  <2>1. /\ ring # <<>> /\ ring' = Tail(ring) /\ UNCHANGED cache
        /\ look' = [pc |-> "check", ev |-> Head(ring), answer |-> NoContainer]
    BY <1>1 DEF TakeEvent
  <2>2. /\ Head(ring) \in Event /\ Head(ring) = ring[1] /\ 1 \in DOMAIN ring
        /\ Tail(ring) \in Seq(Event)
        /\ \A n \in DOMAIN Tail(ring) : /\ n + 1 \in DOMAIN ring
                                        /\ Tail(ring)[n] = ring[n + 1]
    BY <1>0, <2>1 DEF TypeOK
  <2>3. TypeOK'
    BY <1>0, <1>w, <2>1, <2>2, AnswerTypes DEF TypeOK
  <2>4. \A n \in DOMAIN ring' : From(ring[n])' /\ Stamped(ring[n])'
    BY <1>w, <2>1, <2>2 DEF MapInv, From, Stamped
  <2>5. Stamped(look.ev)' /\ From(look.ev)' /\ look'.pc = "check"
    BY <1>w, <2>1, <2>2 DEF MapInv, From, Stamped
  <2>6. \A i \in Ids : cache'[i].left > 0 => Fits(i, cache[i].answer)'
    <3> SUFFICES ASSUME NEW i \in Ids, cache'[i].left > 0
                 PROVE  Fits(i, cache[i].answer)'
      OBVIOUS
    <3>1. PICK b : b = cache[i].answer
      OBVIOUS
    <3>2. Fits(i, b)'
      BY <1>f, <2>1, <3>1 DEF MapInv
    <3> QED
      BY <2>1, <3>1, <3>2 DEF Fits, Sharing, Explains
  <2> QED
    BY <2>3, <2>4, <2>5, <2>6 DEF MapInv
<1>r. ASSUME UNCHANGED ring
      PROVE  \A n \in DOMAIN ring' : From(ring[n])' /\ Stamped(ring[n])'
  BY <1>w, <1>r DEF MapInv, From, Stamped
<1>s. ASSUME look'.ev = look.ev PROVE Stamped(look.ev)'
  BY <1>0, <1>s DEF Stamped
<1>2. CASE CheckCache
  <2>0. UNCHANGED <<ring, cache>>
    BY <1>2 DEF CheckCache
  <2>1. CASE cache[look.ev.id].left > 0
    <3>1. PICK a : a = cache[look.ev.id].answer
      OBVIOUS
    <3>2. a \in Answer /\ Fits(look.ev.id, a)
      BY <1>0, <2>1, <3>1 DEF Entry, MapInv
    <3>3. look' \in Look /\ look'.pc = "done" /\ look'.ev = look.ev /\ look'.answer = a
      BY <1>0, <1>2, <2>1, <3>1, <3>2, AnsweredEffect DEF CheckCache
    <3>4. TypeOK'
      BY <1>0, <1>w, <2>0, <3>3 DEF TypeOK, Look
    <3>5. \A i \in Ids : cache'[i].left > 0 => Fits(i, cache[i].answer)'
      BY <1>0, <1>c, <2>0, <3>2
    <3>6. Fits(look.ev.id, look.answer)'
      BY <1>d, <3>2, <3>3
    <3> QED
      BY <1>r, <1>s, <2>0, <3>3, <3>4, <3>5, <3>6 DEF MapInv
  <2>2. CASE ~(cache[look.ev.id].left > 0)
    <3>1. /\ look' \in Look /\ look'.pc = "read" /\ look'.ev = look.ev
          /\ look.pc = "check"
      BY <1>0, <1>2, <2>2 DEF CheckCache, Look
    <3>2. TypeOK'
      BY <1>0, <1>w, <2>0, <3>1 DEF TypeOK, Look
    <3>3. From(look.ev)'
      BY <1>w, <3>1 DEF MapInv, From
    <3>4. \A i \in Ids : cache'[i].left > 0 => Fits(i, cache[i].answer)'
      <4> SUFFICES ASSUME NEW i \in Ids, cache'[i].left > 0
                   PROVE  Fits(i, cache[i].answer)'
        OBVIOUS
      <4>1. PICK b : b = cache[i].answer
        OBVIOUS
      <4>2. Fits(i, b)'
        BY <1>f, <2>0, <4>1 DEF MapInv
      <4> QED
        BY <2>0, <4>1, <4>2 DEF Fits, Sharing, Explains
    <3> QED
      BY <1>r, <1>s, <2>0, <3>1, <3>2, <3>3, <3>4 DEF MapInv
  <2> QED
    BY <2>1, <2>2
<1>3. CASE ReadCgroup
  <2>0. /\ UNCHANGED ring
        /\ InProc(look.ev.pid) \in Containers \union {Host}
        /\ \/ look.ev.from \in deserted
           \/ InProc(look.ev.pid) = Shown(look.ev.from)
    <3>1. From(look.ev) /\ UNCHANGED ring
      BY <1>3 DEF ReadCgroup, MapInv
    <3> QED
      BY <1>0, <3>1, InProcType, MapAssumption DEF From, InProc
  <2>1. CASE InProc(look.ev.pid) = Host
    <3>0. NoContainer \in Answer /\ NoContainer.of = Host /\ NoContainer.as = "none"
      BY AnswerTypes
    <3>1. Answered(NoContainer) /\ (Store(NoContainer) \/ UNCHANGED cache)
      BY <1>3, <2>1 DEF ReadCgroup
    <3>2. /\ look' \in Look /\ look'.pc = "done" /\ look'.ev = look.ev
          /\ look'.answer = NoContainer
      BY <1>0, <3>0, <3>1, AnsweredEffect
    <3>3. Fits(look.ev.id, NoContainer)
      <4>1. look.ev.from \in deserted \/ Explains(look.ev.from, NoContainer)
        BY <2>0, <2>1, <3>0 DEF Explains
      <4> QED
        BY <1>0, <4>1, FitsFrom
    <3>4. /\ cache' \in [Ids -> Entry]
          /\ \A i \in Ids : \/ cache'[i] = cache[i]
                            \/ i = look.ev.id /\ cache'[i].answer = NoContainer
      <4>1. CASE UNCHANGED cache
        BY <1>0, <4>1
      <4>2. CASE Store(NoContainer)
        <5>1. /\ cache' \in [Ids -> Entry]
              /\ \A i \in Ids : cache'[i] = IF i = look.ev.id
                                         THEN [left |-> TTL, answer |-> NoContainer]
                                         ELSE cache[i]
          BY <1>0, <3>0, <4>2, StoreEffect
        <5> QED
          BY <5>1
      <4> QED
        BY <3>1, <4>1, <4>2
    <3>5. TypeOK'
      BY <1>0, <1>w, <2>0, <3>2, <3>4 DEF TypeOK, Look, Entry
    <3>6. \A i \in Ids : cache'[i].left > 0 => Fits(i, cache[i].answer)'
      BY <1>c, <3>0, <3>3, <3>4
    <3>7. Fits(look.ev.id, look.answer)'
      BY <1>d, <3>0, <3>2, <3>3
    <3> QED
      BY <1>r, <1>s, <2>0, <3>2, <3>5, <3>6, <3>7 DEF MapInv
  <2>2. CASE InProc(look.ev.pid) # Host
    <3>1. /\ look' = [look EXCEPT !.pc = "query", !.answer.of = InProc(look.ev.pid)]
          /\ UNCHANGED cache
      BY <1>3, <2>2 DEF ReadCgroup
    <3>2. /\ look' \in Look /\ look'.pc = "query" /\ look'.ev = look.ev
          /\ look'.answer.of = InProc(look.ev.pid)
      BY <1>0, <2>0, <3>1 DEF Look, Answer
    <3>3. TypeOK'
      BY <1>0, <1>w, <2>0, <3>1, <3>2 DEF TypeOK, Look
    <3>4. /\ look'.answer.of \in Containers
          /\ look'.ev.from \in deserted' \/ look'.answer.of = Shown(look.ev.from)'
      <4>1. Shown(look.ev.from)' = Shown(look.ev.from)
        BY <1>w, <3>2 DEF Shown, Recognised
      <4> QED
        BY <1>w, <2>0, <2>2, <3>2, <4>1
    <3>5. \A i \in Ids : cache'[i].left > 0 => Fits(i, cache[i].answer)'
      <4> SUFFICES ASSUME NEW i \in Ids, cache'[i].left > 0
                   PROVE  Fits(i, cache[i].answer)'
        OBVIOUS
      <4>1. PICK b : b = cache[i].answer
        OBVIOUS
      <4>2. Fits(i, b)'
        BY <1>f, <3>1, <4>1 DEF MapInv
      <4> QED
        BY <3>1, <4>1, <4>2 DEF Fits, Sharing, Explains
    <3> QED
      BY <1>r, <1>s, <2>0, <3>2, <3>3, <3>4, <3>5 DEF MapInv
  <2> QED
    BY <2>1, <2>2
<1>4. CASE QueryRuntime
  <2>1. /\ Answered(NameOf(look.answer.of)) /\ Store(NameOf(look.answer.of))
        /\ UNCHANGED ring
        /\ look.answer.of \in Containers
        /\ look.ev.from \in deserted \/ look.answer.of = Shown(look.ev.from)
    BY <1>4 DEF QueryRuntime, MapInv
  <2>2. PICK a : a = NameOf(look.answer.of)
    OBVIOUS
  <2>3. /\ a \in Answer
        /\ a.as = "self" => look.answer.of \in PodUid
        /\ a.as # "self" => a.of = look.answer.of
    BY <2>1, <2>2, NameOfAnswer
  <2>4. Fits(look.ev.id, a)
    <3>1. look.ev.from \in deserted \/ Explains(look.ev.from, a)
      BY <1>0, <2>1, <2>3, MapAssumption DEF Explains, Shown
    <3> QED
      BY <1>0, <3>1, FitsFrom
  <2>5. look' \in Look /\ look'.pc = "done" /\ look'.ev = look.ev /\ look'.answer = a
    BY <1>0, <2>1, <2>2, <2>3, AnsweredEffect
  <2>6. /\ cache' \in [Ids -> Entry]
        /\ \A i \in Ids : \/ cache'[i] = cache[i]
                          \/ i = look.ev.id /\ cache'[i].answer = a
    <3>1. Store(a)
      BY <2>1, <2>2 DEF Store
    <3>2. /\ cache' \in [Ids -> Entry]
          /\ \A i \in Ids : cache'[i] = IF i = look.ev.id
                                     THEN [left |-> TTL, answer |-> a] ELSE cache[i]
      BY <1>0, <2>3, <3>1, StoreEffect
    <3> QED
      BY <3>2
  <2>7. TypeOK'
    BY <1>0, <1>w, <2>1, <2>5, <2>6 DEF TypeOK, Look, Entry
  <2>8. \A i \in Ids : cache'[i].left > 0 => Fits(i, cache[i].answer)'
    BY <1>c, <2>3, <2>4, <2>6
  <2>9. Fits(look.ev.id, look.answer)'
    BY <1>d, <2>3, <2>4, <2>5
  <2> QED
    BY <1>r, <1>s, <2>1, <2>5, <2>7, <2>8, <2>9 DEF MapInv
<1> QED
  BY <1>1, <1>2, <1>3, <1>4 DEF Lookup

\* Every step keeps the invariant.
LEMMA MapNext ==
    ASSUME MapInv, [Next]_vars
    PROVE  MapInv'
<1>1. CASE Lookup
  BY <1>1, LookupKeeps
<1>2. ASSUME NEW p \in Pids, NEW cg \in Cgroups, Move(p, cg) PROVE MapInv'
  BY <1>2, WorldKeeps DEF Move
<1>3. ASSUME NEW p \in Pids, Exit(p) PROVE MapInv'
  <2>1. {where[p]} \ {Gone} = {where[p]}
    BY <1>3 DEF Exit
  <2> QED
    BY <1>3, <2>1, WorldKeeps DEF Exit
<1>4. CASE \E s \in Services : RuntimeChanges(s)
  <2>1. TypeOK'
    BY <1>4 DEF MapInv, TypeOK, RuntimeChanges, agent
  <2> QED
    BY <1>4, <2>1 DEF MapInv, From, Stamped, Fits, Sharing, Explains, Shown,
                      Recognised, RuntimeChanges, agent
<1>5. ASSUME NEW p \in Pids, Syscall(p) PROVE MapInv'
  <2>1. PICK e : e = [id |-> Low[where[p]], pid |-> p, from |-> where[p]]
    OBVIOUS
  <2>2. e \in Event /\ where[e.pid] = e.from /\ e.id = Low[e.from]
    BY <1>5, <2>1, MapAssumption DEF MapInv, TypeOK, Syscall, Event
  <2>3. ring' = Append(ring, e) /\ ring \in Seq(Event)
    BY <1>5, <2>1 DEF MapInv, TypeOK, Syscall
  <2>4. /\ ring' \in Seq(Event)
        /\ \A n \in DOMAIN ring' : \/ n \in DOMAIN ring /\ ring'[n] = ring[n]
                                 \/ ring'[n] = e
    BY <2>2, <2>3
  <2>5. TypeOK'
    BY <1>5, <2>4 DEF MapInv, TypeOK, Syscall, world
  <2>6. \A n \in DOMAIN ring' : From(ring[n])' /\ Stamped(ring[n])'
    BY <1>5, <2>2, <2>4 DEF MapInv, From, Stamped, Syscall, world
  <2> QED
    BY <1>5, <2>5, <2>6 DEF MapInv, From, Stamped, Fits, Sharing, Explains, Shown,
                           Recognised, Syscall, world
<1>6. CASE Tick
  <2>1. cache \in [Ids -> Entry]
    BY DEF MapInv, TypeOK, Entry
  <2>2. ASSUME NEW i \in Ids
        PROVE  /\ cache'[i] \in Entry
               /\ cache'[i].left > 0 => /\ cache[i].left > 0
                                        /\ cache'[i].answer = cache[i].answer
    <3>1. cache'[i] = IF cache[i].left > 1
                         THEN [cache[i] EXCEPT !.left = @ - 1] ELSE Absent
      BY <1>6 DEF Tick
    <3>2. CASE cache[i].left > 1
      BY <2>1, <3>1, <3>2, MapAssumption DEF Entry
    <3>3. CASE ~(cache[i].left > 1)
      BY <3>1, <3>3, AnswerTypes
    <3> QED
      BY <3>2, <3>3
  <2>3. cache' \in [Ids -> Entry]
    BY <1>6, <2>2 DEF Tick
  <2>4. TypeOK'
    BY <1>6, <2>3 DEF MapInv, TypeOK, Tick, Entry, world
  <2>5. UNCHANGED <<where, deserted, legacy, ring, look>>
    BY <1>6 DEF Tick, world
  <2>6. ASSUME NEW i \in Ids, cache'[i].left > 0 PROVE Fits(i, cache[i].answer)'
    <3>1. PICK b : b = cache[i].answer
      OBVIOUS
    <3>2. Fits(i, b)
      BY <2>2, <2>6, <3>1 DEF MapInv
    <3>3. Fits(i, b)'
      BY <2>5, <3>2, FitsKept
    <3> QED
      BY <2>2, <2>6, <3>1, <3>3 DEF Fits, Sharing, Explains
  <2> QED
    BY <2>4, <2>5, <2>6 DEF MapInv, From, Stamped, Fits, Sharing, Explains, Shown,
                            Recognised
<1>7. CASE UNCHANGED vars
  BY <1>7 DEF MapInv, TypeOK, From, Stamped, Fits, Sharing, Explains, Shown,
              Recognised, vars
<1> QED
  BY <1>1, <1>2, <1>3, <1>4, <1>5, <1>6, <1>7 DEF Next, World

\* The invariant of every behaviour.
LEMMA MapInvAlways == Spec => []MapInv
<1>1. MapInv /\ [Next]_vars => MapInv'
  BY MapNext
<1> QED
  BY MapInit, <1>1, PTL DEF Spec

\* Processes, cache entries and answers keep their shapes (getContainerName).
THEOREM MapTypes == Spec => []TypeOK
<1>1. MapInv => TypeOK
  BY DEF MapInv
<1> QED
  BY MapInvAlways, <1>1, PTL

\* An event is given a name its truncated cgroup id accounts for, unless a
\* process has left a cgroup with that id, for any cache, queue, runtime, pods
\* and collisions of ids (getContainerName).
THEOREM EventsAttributed == Spec => []AttributedById
<1>1. MapInv => AttributedById
  BY DEF MapInv, Fits, AttributedById
<1> QED
  BY MapInvAlways, <1>1, PTL

=============================================================================
