------------------------------- MODULE Agent -------------------------------
(***************************************************************************)
(* The user-space agent of agent/src/agent.cpp: per-container buffers with  *)
(* a short window of events and an optional long dump to a file.            *)
(*                                                                         *)
(* Two threads work on the buffers and share no lock:                       *)
(*   - the event loop (Agent::run) takes one event at a time from the ring  *)
(*     and runs handleEvent on it;                                          *)
(*   - the command thread (AgentServer::serverLoop) runs requestLongDump    *)
(*     for the requests it receives.                                        *)
(* A handler is cut into steps where the other thread can be observed: at   *)
(* every blocking call (an HTTP POST, opening a file) and between the       *)
(* assignments whose order matters to the other thread.  Timestamps are     *)
(* unsigned and subtraction wraps, as uint64_t does.                        *)
(***************************************************************************)
EXTENDS KernelEvents, Integers, FiniteSets

CONSTANTS Durations,         \* duration_sec values that requests carry
          SafeId,            \* sanitizeContainerId: not injective
          Unmatched,         \* containers DK_CONTAINER_FILTER rejects
          ShortWindow,       \* config_.shortWindowSec
          MinEvents,         \* config_.minEventsPerWindow
          CleanupInterval,   \* kCleanupIntervalNs
          InactiveThreshold, \* kInactiveThresholdNs
          MaxRequests        \* bound: dump requests in one behaviour

ASSUME AgentAssumption ==
    /\ Durations \subseteq Nat
    /\ DOMAIN SafeId = Containers
    /\ Unmatched \subseteq Containers
    /\ "none" \notin Containers       \* stands for no container
    /\ ShortWindow \in Nat
    /\ MinEvents \in Nat
    /\ CleanupInterval \in Nat
    /\ InactiveThreshold \in Nat
    /\ MaxRequests \in Nat

VARIABLES
    buffers,      \* buffers_, total on Containers: an absent entry is EmptyBuffer
    known,        \* the keys of buffers_
    lastCleanup,  \* lastBufferCleanupNs_
    files,        \* what was written to each dump path since it was created
    loop,         \* the event loop: pc and the locals of handleEvent
    cmd,          \* the command thread: pc and the locals of requestLongDump
    \* History, read by no action: what the outside world has seen.
    accepted,     \* events pushed into a window, per container
    flushed,      \* events that left in a posted window, per container
    dumps,        \* long dumps made active, per container
    notified,     \* completion notices posted, per container
    notice        \* the latest completion notice

agentVars == <<buffers, known, lastCleanup, files, loop, cmd>>
historyVars == <<accepted, flushed, dumps, notified, notice>>
vars == <<kernelVars, agentVars, historyVars>>

\* The distance from b to a in uint64_t arithmetic.  Timestamps stay below
\* MaxClock, so every wrapped difference is larger than every true one.
TsModulus == 4 * (MaxClock + InactiveThreshold + CleanupInterval + ShortWindow + 1)
SignedMinus(a, b) == a - b        \* mutation: signed arithmetic
Minus(a, b) == (a - b) % TsModulus

\* A dump file is named after its container, with every character the file
\* system may not like replaced, and the second of the request.
Path == {SafeId[c] : c \in Containers} \X Ts
PathOf(c, t) == <<SafeId[c], t>>
NoPath == <<>>

Item == [kind : {"header", "record"}, ts : Nat]
HeaderItem(ts) == [kind |-> "header", ts |-> ts]
RecordItem(delta) == [kind |-> "record", ts |-> delta]

Buffer ==
    [window    : Seq(Ts),        \* currentShortWindow: the events' timestamps
     winStart  : Ts,             \* windowStartTsNs
     lastEvent : Ts,             \* lastEventTsNs
     active    : BOOLEAN,        \* isLongDumpActive
     start     : Ts,             \* longDumpStartTsNs
     end       : Nat,            \* longDumpEndTsNs
     lastDump  : Ts,             \* lastDumpTsNs
     stream    : {"closed", "open", "failed"},  \* longDumpStream
     file      : Path \union {NoPath},          \* the file it is attached to
     path      : Path \union {NoPath},          \* longDumpFilePath
     count     : Nat,            \* longDumpRecordCount
     duration  : Nat]            \* longDumpDurationSec

EmptyBuffer ==
    [window |-> <<>>, winStart |-> 0, lastEvent |-> 0, active |-> FALSE,
     start |-> 0, end |-> 0, lastDump |-> 0, stream |-> "closed",
     file |-> NoPath, path |-> NoPath, count |-> 0, duration |-> 0]

\* A stream that is attached and in good state takes a write; a failed or a
\* closed one drops it without telling the caller.
Write(b, item) ==
    IF b.stream = "open" THEN [files EXCEPT ![b.file] = Append(@, item)]
                         ELSE files

Notice == [c : Containers, path : Path \union {NoPath}, count : Nat,
           duration : Nat, at : Ts]
NoNotice == [c |-> "none"]

\* ofstream::close detaches the stream from its file.
CloseStream(b) == [b EXCEPT !.stream = "closed", !.file = NoPath]

-----------------------------------------------------------------------------
(* The event loop.  loop.pc is the next step of handleEvent; loop.c and      *)
(* loop.ts are its event; loop.entry is the entry of buffers_ it works on:   *)
(* notifyDumpComplete reports it and returns to loop.back, the cleanup       *)
(* erases it.  loop.todo is what a walk over buffers_ has still to visit.    *)

Idle == "none"
LoopPc == {"poll", "append", "window", "post", "expire", "clear", "notify",
           "reset", "cleanup", "sweep", "erase", "stopped"}

Loop == [pc : LoopPc, c : Containers \union {Idle}, ts : Ts,
         entry : Containers \union {Idle}, back : {"window", "expire"},
         todo : SUBSET Containers]

IdleLoop == [pc |-> "poll", c |-> Idle, ts |-> 0, entry |-> Idle,
             back |-> "window", todo |-> {}]

\* handleEvent up to the push: an event the filter rejects is dropped, any
\* other one creates its buffer if needed, opens a window if there is none,
\* and joins it.
HandleEvent ==
    /\ loop.pc = "poll"
    /\ ConsumeSlot
    /\ LET c == Head(ring).container
           t == Head(ring).ts
           b == buffers[c]
       IN  \/ /\ c \in Unmatched
              /\ UNCHANGED <<buffers, known, loop, accepted>>
           \/ /\ c \notin Unmatched
              /\ known' = known \union {c}
              /\ buffers' = [buffers EXCEPT ![c] =
                     [b EXCEPT !.winStart = IF b.window = <<>> THEN t ELSE @,
                               !.lastEvent = t,
                               !.window = Append(@, t)]]
              /\ loop' = [loop EXCEPT !.pc = "append", !.c = c, !.ts = t]
              /\ accepted' = [accepted EXCEPT ![c] = @ + 1]
    /\ UNCHANGED <<lastCleanup, files, cmd, flushed, dumps, notified, notice>>

\* The timestamp a record's delta counts from.
PreviousTs(b) == IF b.lastDump = 0 THEN b.start ELSE b.lastDump

\* appendLongDump: an event at or after the end of the dump ends it, any
\* other one is written and counted, whatever becomes of the write.
AppendLongDump ==
    LET c == loop.c
        b == buffers[c]
        recording == b.active /\ b.stream # "closed"
    IN  /\ loop.pc = "append"
        /\ \/ /\ ~recording
              /\ loop' = [loop EXCEPT !.pc = "window"]
              /\ UNCHANGED <<buffers, files>>
           \/ /\ recording
              /\ loop.ts >= b.end
              /\ buffers' = [buffers EXCEPT ![c] = CloseStream(b)]
              /\ loop' = [loop EXCEPT !.pc = "clear", !.entry = c,
                                      !.back = "window"]
              /\ UNCHANGED files
           \/ /\ recording
              /\ loop.ts < b.end
              /\ files' = Write(b, RecordItem(Minus(loop.ts, PreviousTs(b))))
              /\ buffers' = [buffers EXCEPT ![c] =
                                [b EXCEPT !.lastDump = loop.ts,
                                          !.count = @ + 1]]
              /\ loop' = [loop EXCEPT !.pc = "window"]
        /\ UNCHANGED <<kernelVars, known, lastCleanup, cmd, historyVars>>

LeaveDumpActive ==                 \* mutation: the flag is left set
    /\ loop.pc = "clear"
    /\ loop' = [loop EXCEPT !.pc = "notify"]
    /\ UNCHANGED <<kernelVars, buffers, known, lastCleanup, files, cmd,
                   historyVars>>
\* After the stream, isLongDumpActive is cleared; a request that was accepted
\* in between loses its flag too.
ClearDumpActive ==
    /\ loop.pc = "clear"
    /\ buffers' = [buffers EXCEPT ![loop.entry] = [@ EXCEPT !.active = FALSE]]
    /\ loop' = [loop EXCEPT !.pc = "notify"]
    /\ UNCHANGED <<kernelVars, known, lastCleanup, files, cmd, historyVars>>

\* notifyDumpComplete builds its message from the buffer and POSTs it; the
\* call blocks for up to three timeouts and two pauses.
NotifyDumpComplete ==
    LET b == buffers[loop.entry]
    IN  /\ loop.pc = "notify"
        /\ notice' = [c |-> loop.entry, path |-> b.path, count |-> b.count,
                      duration |-> b.duration, at |-> clock]
        /\ notified' = [notified EXCEPT ![loop.entry] = @ + 1]
        /\ loop' = [loop EXCEPT !.pc = "reset"]
        /\ UNCHANGED <<kernelVars, buffers, known, lastCleanup, files, cmd,
                       accepted, flushed, dumps>>

\* The POST has returned, delivered or not: the dump state is reset.
ResetDumpState ==
    /\ loop.pc = "reset"
    /\ buffers' = [buffers EXCEPT ![loop.entry] =
                      [@ EXCEPT !.path = NoPath, !.count = 0, !.duration = 0]]
    /\ loop' = [loop EXCEPT !.pc = loop.back, !.entry = Idle]
    /\ UNCHANGED <<kernelVars, known, lastCleanup, files, cmd, historyVars>>

WindowDueByCount(b, now) ==        \* mutation: the age is not looked at
    Len(b.window) >= MinEvents
\* The window is due: it is old enough and has enough events.
WindowDue(b, now) ==
    /\ Minus(now, b.winStart) >= ShortWindow
    /\ Len(b.window) >= MinEvents

DecideWindow ==
    /\ loop.pc = "window"
    /\ loop' = IF WindowDue(buffers[loop.c], loop.ts)
                 THEN [loop EXCEPT !.pc = "post"]
                 ELSE [loop EXCEPT !.pc = "expire", !.todo = known]
    /\ UNCHANGED <<kernelVars, buffers, known, lastCleanup, files, cmd,
                   historyVars>>

\* processShortWindow: POST the window, and start over whatever the outcome.
ProcessShortWindow ==
    LET c == loop.c
        b == buffers[c]
    IN  /\ loop.pc = "post"
        /\ flushed' = [flushed EXCEPT ![c] = @ + Len(b.window)]
        /\ buffers' = [buffers EXCEPT ![c] =
                          [b EXCEPT !.window = <<>>, !.winStart = 0]]
        /\ loop' = [loop EXCEPT !.pc = "expire", !.todo = known]
        /\ UNCHANGED <<kernelVars, known, lastCleanup, files, cmd, accepted,
                       dumps, notified, notice>>

Expired(b, now) == b.active /\ now >= b.end

\* stopExpiredLongDumps visits every buffer, in the order of the hash table,
\* and ends and reports each dump that is over.
StopExpiredLongDump(c) ==
    /\ loop.pc = "expire"
    /\ c \in loop.todo
    /\ IF Expired(buffers[c], loop.ts)
         THEN /\ buffers' = [buffers EXCEPT ![c] = CloseStream(@)]
              /\ loop' = [loop EXCEPT !.pc = "clear", !.entry = c,
                                      !.back = "expire", !.todo = @ \ {c}]
         ELSE /\ loop' = [loop EXCEPT !.todo = @ \ {c}]
              /\ UNCHANGED buffers
    /\ UNCHANGED <<kernelVars, known, lastCleanup, files, cmd, historyVars>>

ExpiredAllVisited ==
    /\ loop.pc = "expire"
    /\ loop.todo = {}
    /\ loop' = [loop EXCEPT !.pc = "cleanup"]
    /\ UNCHANGED <<kernelVars, buffers, known, lastCleanup, files, cmd,
                   historyVars>>

RemovableWhileDumping(b, now) ==   \* mutation: an active dump is ignored
    /\ Minus(now, b.lastEvent) > InactiveThreshold
    /\ b.window = <<>>
RemovableWithEvents(b, now) ==     \* mutation: a waiting window is ignored
    /\ Minus(now, b.lastEvent) > InactiveThreshold
    /\ ~b.active
Removable(b, now) ==
    /\ Minus(now, b.lastEvent) > InactiveThreshold
    /\ ~b.active
    /\ b.window = <<>>

CleanupDue(now) == Minus(now, lastCleanup) >= CleanupInterval

\* cleanupInactiveBuffers: not before the interval has passed.
CleanupInactiveBuffers ==
    /\ loop.pc = "cleanup"
    /\ \/ /\ ~CleanupDue(loop.ts)
          /\ loop' = IdleLoop
          /\ UNCHANGED lastCleanup
       \/ /\ CleanupDue(loop.ts)
          /\ lastCleanup' = loop.ts
          /\ loop' = [loop EXCEPT !.pc = "sweep", !.todo = known]
    /\ UNCHANGED <<kernelVars, buffers, known, files, cmd, historyVars>>

\* The walk of the cleanup reads one entry's fields.  An entry that a request
\* has just created has no event and counts as silent since time 0.
InspectBuffer(c) ==
    /\ loop.pc = "sweep"
    /\ c \in loop.todo
    /\ loop' = IF Removable(buffers[c], loop.ts)
                 THEN [loop EXCEPT !.pc = "erase", !.entry = c, !.todo = @ \ {c}]
                 ELSE [loop EXCEPT !.todo = @ \ {c}]
    /\ UNCHANGED <<kernelVars, buffers, known, lastCleanup, files, cmd,
                   historyVars>>

\* The command thread is inside requestLongDump with a reference to c's entry.
Holding(c) == cmd.c = c /\ cmd.pc # "dangling"

\* The entry is erased as it is now: a dump that was made active since it was
\* inspected goes with it.  Erasing destroys the entry's stream; a reference
\* the command thread holds to the entry dangles from then on.
EraseBuffer ==
    LET c == loop.entry
    IN  /\ loop.pc = "erase"
        /\ known' = known \ {c}
        /\ buffers' = [buffers EXCEPT ![c] = EmptyBuffer]
        /\ cmd' = IF Holding(c)
                    THEN [cmd EXCEPT !.pc = "dangling", !.then = cmd.pc]
                    ELSE cmd
        /\ loop' = [loop EXCEPT !.pc = "sweep", !.entry = Idle, !.todo = @ \ {c}]
        /\ UNCHANGED <<kernelVars, lastCleanup, files, historyVars>>

SweepDone ==
    /\ loop.pc = "sweep"
    /\ loop.todo = {}
    /\ loop' = IdleLoop
    /\ UNCHANGED <<kernelVars, buffers, known, lastCleanup, files, cmd,
                   historyVars>>

\* run() leaves its loop on SIGINT or SIGTERM, or when polling fails.
SignalStop ==
    /\ loop.pc = "poll"
    /\ loop' = [loop EXCEPT !.pc = "stopped"]
    /\ UNCHANGED <<kernelVars, buffers, known, lastCleanup, files, cmd,
                   historyVars>>

-----------------------------------------------------------------------------
(* The command thread.  cmd.pc is the next step of requestLongDump for the   *)
(* container cmd.c; cmd.seen counts the requests to bound the model.         *)

Working == {"open", "activate", "describe", "header"}
CmdPc == Working \union {"idle", "dangling"}

Cmd == [pc : CmdPc, then : Working, c : Containers \union {Idle},
        duration : Nat, path : Path \union {NoPath}, seen : 0 .. MaxRequests]

IdleCmd == [pc |-> "idle", then |-> "open", c |-> Idle, duration |-> 0,
            path |-> NoPath, seen |-> 0]

Return == [IdleCmd EXCEPT !.seen = cmd.seen]

\* The event loop is in the middle of a walk over the hash table.
Walking == \/ loop.pc \in {"expire", "sweep", "erase"}
           \/ loop.pc \in {"clear", "notify", "reset"} /\ loop.back = "expire"

\* POST /long-dump-requests: handleClient calls the handler, which looks its
\* buffer up, or creates it, and names the dump file.  Creating it may rehash
\* the table under a walk of the event loop, which then meets any of the
\* entries again and may miss any of those it has not met.
RequestLongDump(c, d) ==
    /\ cmd.pc = "idle"
    /\ loop.pc # "stopped"
    /\ cmd.seen < MaxRequests
    /\ known' = known \union {c}
    /\ IF c \notin known /\ Walking
         THEN \E rest \in SUBSET known' : loop' = [loop EXCEPT !.todo = rest]
         ELSE UNCHANGED loop
    /\ cmd' = [pc |-> "open", then |-> "open", c |-> c, duration |-> d,
               path |-> PathOf(c, clock), seen |-> cmd.seen + 1]
    /\ UNCHANGED <<kernelVars, buffers, lastCleanup, files, historyVars>>

\* ofstream::open: a closed stream is attached to the truncated file, or the
\* file cannot be created and the handler returns; a stream that is already
\* open keeps its file and only enters the failed state, and is_open() still
\* holds.
OpenDumpFile ==
    LET c == cmd.c
        b == buffers[c]
    IN  /\ cmd.pc = "open"
        /\ \/ /\ b.stream = "closed"
              /\ buffers' = [buffers EXCEPT ![c] =
                                [b EXCEPT !.stream = "open", !.file = cmd.path]]
              /\ files' = [files EXCEPT ![cmd.path] = <<>>]
              /\ cmd' = [cmd EXCEPT !.pc = "activate"]
           \/ /\ b.stream = "closed"
              /\ cmd' = Return
              /\ UNCHANGED <<buffers, files>>
           \/ /\ b.stream # "closed"
              /\ buffers' = [buffers EXCEPT ![c].stream = "failed"]
              /\ cmd' = [cmd EXCEPT !.pc = "activate"]
              /\ UNCHANGED files
        /\ UNCHANGED <<kernelVars, known, lastCleanup, loop, historyVars>>

\* The dump starts at the container's latest event, or now if it has none.
DumpStart(b) == IF b.lastEvent # 0 THEN b.lastEvent ELSE clock

ActivateDump ==
    LET c == cmd.c
        s == DumpStart(buffers[c])
    IN  /\ cmd.pc = "activate"
        /\ buffers' = [buffers EXCEPT ![c] =
                          [@ EXCEPT !.start = s, !.end = s + cmd.duration,
                                    !.lastDump = 0, !.active = TRUE]]
        /\ dumps' = [dumps EXCEPT ![c] = @ + 1]
        /\ cmd' = [cmd EXCEPT !.pc = "describe"]
        /\ UNCHANGED <<kernelVars, known, lastCleanup, files, loop, accepted,
                       flushed, notified, notice>>

DescribeDump ==
    /\ cmd.pc = "describe"
    /\ buffers' = [buffers EXCEPT ![cmd.c] =
                      [@ EXCEPT !.path = cmd.path, !.count = 0,
                                !.duration = cmd.duration]]
    /\ cmd' = [cmd EXCEPT !.pc = "header"]
    /\ UNCHANGED <<kernelVars, known, lastCleanup, files, loop, historyVars>>

WriteHeader ==
    LET b == buffers[cmd.c]
    IN  /\ cmd.pc = "header"
        /\ files' = Write(b, HeaderItem(b.start))
        /\ cmd' = Return
        /\ UNCHANGED <<kernelVars, buffers, known, lastCleanup, loop,
                       historyVars>>

\* The entry was erased under the command thread: its accesses go to freed
\* memory.  Nothing the agent still uses is hit; or the memory holds the entry
\* of another container by now, and the rest of the request is done to it; or
\* the process dies.
UseErasedBuffer ==
    /\ cmd.pc = "dangling"
    /\ \/ cmd' = Return /\ UNCHANGED loop
       \/ \E c \in known : /\ cmd' = [cmd EXCEPT !.pc = cmd.then, !.c = c]
                           /\ UNCHANGED loop
       \/ cmd' = Return /\ loop' = [loop EXCEPT !.pc = "stopped"]
    /\ UNCHANGED <<kernelVars, buffers, known, lastCleanup, files, historyVars>>

-----------------------------------------------------------------------------

Init ==
    /\ KernelInit
    /\ buffers = [c \in Containers |-> EmptyBuffer]
    /\ known = {}
    /\ lastCleanup = 0
    /\ files = [p \in Path |-> <<>>]
    /\ loop = IdleLoop
    /\ cmd = IdleCmd
    /\ accepted = [c \in Containers |-> 0]
    /\ flushed = [c \in Containers |-> 0]
    /\ dumps = [c \in Containers |-> 0]
    /\ notified = [c \in Containers |-> 0]
    /\ notice = NoNotice

EventLoop ==
    \/ HandleEvent
    \/ AppendLongDump
    \/ ClearDumpActive
    \/ NotifyDumpComplete
    \/ ResetDumpState
    \/ DecideWindow
    \/ ProcessShortWindow
    \/ \E c \in Containers : StopExpiredLongDump(c)
    \/ ExpiredAllVisited
    \/ CleanupInactiveBuffers
    \/ \E c \in Containers : InspectBuffer(c)
    \/ EraseBuffer
    \/ SweepDone
    \/ SignalStop

CommandThread ==
    \/ \E c \in Containers, d \in Durations : RequestLongDump(c, d)
    \/ OpenDumpFile
    \/ ActivateDump
    \/ DescribeDump
    \/ WriteHeader
    \/ UseErasedBuffer

Kernel ==
    /\ loop.pc # "stopped"
    /\ KernelNext
    /\ UNCHANGED <<agentVars, historyVars>>

Next == EventLoop \/ CommandThread \/ Kernel

Spec == Init /\ [][Next]_vars

-----------------------------------------------------------------------------

\* Every variable keeps the shape its declaration in buffer_manager.h and
\* agent.h gives it.
TypeOK ==
    /\ KernelTypeOK
    /\ buffers \in [Containers -> Buffer]
    /\ known \in SUBSET Containers
    /\ lastCleanup \in Ts
    /\ files \in [Path -> Seq(Item)]
    /\ loop \in Loop
    /\ cmd \in Cmd
    /\ accepted \in [Containers -> Nat]
    /\ flushed \in [Containers -> Nat]
    /\ dumps \in [Containers -> Nat]
    /\ notified \in [Containers -> Nat]
    /\ notice \in Notice \union {NoNotice}

\* No event the agent accepted is lost or sent twice by the buffering: it is
\* in its container's window until the window is posted (handleEvent,
\* processShortWindow, cleanupInactiveBuffers).
EventsConserved ==
    \A c \in Containers : accepted[c] = flushed[c] + Len(buffers[c].window)

Reporting(c) == IF loop.pc = "notify" /\ loop.entry = c THEN 1 ELSE 0
Recording(c) == IF buffers[c].active THEN 1 ELSE 0

\* Each dump that was made active is reported at most once, and one that runs
\* is still to be reported, whatever the two threads do to isLongDumpActive.
NoticePerDump ==
    \A c \in Containers :
        notified[c] + Reporting(c) + Recording(c) <= dumps[c]

\* A window goes out only when its events span the configured seconds, or when
\* an event is stamped before the window's first: another CPU reserved its slot
\* earlier and stamped it later, and the unsigned age of the window wraps
\* (handleEvent, processShortWindow; the program of deepkernel.bpf.c).
FlushSpansWindow ==
    loop.pc = "post" =>
        LET w == buffers[loop.c].window
        IN  \/ \E i, j \in DOMAIN w : w[i] + ShortWindow <= w[j]
            \/ \E i \in DOMAIN w : w[i] < w[1]

-----------------------------------------------------------------------------
(* The abstract life of a dump, and where it is found in the agent's state.  *)

Life == INSTANCE DumpLife WITH
            Dumpable <- Containers,
            Nobody <- Idle,
            alive <- loop.pc # "stopped",
            running <- {c \in Containers : buffers[c].active},
            reporting <- IF loop.pc = "notify" THEN loop.entry ELSE Idle,
            leaving <- IF loop.pc = "erase" THEN loop.entry ELSE Idle,
            starts <- dumps,
            reports <- notified

\* Seen from outside, the two threads' unlocked work on isLongDumpActive and
\* on the completion notice is a dump that starts, ends, and is reported
\* before the next one ends; it can be lost without a report only if it was
\* started after cleanupInactiveBuffers had found its buffer removable
\* (requestLongDump, appendLongDump, stopExpiredLongDumps,
\* notifyDumpComplete, cleanupInactiveBuffers).
DumpsFollowLife == Life!Spec

-----------------------------------------------------------------------------
(* What the documents say of long dumps, and the code does not keep.         *)

\* agent/README.md, "Binary Dump File Structure": a file starts with its
\* header and the records follow (requestLongDump, appendLongDump).
HeaderFirst ==
    \A p \in Path : files[p] # <<>> => Head(files[p]).kind = "header"

\* agent/README.md, "Notifies server when a long dump finishes": a dump stops
\* only where the event loop goes on to report it, and no other step silently
\* ends it (notifyDumpComplete, cleanupInactiveBuffers).
DumpEndsWithNotice ==
    [][\A c \in Containers :
          buffers[c].active /\ ~buffers'[c].active
            => loop'.pc = "notify" /\ loop'.entry = c]_vars

=============================================================================
