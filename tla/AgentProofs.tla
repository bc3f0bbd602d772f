---------------------------- MODULE AgentProofs ----------------------------
(***************************************************************************)
(* Theorems about Agent for every set of CPUs and containers and every      *)
(* value of the other constants.  TypeOK is not inductive alone: the steps  *)
(* of handleEvent and of requestLongDump use the container they remember,   *)
(* so the invariant also says that they remember one (Inv).  NoticePerDump   *)
(* needs in addition that a dump whose flag is about to be cleared is still *)
(* active (ClearOK).                                                        *)
(***************************************************************************)
EXTENDS Agent, SequenceTheorems, TLAPS

\* The event loop has its event while it handles one, and the entry it ends
\* the dump of, or erases, while it does.
LoopOK ==
    /\ loop.pc \notin {"poll", "stopped"} => loop.c \in Containers
    /\ loop.pc \in {"clear", "notify", "reset", "erase"}
         => loop.entry \in Containers

\* The dump whose flag is about to be cleared is still active: the command
\* thread only ever sets the flag.
ClearOK == loop.pc = "clear" => buffers[loop.entry].active

\* The entry about to be erased has an empty window: only the event loop adds
\* to a window.  Nothing of the kind holds of isLongDumpActive.
EraseOK == loop.pc = "erase" => buffers[loop.entry].window = <<>>

\* The command thread has its container and file name while it works.
CmdOK == /\ cmd.pc # "idle" => cmd.c \in Containers /\ cmd.path \in Path
         /\ cmd.pc = "idle" => cmd.c = Idle

Inv == TypeOK /\ LoopOK /\ CmdOK

-----------------------------------------------------------------------------
(* Facts about the operators.                                               *)

\* Constants are natural numbers, and a wrapped difference is one too.
LEMMA MinusIsNat ==
    ASSUME NEW a \in Ts, NEW b \in Ts
    PROVE  Minus(a, b) \in Nat
<1>1. TsModulus \in Nat \ {0}
  BY KernelAssumption, AgentAssumption DEF TsModulus
<1>2. a - b \in Int
  BY KernelAssumption DEF Ts
<1> QED
  BY <1>1, <1>2 DEF Minus

\* Writing to a dump stream keeps the files sequences of items.
LEMMA WriteKeepsFiles ==
    ASSUME files \in [Path -> Seq(Item)], NEW b \in Buffer, NEW i \in Item
    PROVE  Write(b, i) \in [Path -> Seq(Item)]
<1>1. CASE b.stream = "open" /\ b.file \in Path
  <2>1. files[b.file] \in Seq(Item)
    BY <1>1
  <2>2. Append(files[b.file], i) \in Seq(Item)
    BY <2>1
  <2> QED
    BY <1>1, <2>2 DEF Write
<1>2. CASE b.stream = "open" /\ b.file \notin Path
  BY <1>2 DEF Write
<1>3. CASE b.stream # "open"
  BY <1>3 DEF Write
<1> QED
  BY <1>1, <1>2, <1>3

\* Closing the stream and clearing the flag leave the rest of the buffer alone.
LEMMA CloseIsBuffer ==
    ASSUME NEW b \in Buffer
    PROVE  /\ CloseStream(b) \in Buffer
           /\ CloseStream(b).active = b.active
           /\ CloseStream(b).window = b.window
BY DEF CloseStream, Buffer

\* The same of clearing isLongDumpActive alone.
LEMMA ClearIsBuffer ==
    ASSUME NEW b \in Buffer
    PROVE  LET nb == [b EXCEPT !.active = FALSE]
           IN  nb \in Buffer /\ ~nb.active /\ nb.window = b.window
BY DEF Buffer

\* The types of the fields of a buffer.
LEMMA BufferFields ==
    ASSUME NEW b \in Buffer
    PROVE  /\ b.window \in Seq(Ts) /\ b.winStart \in Ts /\ b.lastEvent \in Ts
           /\ b.start \in Ts /\ b.end \in Nat /\ b.lastDump \in Ts
           /\ b.count \in Nat /\ b.duration \in Nat /\ b.active \in BOOLEAN
           /\ b.path \in Path \union {NoPath}
BY DEF Buffer

\* Timestamps are natural numbers, 0 among them.
LEMMA TsIsNat == Ts \subseteq Nat /\ 0 \in Ts
BY KernelAssumption DEF Ts

\* An event joins the window (handleEvent).
LEMMA PushIsBuffer ==
    ASSUME NEW b \in Buffer, NEW t \in Ts, NEW s \in Ts
    PROVE  LET nb == [b EXCEPT !.winStart = s, !.lastEvent = t,
                               !.window = Append(b.window, t)]
           IN  nb \in Buffer /\ nb.window = Append(b.window, t)
<1> DEFINE w == Append(b.window, t)
<1>1. w \in Seq(Ts)
  BY BufferFields
<1> HIDE DEF w
<1>2. LET nb == [b EXCEPT !.winStart = s, !.lastEvent = t, !.window = w]
      IN  nb \in Buffer /\ nb.window = w
  BY <1>1 DEF Buffer
<1> QED
  BY <1>2 DEF w

\* A record is written and counted (appendLongDump).
LEMMA RecordIsBuffer ==
    ASSUME NEW b \in Buffer, NEW t \in Ts
    PROVE  [b EXCEPT !.lastDump = t, !.count = b.count + 1] \in Buffer
<1>1. b.count + 1 \in Nat
  BY BufferFields
<1> QED
  BY <1>1 DEF Buffer

\* A window is sent and starts over (processShortWindow).
LEMMA FlushIsBuffer ==
    ASSUME NEW b \in Buffer
    PROVE  [b EXCEPT !.window = <<>>, !.winStart = 0] \in Buffer
<1>1. <<>> \in Seq(Ts)
  OBVIOUS
<1> QED
  BY <1>1, TsIsNat DEF Buffer

\* Where the steps of cleanupInactiveBuffers start and lead.
LEMMA CleanupOnLoop ==
    ASSUME loop \in Loop
    PROVE  /\ CleanupInactiveBuffers
                => loop.pc = "cleanup" /\ loop'.pc \in {"poll", "sweep"}
           /\ (\E c \in Containers : InspectBuffer(c))
                => loop.pc = "sweep" /\ loop'.pc \in {"sweep", "erase"}
           /\ EraseBuffer => loop.pc = "erase" /\ loop'.pc = "sweep"
           /\ SweepDone => loop.pc = "sweep" /\ loop'.pc = "poll"
<1>1. CleanupInactiveBuffers
        => loop.pc = "cleanup" /\ loop'.pc \in {"poll", "sweep"}
  <2> SUFFICES ASSUME CleanupInactiveBuffers
               PROVE  loop.pc = "cleanup" /\ loop'.pc \in {"poll", "sweep"}
    OBVIOUS
  <2>1. loop' = IdleLoop \/ loop' = [loop EXCEPT !.pc = "sweep", !.todo = known]
    BY DEF CleanupInactiveBuffers
  <2>2. IdleLoop.pc = "poll"
    BY DEF IdleLoop
  <2>3. [loop EXCEPT !.pc = "sweep", !.todo = known].pc = "sweep"
    BY DEF Loop
  <2> QED
    BY <2>1, <2>2, <2>3 DEF CleanupInactiveBuffers
<1>2. ASSUME NEW c \in Containers, InspectBuffer(c)
      PROVE  loop.pc = "sweep" /\ loop'.pc \in {"sweep", "erase"}
  BY <1>2 DEF InspectBuffer, Loop
<1>3. EraseBuffer => loop.pc = "erase" /\ loop'.pc = "sweep"
  BY DEF EraseBuffer, Loop
<1>4. SweepDone => loop.pc = "sweep" /\ loop'.pc = "poll"
  BY DEF SweepDone, IdleLoop
<1> QED
  BY <1>1, <1>2, <1>3, <1>4

\* A fresh entry of buffers_ is a buffer.
LEMMA EmptyIsBuffer == EmptyBuffer \in Buffer
BY KernelAssumption DEF EmptyBuffer, Buffer, Ts, Path
-----------------------------------------------------------------------------
(* Inv is inductive: one lemma per thread, one step per action.             *)

\* The kernel's steps leave the agent alone and keep the ring well-formed.
LEMMA KernelKeepsInv ==
    ASSUME Inv, Kernel
    PROVE  Inv'
<1> USE DEF Inv, TypeOK
<1>1. UNCHANGED <<agentVars, historyVars>> /\ KernelNext
  BY DEF Kernel
<1>2. LoopOK' /\ CmdOK'
  BY <1>1 DEF LoopOK, CmdOK, agentVars
<1>3. KernelTypeOK'
  <2>1. CASE Tick
    BY <2>1, KernelAssumption DEF Tick, KernelTypeOK, Ts, Slot
  <2>2. CASE \E p \in Cpus : SubmitSlot(p)
    <3>1. PICK p \in Cpus : SubmitSlot(p)
      BY <2>2
    <3>2. ring' \in Seq(Slot)
      <4>1. \A i \in DOMAIN ring : ring[i] \in Slot
        BY DEF KernelTypeOK
      <4>2. \A i \in DOMAIN ring : [ring[i] EXCEPT !.ts = clock, !.ready = TRUE] \in Slot
        BY <4>1 DEF KernelTypeOK, Slot
      <4>3. DOMAIN ring = 1 .. Len(ring) /\ Len(ring) \in Nat
        BY DEF KernelTypeOK
      <4>4. ring' \in [1 .. Len(ring) -> Slot]
        BY <3>1, <4>1, <4>2, <4>3 DEF SubmitSlot
      <4>5. ring' \in UNION {[1 .. n -> Slot] : n \in Nat}
        BY <4>3, <4>4
      <4> QED
        BY <4>5, SeqDef, Zenon
    <3> QED
      BY <3>1, <3>2 DEF SubmitSlot, KernelTypeOK, Ts
  <2>3. CASE \E p \in Cpus, c \in Containers : ReserveSlot(p, c)
    <3>1. PICK p \in Cpus, c \in Containers : ReserveSlot(p, c)
      BY <2>3
    <3>2. [cpu |-> p, container |-> c, ts |-> 0, ready |-> FALSE] \in Slot
      BY KernelAssumption DEF Slot, Ts
    <3>3. ring' \in Seq(Slot)
      BY <3>1, <3>2 DEF ReserveSlot, KernelTypeOK
    <3>4. reserved' \in 0 .. MaxEvents
      BY <3>1, KernelAssumption DEF ReserveSlot, KernelTypeOK
    <3> QED
      BY <3>1, <3>3, <3>4 DEF ReserveSlot, KernelTypeOK, Ts
  <2> QED
    BY <1>1, <2>1, <2>2, <2>3 DEF KernelNext
<1> QED
  BY <1>1, <1>2, <1>3 DEF agentVars, historyVars

\* The event loop's steps keep Inv.
LEMMA EventLoopKeepsInv ==
    ASSUME Inv, EventLoop
    PROVE  Inv'
<1> USE DEF Inv, TypeOK
<1>0. /\ \A c \in Containers : buffers[c] \in Buffer
      /\ loop.ts \in Ts
  BY DEF Loop
<1>1. CASE HandleEvent
  <2> DEFINE c == Head(ring).container
             t == Head(ring).ts
             s == IF buffers[c].window = <<>> THEN t ELSE buffers[c].winStart
             nb == [buffers[c] EXCEPT !.winStart = s, !.lastEvent = t,
                                      !.window = Append(buffers[c].window, t)]
  <2>1. Head(ring) \in Slot /\ Tail(ring) \in Seq(Slot)
    BY <1>1 DEF HandleEvent, ConsumeSlot, RingReady, KernelTypeOK
  <2>2. c \in Containers /\ t \in Ts
    BY <2>1 DEF Slot
  <2>3. KernelTypeOK'
    BY <1>1, <2>1 DEF HandleEvent, ConsumeSlot, KernelTypeOK, Ts
  <2>4. CASE c \in Unmatched
    BY <1>1, <2>3, <2>4, AgentAssumption DEF HandleEvent, LoopOK, CmdOK
  <2>5. CASE c \notin Unmatched
    <3>0. buffers[c] \in Buffer /\ s \in Ts
      BY <1>0, <2>2, BufferFields
    <3>1. nb \in Buffer
      BY <2>2, <3>0, PushIsBuffer
    <3>2. buffers' = [buffers EXCEPT ![c] = nb]
      BY <1>1, <2>5 DEF HandleEvent
    <3>3. buffers' \in [Containers -> Buffer]
      BY <3>1, <3>2, <2>2
    <3>4. loop' = [loop EXCEPT !.pc = "append", !.c = c, !.ts = t]
      BY <1>1, <2>5 DEF HandleEvent
    <3>5. loop' \in Loop /\ LoopOK'
      BY <2>2, <3>4 DEF Loop, LoopPc, LoopOK
    <3>6. accepted' \in [Containers -> Nat]
      <4>1. accepted' = [accepted EXCEPT ![c] = @ + 1]
        BY <1>1, <2>5 DEF HandleEvent
      <4> QED
        BY <2>2, <4>1
    <3>7. known' \in SUBSET Containers
      BY <1>1, <2>2, <2>5 DEF HandleEvent
    <3> QED
      BY <1>1, <2>3, <3>3, <3>5, <3>6, <3>7 DEF HandleEvent, CmdOK
  <2> QED
    BY <2>4, <2>5
<1>2. CASE AppendLongDump
  <2> DEFINE c == loop.c
             b == buffers[c]
             recording == b.active /\ b.stream # "closed"
             nb == [b EXCEPT !.lastDump = loop.ts, !.count = b.count + 1]
  <2>1. c \in Containers /\ b \in Buffer
    BY <1>0, <1>2 DEF AppendLongDump, LoopOK
  <2>0. loop.ts \in Nat /\ b.end \in Nat
    BY <1>0, <2>1, BufferFields, TsIsNat
  <2>2. UNCHANGED <<kernelVars, known, lastCleanup, cmd, historyVars>>
    BY <1>2 DEF AppendLongDump
  <2>3. CASE ~recording
    <3>1. loop' = [loop EXCEPT !.pc = "window"] /\ UNCHANGED <<buffers, files>>
      BY <1>2, <2>3 DEF AppendLongDump
    <3>2. loop' \in Loop /\ LoopOK'
      BY <2>1, <3>1 DEF Loop, LoopPc, LoopOK
    <3> QED
      BY <2>2, <3>1, <3>2 DEF kernelVars, historyVars, KernelTypeOK, CmdOK
  <2>4. CASE recording /\ loop.ts >= b.end
    <3>0. ~(loop.ts < b.end)
      BY <2>0, <2>4
    <3>1. /\ buffers' = [buffers EXCEPT ![c] = CloseStream(b)]
          /\ loop' = [loop EXCEPT !.pc = "clear", !.entry = c, !.back = "window"]
          /\ UNCHANGED files
      BY <1>2, <2>4, <3>0 DEF AppendLongDump
    <3>2. buffers' \in [Containers -> Buffer]
      BY <2>1, <3>1, CloseIsBuffer
    <3>3. loop' \in Loop /\ LoopOK'
      BY <2>1, <3>1 DEF Loop, LoopPc, LoopOK
    <3> QED
      BY <2>2, <3>1, <3>2, <3>3 DEF kernelVars, historyVars, KernelTypeOK, CmdOK
  <2>5. CASE recording /\ loop.ts < b.end
    <3>0. ~(loop.ts >= b.end)
      BY <2>0, <2>5
    <3>1. /\ files' = Write(b, RecordItem(Minus(loop.ts, PreviousTs(b))))
          /\ buffers' = [buffers EXCEPT ![c] = nb]
          /\ loop' = [loop EXCEPT !.pc = "window"]
      BY <1>2, <2>5, <3>0 DEF AppendLongDump
    <3>2. PreviousTs(b) \in Ts
      BY <2>1 DEF PreviousTs, Buffer
    <3>3. RecordItem(Minus(loop.ts, PreviousTs(b))) \in Item
      BY <1>0, <3>2, MinusIsNat DEF RecordItem, Item
    <3>4. files' \in [Path -> Seq(Item)]
      BY <2>1, <3>1, <3>3, WriteKeepsFiles
    <3>5. nb \in Buffer
      BY <1>0, <2>1, RecordIsBuffer
    <3>6. buffers' \in [Containers -> Buffer]
      BY <2>1, <3>1, <3>5
    <3>7. loop' \in Loop /\ LoopOK'
      BY <2>1, <3>1 DEF Loop, LoopPc, LoopOK
    <3> QED
      BY <2>2, <3>4, <3>6, <3>7 DEF kernelVars, historyVars, KernelTypeOK, CmdOK
  <2> QED
    BY <2>0, <2>3, <2>4, <2>5
<1>3. CASE NotifyDumpComplete
  <2>1. loop.entry \in Containers /\ buffers[loop.entry] \in Buffer
    BY <1>0, <1>3 DEF NotifyDumpComplete, LoopOK
  <2>2. notice' \in Notice
    BY <1>3, <2>1 DEF NotifyDumpComplete, Notice, Buffer, KernelTypeOK
  <2>3. notified' \in [Containers -> Nat]
    BY <1>3, <2>1 DEF NotifyDumpComplete
  <2>4. loop' \in Loop /\ LoopOK'
    BY <1>3 DEF NotifyDumpComplete, Loop, LoopPc, LoopOK
  <2> QED
    BY <1>3, <2>2, <2>3, <2>4
    DEF NotifyDumpComplete, kernelVars, KernelTypeOK, CmdOK
<1>4. CASE ResetDumpState
  <2> DEFINE c == loop.entry
             nb == [buffers[c] EXCEPT !.path = NoPath, !.count = 0, !.duration = 0]
  <2>1. c \in Containers /\ buffers[c] \in Buffer
    BY <1>0, <1>4 DEF ResetDumpState, LoopOK
  <2>2. nb \in Buffer
    BY <2>1 DEF Buffer
  <2>3. buffers' \in [Containers -> Buffer]
    BY <1>4, <2>1, <2>2 DEF ResetDumpState
  <2>4. loop' \in Loop /\ LoopOK'
    BY <1>4 DEF ResetDumpState, Loop, LoopPc, LoopOK
  <2> QED
    BY <1>4, <2>3, <2>4
    DEF ResetDumpState, kernelVars, historyVars, KernelTypeOK, CmdOK
<1>5. CASE DecideWindow
  <2>1. loop' \in Loop /\ LoopOK'
    BY <1>5 DEF DecideWindow, Loop, LoopPc, LoopOK
  <2> QED
    BY <1>5, <2>1 DEF DecideWindow, kernelVars, historyVars, KernelTypeOK, CmdOK
<1>6. CASE ProcessShortWindow
  <2> DEFINE c == loop.c
             nb == [buffers[c] EXCEPT !.window = <<>>, !.winStart = 0]
  <2>1. c \in Containers /\ buffers[c] \in Buffer
    BY <1>0, <1>6 DEF ProcessShortWindow, LoopOK
  <2>2. nb \in Buffer
    BY <2>1, FlushIsBuffer
  <2>3. buffers' \in [Containers -> Buffer]
    BY <1>6, <2>1, <2>2 DEF ProcessShortWindow
  <2>4. loop' \in Loop /\ LoopOK'
    BY <1>6 DEF ProcessShortWindow, Loop, LoopPc, LoopOK
  <2>5. Len(buffers[c].window) \in Nat
    BY <2>1 DEF Buffer
  <2>6. flushed' \in [Containers -> Nat]
    BY <1>6, <2>1, <2>5 DEF ProcessShortWindow
  <2> QED
    BY <1>6, <2>3, <2>4, <2>6
    DEF ProcessShortWindow, kernelVars, KernelTypeOK, CmdOK
<1>7. CASE \E c \in Containers : StopExpiredLongDump(c)
  <2>1. PICK c \in Containers : StopExpiredLongDump(c)
    BY <1>7
  <2>2. CASE Expired(buffers[c], loop.ts)
    <3>1. /\ buffers' = [buffers EXCEPT ![c] = CloseStream(buffers[c])]
          /\ loop' = [loop EXCEPT !.pc = "clear", !.entry = c,
                                  !.back = "expire", !.todo = @ \ {c}]
      BY <2>1, <2>2 DEF StopExpiredLongDump
    <3>2. buffers' \in [Containers -> Buffer]
      BY <1>0, <3>1, CloseIsBuffer
    <3>3. loop' \in Loop /\ LoopOK'
      BY <2>1, <3>1 DEF StopExpiredLongDump, Loop, LoopPc, LoopOK
    <3> QED
      BY <2>1, <3>2, <3>3
      DEF StopExpiredLongDump, kernelVars, historyVars, KernelTypeOK, CmdOK
  <2>3. CASE ~Expired(buffers[c], loop.ts)
    <3>1. UNCHANGED buffers /\ loop' = [loop EXCEPT !.todo = @ \ {c}]
      BY <2>1, <2>3 DEF StopExpiredLongDump
    <3>2. loop' \in Loop /\ LoopOK'
      BY <2>1, <3>1 DEF StopExpiredLongDump, Loop, LoopPc, LoopOK
    <3> QED
      BY <2>1, <3>1, <3>2
      DEF StopExpiredLongDump, kernelVars, historyVars, KernelTypeOK, CmdOK
  <2> QED
    BY <2>2, <2>3
<1>8. CASE ExpiredAllVisited
  <2>1. loop' \in Loop /\ LoopOK'
    BY <1>8 DEF ExpiredAllVisited, Loop, LoopPc, LoopOK
  <2> QED
    BY <1>8, <2>1
    DEF ExpiredAllVisited, kernelVars, historyVars, KernelTypeOK, CmdOK
<1>9. CASE CleanupInactiveBuffers
  <2>1. loop' = IdleLoop \/ loop' = [loop EXCEPT !.pc = "sweep", !.todo = known]
    BY <1>9 DEF CleanupInactiveBuffers
  <2>0. loop.pc = "cleanup" /\ loop.c \in Containers
    BY <1>9 DEF CleanupInactiveBuffers, LoopOK
  <2>2. loop' \in Loop /\ LoopOK'
    <3>1. CASE loop' = IdleLoop
      BY <3>1, TsIsNat DEF IdleLoop, Idle, Loop, LoopPc, LoopOK
    <3>2. CASE loop' = [loop EXCEPT !.pc = "sweep", !.todo = known]
      BY <2>0, <3>2 DEF Loop, LoopPc, LoopOK
    <3> QED
      BY <2>1, <3>1, <3>2
  <2>3. lastCleanup' \in Ts
    BY <1>0, <1>9 DEF CleanupInactiveBuffers
  <2> QED
    BY <1>9, <2>2, <2>3
    DEF CleanupInactiveBuffers, kernelVars, historyVars, KernelTypeOK, CmdOK
<1>12. CASE \E c \in Containers : InspectBuffer(c)
  <2>1. PICK c \in Containers : InspectBuffer(c)
    BY <1>12
  <2>2. loop' \in Loop /\ LoopOK'
    BY <2>1 DEF InspectBuffer, Loop, LoopPc, LoopOK
  <2> QED
    BY <2>1, <2>2
    DEF InspectBuffer, kernelVars, historyVars, KernelTypeOK, CmdOK
<1>13. CASE EraseBuffer
  <2>1. loop' \in Loop /\ LoopOK'
    BY <1>13 DEF EraseBuffer, Idle, Loop, LoopPc, LoopOK
  <2>2. buffers' \in [Containers -> Buffer]
    BY <1>0, <1>13, EmptyIsBuffer DEF EraseBuffer
  <2>3. cmd' \in Cmd /\ CmdOK'
    <3>1. loop.entry \in Containers
      BY <1>13 DEF EraseBuffer, LoopOK
    <3>2. \/ cmd' = cmd
          \/ /\ cmd' = [cmd EXCEPT !.pc = "dangling", !.then = cmd.pc]
             /\ cmd.c = loop.entry /\ cmd.pc # "dangling"
      BY <1>13 DEF EraseBuffer, Holding
    <3>3. cmd.c = loop.entry => cmd.pc # "idle"
      BY <3>1, AgentAssumption DEF CmdOK, Idle
    <3> QED
      BY <3>2, <3>3 DEF Cmd, CmdPc, Working, CmdOK
  <2>4. known' \in SUBSET Containers
    BY <1>13 DEF EraseBuffer
  <2> QED
    BY <1>13, <2>1, <2>2, <2>3, <2>4
    DEF EraseBuffer, kernelVars, historyVars, KernelTypeOK
<1>14. CASE SweepDone
  <2>1. loop' \in Loop /\ LoopOK'
    BY <1>14, TsIsNat DEF SweepDone, IdleLoop, Idle, Loop, LoopPc, LoopOK
  <2> QED
    BY <1>14, <2>1 DEF SweepDone, kernelVars, historyVars, KernelTypeOK, CmdOK
<1>10. CASE ClearDumpActive
  <2> DEFINE c == loop.entry
             nb == [buffers[c] EXCEPT !.active = FALSE]
  <2>1. c \in Containers /\ buffers[c] \in Buffer
    BY <1>0, <1>10 DEF ClearDumpActive, LoopOK
  <2>2. nb \in Buffer
    BY <2>1, ClearIsBuffer
  <2>3. buffers' \in [Containers -> Buffer]
    BY <1>10, <2>1, <2>2 DEF ClearDumpActive
  <2>4. loop' \in Loop /\ LoopOK'
    BY <1>10 DEF ClearDumpActive, Loop, LoopPc, LoopOK
  <2> QED
    BY <1>10, <2>3, <2>4
    DEF ClearDumpActive, kernelVars, historyVars, KernelTypeOK, CmdOK
<1>11. CASE SignalStop
  <2>1. loop' \in Loop /\ LoopOK'
    BY <1>11 DEF SignalStop, Loop, LoopPc, LoopOK
  <2> QED
    BY <1>11, <2>1 DEF SignalStop, kernelVars, historyVars, KernelTypeOK, CmdOK
<1> QED
  BY <1>1, <1>2, <1>3, <1>4, <1>5, <1>6, <1>7, <1>8, <1>9, <1>10, <1>11, <1>12,
     <1>13, <1>14
  DEF EventLoop

\* The command thread's steps keep Inv.
LEMMA CommandThreadKeepsInv ==
    ASSUME Inv, CommandThread
    PROVE  Inv'
<1> USE DEF Inv, TypeOK
<1>0. \A c \in Containers : buffers[c] \in Buffer
  OBVIOUS
<1>1. CASE \E c \in Containers, d \in Durations : RequestLongDump(c, d)
  <2>1. PICK c \in Containers, d \in Durations : RequestLongDump(c, d)
    BY <1>1
  <2>0. cmd.seen \in 0 .. MaxRequests /\ cmd.seen < MaxRequests
    BY <2>1 DEF RequestLongDump, Cmd
  <2>2. PathOf(c, clock) \in Path /\ d \in Nat /\ cmd.seen + 1 \in 0 .. MaxRequests
    BY <2>0, AgentAssumption, SMTT(20) DEF Path, PathOf, KernelTypeOK
  <2>3. cmd' \in Cmd /\ CmdOK'
    BY <2>1, <2>2 DEF RequestLongDump, Cmd, CmdPc, Working, CmdOK
  <2>4. known' \in SUBSET Containers
    BY <2>1 DEF RequestLongDump
  <2>5. loop' \in Loop /\ LoopOK'
    <3>1. loop' = loop \/ \E rest \in SUBSET known' : loop' = [loop EXCEPT !.todo = rest]
      BY <2>1 DEF RequestLongDump
    <3> QED
      BY <2>4, <3>1 DEF Loop, LoopPc, LoopOK
  <2> QED
    BY <2>1, <2>3, <2>4, <2>5
    DEF RequestLongDump, kernelVars, historyVars, KernelTypeOK
<1>2. CASE OpenDumpFile
  <2> DEFINE c == cmd.c
             b == buffers[c]
             opened == [b EXCEPT !.stream = "open", !.file = cmd.path]
             failed == [b EXCEPT !.stream = "failed"]
  <2>1. c \in Containers /\ b \in Buffer /\ cmd.path \in Path
    BY <1>0, <1>2 DEF OpenDumpFile, CmdOK
  <2>2. opened \in Buffer /\ failed \in Buffer
    BY <2>1 DEF Buffer
  <2>3. buffers' \in {buffers, [buffers EXCEPT ![c] = opened],
                                [buffers EXCEPT ![c] = failed]}
    BY <1>2 DEF OpenDumpFile
  <2>4. buffers' \in [Containers -> Buffer]
    BY <2>1, <2>2, <2>3
  <2>5. files' \in [Path -> Seq(Item)]
    <3>1. <<>> \in Seq(Item)
      OBVIOUS
    <3> QED
      BY <1>2, <2>1, <3>1 DEF OpenDumpFile
  <2>6. cmd' \in Cmd /\ CmdOK'
    <3>1. cmd' = Return \/ cmd' = [cmd EXCEPT !.pc = "activate"]
      BY <1>2 DEF OpenDumpFile
    <3>2. CASE cmd' = Return
      BY <3>2, AgentAssumption DEF Cmd, CmdPc, Working, CmdOK, Return, IdleCmd, Idle
    <3>3. CASE cmd' = [cmd EXCEPT !.pc = "activate"]
      BY <2>1, <3>3 DEF Cmd, CmdPc, Working, CmdOK
    <3> QED
      BY <3>1, <3>2, <3>3
  <2> QED
    BY <1>2, <2>4, <2>5, <2>6
    DEF OpenDumpFile, kernelVars, historyVars, KernelTypeOK, LoopOK
<1>3. CASE ActivateDump
  <2> DEFINE c == cmd.c
             b == buffers[c]
             s == DumpStart(b)
             nb == [b EXCEPT !.start = s, !.end = s + cmd.duration,
                             !.lastDump = 0, !.active = TRUE]
  <2>1. c \in Containers /\ b \in Buffer
    BY <1>0, <1>3 DEF ActivateDump, CmdOK
  <2>2. s \in Ts /\ s + cmd.duration \in Nat
    <3>1. s \in Ts
      <4>1. b.lastEvent \in Ts /\ clock \in Ts
        BY <2>1, BufferFields DEF KernelTypeOK
      <4> QED
        BY <4>1 DEF DumpStart
    <3>2. cmd.duration \in Nat
      BY DEF Cmd
    <3>3. s \in Nat
      BY <3>1, TsIsNat
    <3> HIDE DEF s
    <3> QED
      BY <3>1, <3>2, <3>3
  <2>3. nb \in Buffer
    BY <2>1, <2>2, TsIsNat DEF Buffer
  <2>4. buffers' = [buffers EXCEPT ![c] = nb]
    BY <1>3 DEF ActivateDump
  <2>5. buffers' \in [Containers -> Buffer]
    BY <2>1, <2>3, <2>4
  <2>6. dumps' \in [Containers -> Nat]
    BY <1>3, <2>1 DEF ActivateDump
  <2>7. cmd' \in Cmd /\ CmdOK'
    BY <1>3 DEF ActivateDump, Cmd, CmdPc, Working, CmdOK
  <2> QED
    BY <1>3, <2>5, <2>6, <2>7
    DEF ActivateDump, kernelVars, KernelTypeOK, LoopOK
<1>4. CASE DescribeDump
  <2> DEFINE c == cmd.c
             nb == [buffers[c] EXCEPT !.path = cmd.path, !.count = 0,
                                      !.duration = cmd.duration]
  <2>1. c \in Containers /\ buffers[c] \in Buffer /\ cmd.path \in Path
        /\ cmd.duration \in Nat
    BY <1>0, <1>4 DEF DescribeDump, CmdOK, Cmd
  <2>2. nb \in Buffer
    BY <2>1 DEF Buffer
  <2>3. buffers' \in [Containers -> Buffer]
    BY <1>4, <2>1, <2>2 DEF DescribeDump
  <2>4. cmd' \in Cmd /\ CmdOK'
    BY <1>4 DEF DescribeDump, Cmd, CmdPc, Working, CmdOK
  <2> QED
    BY <1>4, <2>3, <2>4
    DEF DescribeDump, kernelVars, historyVars, KernelTypeOK, LoopOK
<1>5. CASE WriteHeader
  <2> DEFINE b == buffers[cmd.c]
  <2>1. b \in Buffer
    BY <1>0, <1>5 DEF WriteHeader, CmdOK
  <2>2. HeaderItem(b.start) \in Item
    BY <2>1, BufferFields, TsIsNat DEF HeaderItem, Item
  <2>3. files' \in [Path -> Seq(Item)]
    BY <1>5, <2>1, <2>2, WriteKeepsFiles DEF WriteHeader
  <2>4. cmd' \in Cmd /\ CmdOK'
    BY <1>5, AgentAssumption DEF WriteHeader, Cmd, CmdPc, Working, CmdOK, Return, IdleCmd, Idle
  <2> QED
    BY <1>5, <2>3, <2>4
    DEF WriteHeader, kernelVars, historyVars, KernelTypeOK, LoopOK
<1>6. CASE UseErasedBuffer
  <2>1. cmd' \in Cmd /\ CmdOK'
    <3>1. \/ cmd' = Return
          \/ \E c \in known : cmd' = [cmd EXCEPT !.pc = cmd.then, !.c = c]
      BY <1>6 DEF UseErasedBuffer
    <3>2. CASE cmd' = Return
      BY <3>2, AgentAssumption DEF Cmd, CmdPc, Working, CmdOK, Return, IdleCmd, Idle
    <3>3. CASE \E c \in known : cmd' = [cmd EXCEPT !.pc = cmd.then, !.c = c]
      <4>1. PICK c \in known : cmd' = [cmd EXCEPT !.pc = cmd.then, !.c = c]
        BY <3>3
      <4>2. c \in Containers /\ cmd.path \in Path /\ cmd.then \in Working
        BY <1>6 DEF UseErasedBuffer, CmdOK, Cmd
      <4> QED
        BY <4>1, <4>2 DEF Cmd, CmdPc, Working, CmdOK
    <3> QED
      BY <3>1, <3>2, <3>3
  <2>2. loop' \in Loop /\ LoopOK'
    BY <1>6 DEF UseErasedBuffer, Loop, LoopPc, LoopOK
  <2> QED
    BY <1>6, <2>1, <2>2
    DEF UseErasedBuffer, kernelVars, historyVars, KernelTypeOK
<1> QED
  BY <1>1, <1>2, <1>3, <1>4, <1>5, <1>6 DEF CommandThread

\* Inv holds of an agent that has just started.
LEMMA InitEstablishesInv == Init => Inv
<1> SUFFICES ASSUME Init PROVE Inv
  OBVIOUS
<1>1. KernelTypeOK
  BY KernelAssumption DEF Init, KernelInit, KernelTypeOK, Ts
<1>2. buffers \in [Containers -> Buffer]
  BY EmptyIsBuffer DEF Init
<1>3. files \in [Path -> Seq(Item)]
  <2>1. <<>> \in Seq(Item)
    OBVIOUS
  <2> QED
    BY <2>1 DEF Init
<1>4. loop \in Loop /\ LoopOK
  BY TsIsNat DEF Init, IdleLoop, Idle, Loop, LoopPc, LoopOK
<1>5. cmd \in Cmd /\ CmdOK
  BY AgentAssumption DEF Init, IdleCmd, Idle, Cmd, CmdPc, Working, CmdOK
<1> QED
  BY <1>1, <1>2, <1>3, <1>4, <1>5, TsIsNat DEF Init, Inv, TypeOK

\* Every step of the agent and of the kernel keeps Inv.
LEMMA NextKeepsInv == Inv /\ [Next]_vars => Inv'
<1> SUFFICES ASSUME Inv, [Next]_vars PROVE Inv'
  OBVIOUS
<1>1. CASE UNCHANGED vars
  BY <1>1 DEF vars, kernelVars, agentVars, historyVars, Inv, TypeOK,
              KernelTypeOK, LoopOK, CmdOK
<1> QED
  BY <1>1, EventLoopKeepsInv, CommandThreadKeepsInv, KernelKeepsInv DEF Next

\* The agent's data keep their declared types under every interleaving of the
\* event loop, the command thread and the CPUs.
THEOREM TypeCorrect == Spec => []TypeOK
<1>1. Inv => TypeOK
  BY DEF Inv
<1> QED
  BY <1>1, InitEstablishesInv, NextKeepsInv, PTL DEF Spec

\* The strengthened form, for the theorems below.
THEOREM Invariance == Spec => []Inv
BY InitEstablishesInv, NextKeepsInv, PTL DEF Spec
-----------------------------------------------------------------------------
(* EventsConserved and NoticePerDump are inductive relative to Inv.         *)

\* requestLongDump touches no window, and sets isLongDumpActive only where it
\* makes the dump active.
LEMMA CommandThreadOnBuffers ==
    ASSUME Inv, CommandThread, NEW k \in Containers
    PROVE  /\ buffers'[k].window = buffers[k].window
           /\ \/ buffers'[k].active = buffers[k].active
              \/ ActivateDump /\ cmd.c = k /\ buffers'[k].active
<1>0. /\ \A c \in Containers : buffers[c] \in Buffer
      /\ buffers \in [Containers -> Buffer]
  BY DEF Inv, TypeOK
<1>1. CASE OpenDumpFile
  <2> DEFINE b == buffers[cmd.c]
             opened == [b EXCEPT !.stream = "open", !.file = cmd.path]
             failed == [b EXCEPT !.stream = "failed"]
  <2>1. cmd.c \in Containers /\ b \in Buffer
    BY <1>0, <1>1 DEF OpenDumpFile, Inv, CmdOK
  <2>2. buffers' \in {buffers, [buffers EXCEPT ![cmd.c] = opened],
                                [buffers EXCEPT ![cmd.c] = failed]}
    BY <1>1 DEF OpenDumpFile
  <2>3. /\ opened.window = b.window /\ opened.active = b.active
        /\ failed.window = b.window /\ failed.active = b.active
    BY <2>1 DEF Buffer
  <2> HIDE DEF opened, failed
  <2> QED
    BY <1>0, <2>1, <2>2, <2>3
<1>2. CASE ActivateDump
  <2> DEFINE b == buffers[cmd.c]
             nb == [b EXCEPT !.start = DumpStart(b),
                             !.end = DumpStart(b) + cmd.duration,
                             !.lastDump = 0, !.active = TRUE]
  <2>1. cmd.c \in Containers /\ b \in Buffer
    BY <1>0, <1>2 DEF ActivateDump, Inv, CmdOK
  <2>2. buffers' = [buffers EXCEPT ![cmd.c] = nb]
    BY <1>2 DEF ActivateDump
  <2>3. nb.window = b.window /\ nb.active
    BY <2>1 DEF Buffer
  <2> HIDE DEF nb
  <2> QED
    BY <1>0, <1>2, <2>1, <2>2, <2>3
<1>3. CASE DescribeDump
  <2> DEFINE b == buffers[cmd.c]
             nb == [b EXCEPT !.path = cmd.path, !.count = 0,
                             !.duration = cmd.duration]
  <2>1. cmd.c \in Containers /\ b \in Buffer
    BY <1>0, <1>3 DEF DescribeDump, Inv, CmdOK
  <2>2. buffers' = [buffers EXCEPT ![cmd.c] = nb]
    BY <1>3 DEF DescribeDump
  <2>3. nb.window = b.window /\ nb.active = b.active
    BY <2>1 DEF Buffer
  <2> HIDE DEF nb
  <2> QED
    BY <1>0, <2>1, <2>2, <2>3
<1>4. CASE UNCHANGED buffers
  BY <1>4
<1> QED
  BY <1>1, <1>2, <1>3, <1>4
  DEF CommandThread, RequestLongDump, WriteHeader, UseErasedBuffer

\* How the command thread moves the event loop: not at all, by changing what a
\* walk has still to visit, or by the death of the process.
LEMMA CommandThreadOnLoop ==
    ASSUME Inv, CommandThread
    PROVE  \/ loop'.pc = loop.pc /\ loop'.entry = loop.entry
           \/ loop'.pc = "stopped"
<1>1. \/ loop' = loop \/ loop' = [loop EXCEPT !.pc = "stopped"]
      \/ \E rest \in SUBSET known' : loop' = [loop EXCEPT !.todo = rest]
  BY DEF CommandThread, RequestLongDump, OpenDumpFile, ActivateDump, DescribeDump,
         WriteHeader, UseErasedBuffer
<1>2. loop \in Loop
  BY DEF Inv, TypeOK
<1> QED
  BY <1>1, <1>2 DEF Loop

\* An entry is chosen for erasing with an empty window, which stays empty.
LEMMA StepKeepsEraseOK ==
    ASSUME Inv, EraseOK, [Next]_vars
    PROVE  EraseOK'
<1>0. loop \in Loop
  BY DEF Inv, TypeOK
<1> SUFFICES ASSUME loop'.pc = "erase" PROVE buffers'[loop'.entry].window = <<>>
  BY DEF EraseOK
<1>1. CASE \E c \in Containers : InspectBuffer(c)
  <2>1. PICK c \in Containers : InspectBuffer(c)
    BY <1>1
  <2>2. CASE Removable(buffers[c], loop.ts)
    BY <1>0, <2>1, <2>2 DEF InspectBuffer, Removable, Loop
  <2>3. CASE ~Removable(buffers[c], loop.ts)
    BY <1>0, <2>1, <2>3 DEF InspectBuffer, Loop
  <2> QED
    BY <2>2, <2>3
<1>2. CASE EventLoop /\ ~\E c \in Containers : InspectBuffer(c)
  <2>1. CASE HandleEvent
    <3>1. loop' = loop \/ loop' = [loop EXCEPT !.pc = "append",
                 !.c = Head(ring).container, !.ts = Head(ring).ts]
      BY <2>1 DEF HandleEvent
    <3> QED
      BY <1>0, <2>1, <3>1 DEF HandleEvent, Loop
  <2>2. CASE AppendLongDump
    <3>1. \/ loop' = [loop EXCEPT !.pc = "window"]
          \/ loop' = [loop EXCEPT !.pc = "clear", !.entry = loop.c,
                                  !.back = "window"]
      BY <2>2 DEF AppendLongDump
    <3> QED
      BY <1>0, <3>1 DEF Loop
  <2>3. CASE ClearDumpActive \/ NotifyDumpComplete
    BY <1>0, <2>3 DEF ClearDumpActive, NotifyDumpComplete, Loop
  <2>4. CASE ResetDumpState
    <3>1. loop.back \in {"window", "expire"}
      BY <1>0 DEF Loop
    <3> QED
      BY <1>0, <2>4, <3>1 DEF ResetDumpState, Loop
  <2>5. CASE DecideWindow \/ ProcessShortWindow
    BY <1>0, <2>5 DEF DecideWindow, ProcessShortWindow, Loop
  <2>6. CASE \E c \in Containers : StopExpiredLongDump(c)
    BY <1>0, <2>6 DEF StopExpiredLongDump, Loop
  <2>7. CASE CleanupInactiveBuffers \/ EraseBuffer \/ SweepDone
    BY <1>0, <2>7, CleanupOnLoop
  <2>8. CASE ExpiredAllVisited \/ SignalStop
    BY <1>0, <2>8 DEF ExpiredAllVisited, SignalStop, Loop
  <2> QED
    BY <1>2, <2>1, <2>2, <2>3, <2>4, <2>5, <2>6, <2>7, <2>8 DEF EventLoop
<1>3. CASE CommandThread
  <2>1. loop.pc = "erase" /\ loop'.entry = loop.entry
    BY <1>3, CommandThreadOnLoop
  <2>2. loop.entry \in Containers
    BY <2>1 DEF Inv, LoopOK
  <2> QED
    BY <1>3, <2>1, <2>2, CommandThreadOnBuffers DEF EraseOK
<1>4. CASE Kernel \/ UNCHANGED vars
  BY <1>4 DEF Kernel, vars, agentVars, EraseOK
<1> QED
  BY <1>1, <1>2, <1>3, <1>4 DEF Next

\* The entry that is about to be erased holds no event.
THEOREM EraseInvariance == Spec => []EraseOK
<1>1. Init => EraseOK
  BY DEF Init, IdleLoop, EraseOK
<1>2. Inv /\ EraseOK /\ [Next]_vars => EraseOK'
  BY StepKeepsEraseOK
<1> QED
  BY <1>1, <1>2, Invariance, PTL DEF Spec

\* Only HandleEvent, ProcessShortWindow and EraseBuffer touch a window; the
\* first two keep the balance and the third erases an entry whose window is
\* empty.
LEMMA StepKeepsEvents ==
    ASSUME Inv, Inv', EraseOK, EventsConserved, [Next]_vars
    PROVE  EventsConserved'
<1> SUFFICES ASSUME NEW k \in Containers
             PROVE  accepted'[k] = flushed'[k] + Len(buffers'[k].window)
  BY DEF EventsConserved
<1>0. /\ \A c \in Containers : buffers[c] \in Buffer
      /\ buffers \in [Containers -> Buffer]
      /\ accepted \in [Containers -> Nat] /\ flushed \in [Containers -> Nat]
      /\ accepted[k] = flushed[k] + Len(buffers[k].window)
  BY DEF Inv, TypeOK, EventsConserved
<1>w. buffers[k].window \in Seq(Ts) /\ Len(buffers[k].window) \in Nat
  BY <1>0, BufferFields
<1>1. CASE HandleEvent
  <2> DEFINE c == Head(ring).container
             t == Head(ring).ts
  <2>0. Head(ring) \in Slot
    BY <1>1 DEF HandleEvent, ConsumeSlot, RingReady, Inv, TypeOK, KernelTypeOK
  <2>1. c \in Containers /\ t \in Ts
    BY <2>0 DEF Slot
  <2>2. UNCHANGED flushed
    BY <1>1 DEF HandleEvent
  <2>3. CASE c \in Unmatched \/ c # k
    BY <1>0, <1>1, <2>1, <2>2, <2>3 DEF HandleEvent
  <2>4. CASE c \notin Unmatched /\ c = k
    <3>1. accepted'[k] = accepted[k] + 1
      BY <1>0, <1>1, <2>4 DEF HandleEvent
    <3>2. buffers'[k].window = Append(buffers[k].window, t)
      <4> DEFINE s == IF buffers[c].window = <<>> THEN t ELSE buffers[c].winStart
                 nb == [buffers[c] EXCEPT !.winStart = s, !.lastEvent = t,
                                          !.window = Append(buffers[c].window, t)]
      <4>1. buffers' = [buffers EXCEPT ![c] = nb]
        BY <1>1, <2>4 DEF HandleEvent
      <4>2. buffers'[k] = nb
        BY <1>0, <2>1, <2>4, <4>1
      <4>3. nb.window = Append(buffers[c].window, t)
        <5>1. buffers[c] \in Buffer /\ s \in Ts
          BY <1>0, <2>1, BufferFields
        <5> QED
          BY <2>1, <5>1, PushIsBuffer
      <4> QED
        BY <2>4, <4>2, <4>3
    <3>3. Len(buffers'[k].window) = Len(buffers[k].window) + 1
      BY <1>w, <2>1, <3>2
    <3> QED
      BY <1>0, <1>w, <2>2, <3>1, <3>3
  <2> QED
    BY <2>3, <2>4
<1>2. CASE ProcessShortWindow
  <2>1. CASE loop.c # k
    BY <1>0, <1>2, <2>1 DEF ProcessShortWindow
  <2>2. CASE loop.c = k
    <3>1. buffers'[k].window = <<>>
      BY <1>0, <1>2, <2>2 DEF ProcessShortWindow, Buffer
    <3>2. flushed'[k] = flushed[k] + Len(buffers[k].window) /\ UNCHANGED accepted
      BY <1>0, <1>2, <2>2 DEF ProcessShortWindow
    <3>3. Len(buffers'[k].window) = 0
      BY <3>1
    <3> QED
      BY <1>0, <1>w, <3>2, <3>3
  <2> QED
    BY <2>1, <2>2
<1>3. CASE EraseBuffer
  <2>1. UNCHANGED <<accepted, flushed>>
    BY <1>3 DEF EraseBuffer, historyVars
  <2>2. buffers'[k] = buffers[k] \/ (buffers'[k] = EmptyBuffer /\ buffers[k].window = <<>>)
    BY <1>0, <1>3 DEF EraseBuffer, EraseOK
  <2> QED
    BY <1>0, <2>1, <2>2 DEF EmptyBuffer
<1>4. CASE AppendLongDump
  <2>1. loop.c \in Containers
    BY <1>4 DEF AppendLongDump, Inv, LoopOK
  <2>2. buffers'[k].window = buffers[k].window
    <3> DEFINE nb == [buffers[loop.c] EXCEPT !.lastDump = loop.ts,
                                             !.count = buffers[loop.c].count + 1]
    <3>1. \/ buffers' = buffers
          \/ buffers' = [buffers EXCEPT ![loop.c] = CloseStream(buffers[loop.c])]
          \/ buffers' = [buffers EXCEPT ![loop.c] = nb]
      BY <1>4 DEF AppendLongDump
    <3>2. nb.window = buffers[loop.c].window
      BY <1>0, <2>1 DEF Buffer
    <3>3. CloseStream(buffers[loop.c]).window = buffers[loop.c].window
      BY <1>0, <2>1, CloseIsBuffer
    <3> HIDE DEF nb
    <3> QED
      BY <1>0, <2>1, <3>1, <3>2, <3>3
  <2> QED
    BY <1>0, <1>4, <2>2 DEF AppendLongDump, historyVars
<1>5. CASE ResetDumpState
  <2>1. buffers'[k].window = buffers[k].window
    BY <1>0, <1>5 DEF ResetDumpState, Buffer
  <2> QED
    BY <1>0, <1>5, <2>1 DEF ResetDumpState, historyVars
<1>6. CASE \E c \in Containers : StopExpiredLongDump(c)
  <2>1. PICK c \in Containers : StopExpiredLongDump(c)
    BY <1>6
  <2>2. buffers'[k].window = buffers[k].window
    BY <1>0, <2>1, CloseIsBuffer DEF StopExpiredLongDump
  <2>3. UNCHANGED historyVars
    BY <2>1 DEF StopExpiredLongDump
  <2> QED
    BY <1>0, <2>2, <2>3 DEF historyVars
<1>7. CASE \/ NotifyDumpComplete \/ DecideWindow \/ ExpiredAllVisited
           \/ CleanupInactiveBuffers \/ (\E c \in Containers : InspectBuffer(c))
           \/ SweepDone \/ SignalStop
  BY <1>0, <1>7
  DEF NotifyDumpComplete, DecideWindow, ExpiredAllVisited, CleanupInactiveBuffers,
      InspectBuffer, SweepDone, SignalStop, historyVars
<1>8. CASE CommandThread
  <2>1. UNCHANGED <<accepted, flushed>>
    BY <1>8 DEF CommandThread, RequestLongDump, OpenDumpFile, ActivateDump,
                DescribeDump, WriteHeader, UseErasedBuffer, historyVars
  <2>2. buffers'[k].window = buffers[k].window
    BY <1>0, <1>8, CommandThreadOnBuffers
  <2> QED
    BY <1>0, <2>1, <2>2
<1>9. CASE Kernel \/ UNCHANGED vars
  BY <1>0, <1>9 DEF Kernel, vars, agentVars, historyVars
<1>10. CASE ClearDumpActive
  <2>1. buffers'[k].window = buffers[k].window
    BY <1>0, <1>10 DEF ClearDumpActive, Buffer
  <2> QED
    BY <1>0, <1>10, <2>1 DEF ClearDumpActive, historyVars
<1> QED
  BY <1>1, <1>2, <1>3, <1>4, <1>5, <1>6, <1>7, <1>8, <1>9, <1>10
  DEF Next, EventLoop

\* No accepted event is lost or sent twice by the agent's buffering.
THEOREM EventsAreConserved == Spec => []EventsConserved
<1>1. Init => EventsConserved
  BY DEF Init, EventsConserved, EmptyBuffer
<1>2. Inv /\ Inv' /\ EraseOK /\ EventsConserved /\ [Next]_vars => EventsConserved'
  BY StepKeepsEvents
<1> QED
  BY <1>1, <1>2, Invariance, EraseInvariance, PTL DEF Spec

-----------------------------------------------------------------------------
(* What a step does to one container's dump: isLongDumpActive falls only on  *)
(* the way to notifyDumpComplete, and a notice is posted only from there.    *)

\* The effect of ending a dump: the flag was set and falls, and the notice is
\* next.
LEMMA ClearOnDump ==
    ASSUME Inv, ClearOK, ClearDumpActive, NEW k \in Containers
    PROVE  /\ UNCHANGED <<dumps, notified>>
           /\ Reporting(k) = 0
           /\ loop'.pc = "notify" /\ loop'.entry = loop.entry
           /\ loop.entry = k => buffers[k].active /\ ~buffers'[k].active
           /\ loop.entry # k => buffers'[k] = buffers[k] /\ Reporting(k)' = 0
<1>0. /\ buffers \in [Containers -> Buffer] /\ loop \in Loop
      /\ loop.entry \in Containers /\ loop.pc = "clear"
  BY DEF Inv, TypeOK, LoopOK, ClearDumpActive
<1> DEFINE nb == [buffers[loop.entry] EXCEPT !.active = FALSE]
<1>1. UNCHANGED <<dumps, notified>> /\ Reporting(k) = 0
  BY <1>0 DEF ClearDumpActive, historyVars, Reporting
<1>2. loop'.pc = "notify" /\ loop'.entry = loop.entry
  BY <1>0 DEF ClearDumpActive, Loop
<1>3. buffers' = [buffers EXCEPT ![loop.entry] = nb]
  BY DEF ClearDumpActive
<1>4. ~nb.active
  BY <1>0, ClearIsBuffer
<1>5. buffers[loop.entry].active
  BY <1>0 DEF ClearOK
<1> HIDE DEF nb
<1>6. loop.entry = k => buffers[k].active /\ ~buffers'[k].active
  BY <1>0, <1>3, <1>4, <1>5
<1>7. loop.entry # k => buffers'[k] = buffers[k] /\ Reporting(k)' = 0
  BY <1>0, <1>2, <1>3 DEF Reporting
<1> QED
  BY <1>1, <1>2, <1>6, <1>7

\* The effect of a step of the event loop on container k's dump.
LEMMA EventLoopOnDump ==
    ASSUME Inv, ClearOK, EventLoop, NEW k \in Containers
    PROVE  /\ buffers'[k].active => buffers[k].active
           /\ UNCHANGED dumps
           /\ \/ /\ buffers'[k].active = buffers[k].active
                 /\ notified'[k] = notified[k]
                 /\ Reporting(k)' = Reporting(k)
              \/ /\ buffers[k].active /\ ~buffers'[k].active
                 /\ notified'[k] = notified[k]
                 /\ Reporting(k) = 0
                 /\ loop'.pc = "notify" /\ loop'.entry = k
              \/ /\ buffers'[k].active = buffers[k].active
                 /\ notified'[k] = notified[k] + 1
                 /\ Reporting(k) = 1 /\ Reporting(k)' = 0
              \/ /\ loop.pc = "erase" /\ loop.entry = k
                 /\ ~buffers'[k].active
                 /\ notified'[k] = notified[k]
                 /\ Reporting(k) = 0 /\ Reporting(k)' = 0
<1>0. /\ \A c \in Containers : buffers[c] \in Buffer
      /\ buffers \in [Containers -> Buffer]
      /\ notified \in [Containers -> Nat]
      /\ loop \in Loop
  BY DEF Inv, TypeOK
<1>1. CASE HandleEvent
  <2> DEFINE c == Head(ring).container
             t == Head(ring).ts
             s == IF buffers[c].window = <<>> THEN t ELSE buffers[c].winStart
             nb == [buffers[c] EXCEPT !.winStart = s, !.lastEvent = t,
                                      !.window = Append(buffers[c].window, t)]
  <2>1. Head(ring) \in Slot
    BY <1>1 DEF HandleEvent, ConsumeSlot, RingReady, Inv, TypeOK, KernelTypeOK
  <2>2. c \in Containers
    BY <2>1 DEF Slot
  <2>3. UNCHANGED <<dumps, notified>>
    BY <1>1 DEF HandleEvent
  <2>4. Reporting(k) = 0 /\ Reporting(k)' = 0
    BY <1>0, <1>1 DEF HandleEvent, Reporting, Loop
  <2>5. buffers' = buffers \/ buffers' = [buffers EXCEPT ![c] = nb]
    BY <1>1 DEF HandleEvent
  <2>6. nb.active = buffers[c].active
    BY <1>0, <2>2 DEF Buffer
  <2> HIDE DEF nb, c
  <2>7. buffers'[k].active = buffers[k].active
    BY <1>0, <2>2, <2>5, <2>6
  <2> QED
    BY <2>3, <2>4, <2>7
<1>2. CASE AppendLongDump
  <2> DEFINE b == buffers[loop.c]
             nb == [b EXCEPT !.lastDump = loop.ts, !.count = b.count + 1]
  <2>1. loop.c \in Containers /\ b \in Buffer
    BY <1>0, <1>2 DEF AppendLongDump, Inv, LoopOK
  <2>2. UNCHANGED <<dumps, notified>> /\ Reporting(k) = 0
    BY <1>2 DEF AppendLongDump, historyVars, Reporting
  <2>3. \/ buffers' = buffers /\ loop' = [loop EXCEPT !.pc = "window"]
        \/ /\ buffers' = [buffers EXCEPT ![loop.c] = CloseStream(b)]
           /\ loop' = [loop EXCEPT !.pc = "clear", !.entry = loop.c,
                                   !.back = "window"]
        \/ /\ buffers' = [buffers EXCEPT ![loop.c] = nb]
           /\ loop' = [loop EXCEPT !.pc = "window"]
    BY <1>2 DEF AppendLongDump
  <2>4. nb.active = b.active
    BY <2>1 DEF Buffer
  <2>5. CloseStream(b).active = b.active
    BY <2>1, CloseIsBuffer
  <2> HIDE DEF nb
  <2>6. loop'.pc \in {"window", "clear"}
    BY <1>0, <2>3 DEF Loop
  <2>7. Reporting(k)' = 0
    BY <2>6 DEF Reporting
  <2>8. buffers'[k].active = buffers[k].active
    BY <1>0, <2>1, <2>3, <2>4, <2>5
  <2> QED
    BY <2>2, <2>7, <2>8
<1>3. CASE NotifyDumpComplete
  <2>1. loop.entry \in Containers /\ loop.pc = "notify"
    BY <1>3 DEF NotifyDumpComplete, Inv, LoopOK
  <2>2. UNCHANGED <<buffers, dumps>>
    BY <1>3 DEF NotifyDumpComplete
  <2>3. Reporting(k)' = 0
    BY <1>0, <1>3 DEF NotifyDumpComplete, Reporting, Loop
  <2>4. notified' = [notified EXCEPT ![loop.entry] = notified[loop.entry] + 1]
    BY <1>3 DEF NotifyDumpComplete
  <2>5. CASE loop.entry = k
    BY <1>0, <2>1, <2>2, <2>3, <2>4, <2>5 DEF Reporting
  <2>6. CASE loop.entry # k
    BY <1>0, <2>1, <2>2, <2>3, <2>4, <2>6 DEF Reporting
  <2> QED
    BY <2>5, <2>6
<1>4. CASE ResetDumpState
  <2> DEFINE b == buffers[loop.entry]
             nb == [b EXCEPT !.path = NoPath, !.count = 0, !.duration = 0]
  <2>1. loop.entry \in Containers /\ b \in Buffer
    BY <1>0, <1>4 DEF ResetDumpState, Inv, LoopOK
  <2>2. buffers' = [buffers EXCEPT ![loop.entry] = nb]
    BY <1>4 DEF ResetDumpState
  <2>3. nb.active = b.active
    BY <2>1 DEF Buffer
  <2>4. UNCHANGED <<dumps, notified>>
    BY <1>4 DEF ResetDumpState, historyVars
  <2>5. Reporting(k) = 0 /\ Reporting(k)' = 0
    BY <1>0, <1>4 DEF ResetDumpState, Reporting, Loop
  <2> HIDE DEF nb
  <2>6. buffers'[k].active = buffers[k].active
    BY <1>0, <2>1, <2>2, <2>3
  <2> QED
    BY <2>4, <2>5, <2>6
<1>5. CASE \/ DecideWindow \/ ExpiredAllVisited \/ CleanupInactiveBuffers
           \/ (\E c \in Containers : InspectBuffer(c)) \/ SweepDone \/ SignalStop
  <2>1. UNCHANGED <<buffers, dumps, notified>>
    BY <1>5 DEF DecideWindow, ExpiredAllVisited, CleanupInactiveBuffers,
                InspectBuffer, SweepDone, SignalStop, historyVars
  <2>2. loop.pc # "notify" /\ loop'.pc # "notify"
    <3>1. CASE DecideWindow \/ ExpiredAllVisited \/ SignalStop
      BY <1>0, <3>1 DEF DecideWindow, ExpiredAllVisited, SignalStop, Loop
    <3> QED
      BY <1>0, <1>5, <3>1, CleanupOnLoop
  <2>3. Reporting(k) = 0 /\ Reporting(k)' = 0
    BY <2>2 DEF Reporting
  <2> QED
    BY <2>1, <2>3
<1>6. CASE ProcessShortWindow
  <2> DEFINE b == buffers[loop.c]
             nb == [b EXCEPT !.window = <<>>, !.winStart = 0]
  <2>1. loop.c \in Containers /\ b \in Buffer
    BY <1>0, <1>6 DEF ProcessShortWindow, Inv, LoopOK
  <2>2. buffers' = [buffers EXCEPT ![loop.c] = nb]
    BY <1>6 DEF ProcessShortWindow
  <2>3. nb.active = b.active
    BY <2>1 DEF Buffer
  <2>4. UNCHANGED <<dumps, notified>>
    BY <1>6 DEF ProcessShortWindow
  <2>5. Reporting(k) = 0 /\ Reporting(k)' = 0
    BY <1>0, <1>6 DEF ProcessShortWindow, Reporting, Loop
  <2> HIDE DEF nb
  <2>6. buffers'[k].active = buffers[k].active
    BY <1>0, <2>1, <2>2, <2>3
  <2> QED
    BY <2>4, <2>5, <2>6
<1>7. CASE \E c \in Containers : StopExpiredLongDump(c)
  <2>1. PICK c \in Containers : StopExpiredLongDump(c)
    BY <1>7
  <2>2. UNCHANGED <<dumps, notified>> /\ Reporting(k) = 0
    BY <2>1 DEF StopExpiredLongDump, historyVars, Reporting
  <2>3. CASE Expired(buffers[c], loop.ts)
    <3>1. /\ buffers' = [buffers EXCEPT ![c] = CloseStream(buffers[c])]
          /\ loop' = [loop EXCEPT !.pc = "clear", !.entry = c,
                                  !.back = "expire", !.todo = @ \ {c}]
      BY <2>1, <2>3 DEF StopExpiredLongDump
    <3>2. Reporting(k)' = 0
      BY <1>0, <3>1 DEF Reporting, Loop
    <3>3. buffers'[k].active = buffers[k].active
      BY <1>0, <3>1, CloseIsBuffer
    <3> QED
      BY <2>2, <3>2, <3>3
  <2>4. CASE ~Expired(buffers[c], loop.ts)
    <3>1. UNCHANGED buffers /\ loop' = [loop EXCEPT !.todo = @ \ {c}]
      BY <2>1, <2>4 DEF StopExpiredLongDump
    <3>2. Reporting(k)' = 0
      BY <1>0, <2>1, <3>1 DEF StopExpiredLongDump, Reporting, Loop
    <3> QED
      BY <2>2, <3>1, <3>2
  <2> QED
    BY <2>3, <2>4
<1>8. CASE EraseBuffer
  <2>1. UNCHANGED <<dumps, notified>>
    BY <1>8 DEF EraseBuffer, historyVars
  <2>2. loop.pc = "erase" /\ loop'.pc = "sweep" /\ loop.entry \in Containers
    BY <1>0, <1>8 DEF EraseBuffer, Inv, LoopOK, Loop
  <2>3. Reporting(k) = 0 /\ Reporting(k)' = 0
    BY <2>2 DEF Reporting
  <2>4. buffers' = [buffers EXCEPT ![loop.entry] = EmptyBuffer]
    BY <1>8 DEF EraseBuffer
  <2>5. EmptyBuffer.active = FALSE
    BY DEF EmptyBuffer
  <2>6. CASE loop.entry = k
    <3>1. buffers'[k] = EmptyBuffer
      BY <1>0, <2>4, <2>6
    <3> QED
      BY <2>1, <2>2, <2>3, <2>5, <2>6, <3>1
  <2>7. CASE loop.entry # k
    <3>1. buffers'[k] = buffers[k]
      BY <1>0, <2>4, <2>7
    <3> QED
      BY <2>1, <2>3, <3>1
  <2> QED
    BY <2>6, <2>7
<1>9. CASE ClearDumpActive
  <2>1. CASE loop.entry = k
    BY <1>9, <2>1, ClearOnDump
  <2>2. CASE loop.entry # k
    BY <1>9, <2>2, ClearOnDump
  <2> QED
    BY <2>1, <2>2
<1> QED
  BY <1>1, <1>2, <1>3, <1>4, <1>5, <1>6, <1>7, <1>8, <1>9 DEF EventLoop

\* The effect of a step of the command thread on container k's dump: it may
\* become active, and is then counted.
LEMMA CommandThreadOnDump ==
    ASSUME Inv, CommandThread, NEW k \in Containers
    PROVE  /\ notified' = notified
           /\ Reporting(k)' \in {0, Reporting(k)}
           /\ \/ buffers'[k].active = buffers[k].active /\ dumps'[k] >= dumps[k]
              \/ buffers'[k].active /\ dumps'[k] = dumps[k] + 1
<1>0. dumps \in [Containers -> Nat] /\ loop \in Loop
  BY DEF Inv, TypeOK
<1>1. notified' = notified
  BY DEF CommandThread, RequestLongDump, OpenDumpFile, ActivateDump, DescribeDump,
         WriteHeader, UseErasedBuffer, historyVars
<1>2. \/ loop' = loop \/ loop' = [loop EXCEPT !.pc = "stopped"]
      \/ \E rest \in SUBSET known' : loop' = [loop EXCEPT !.todo = rest]
  BY DEF CommandThread, RequestLongDump, OpenDumpFile, ActivateDump, DescribeDump,
         WriteHeader, UseErasedBuffer
<1>3. Reporting(k)' \in {0, Reporting(k)}
  BY <1>0, <1>2 DEF Reporting, Loop
<1>4. dumps' = dumps \/ (ActivateDump /\ dumps' = [dumps EXCEPT ![cmd.c] = dumps[cmd.c] + 1])
  BY DEF CommandThread, RequestLongDump, OpenDumpFile, ActivateDump, DescribeDump,
         WriteHeader, UseErasedBuffer, historyVars
<1>5. ActivateDump => dumps' = [dumps EXCEPT ![cmd.c] = dumps[cmd.c] + 1]
  BY DEF ActivateDump
<1>6. dumps'[k] >= dumps[k]
  BY <1>0, <1>4
<1>7. ActivateDump /\ cmd.c = k => dumps'[k] = dumps[k] + 1
  BY <1>0, <1>5
<1> QED
  BY <1>1, <1>3, <1>6, <1>7, CommandThreadOnBuffers

\* The flag that is about to be cleared stays set.
LEMMA StepKeepsClearOK ==
    ASSUME Inv, ClearOK, [Next]_vars
    PROVE  ClearOK'
<1>0. /\ buffers \in [Containers -> Buffer]
      /\ \A c \in Containers : buffers[c] \in Buffer
      /\ loop \in Loop
  BY DEF Inv, TypeOK
<1> SUFFICES ASSUME loop'.pc = "clear" PROVE buffers'[loop'.entry].active
  BY DEF ClearOK
<1>1. CASE AppendLongDump
  <2> DEFINE b == buffers[loop.c]
  <2>1. loop.c \in Containers /\ b \in Buffer
    BY <1>0, <1>1 DEF AppendLongDump, Inv, LoopOK
  <2>2. loop' # [loop EXCEPT !.pc = "window"]
    BY <1>0 DEF Loop
  <2>3. /\ buffers' = [buffers EXCEPT ![loop.c] = CloseStream(b)]
        /\ b.active
        /\ loop' = [loop EXCEPT !.pc = "clear", !.entry = loop.c,
                                !.back = "window"]
    BY <1>1, <2>2 DEF AppendLongDump
  <2>4. loop'.entry = loop.c
    BY <1>0, <2>3 DEF Loop
  <2> QED
    BY <1>0, <2>1, <2>3, <2>4, CloseIsBuffer
<1>2. CASE \E c \in Containers : StopExpiredLongDump(c)
  <2>1. PICK c \in Containers : StopExpiredLongDump(c)
    BY <1>2
  <2>2. CASE Expired(buffers[c], loop.ts)
    <3>1. /\ buffers' = [buffers EXCEPT ![c] = CloseStream(buffers[c])]
          /\ loop' = [loop EXCEPT !.pc = "clear", !.entry = c,
                                  !.back = "expire", !.todo = @ \ {c}]
      BY <2>1, <2>2 DEF StopExpiredLongDump
    <3>2. loop'.entry = c
      BY <1>0, <3>1 DEF Loop
    <3> QED
      BY <1>0, <2>2, <3>1, <3>2, CloseIsBuffer DEF Expired
  <2>3. CASE ~Expired(buffers[c], loop.ts)
    BY <1>0, <2>1, <2>3 DEF StopExpiredLongDump, Loop
  <2> QED
    BY <2>2, <2>3
<1>3. CASE \/ HandleEvent \/ ClearDumpActive \/ NotifyDumpComplete
           \/ ResetDumpState \/ DecideWindow \/ ProcessShortWindow
           \/ ExpiredAllVisited \/ CleanupInactiveBuffers
           \/ (\E c \in Containers : InspectBuffer(c)) \/ EraseBuffer
           \/ SweepDone \/ SignalStop
  <2>1. CASE HandleEvent
    <3>1. loop' = loop \/ loop' = [loop EXCEPT !.pc = "append",
                 !.c = Head(ring).container, !.ts = Head(ring).ts]
      BY <2>1 DEF HandleEvent
    <3> QED
      BY <1>0, <2>1, <3>1 DEF HandleEvent, Loop
  <2>2. CASE ClearDumpActive \/ NotifyDumpComplete
    BY <1>0, <2>2 DEF ClearDumpActive, NotifyDumpComplete, Loop
  <2>3. CASE ResetDumpState
    BY <1>0, <2>3 DEF ResetDumpState, Loop
  <2>4. CASE DecideWindow \/ ProcessShortWindow
    BY <1>0, <2>4 DEF DecideWindow, ProcessShortWindow, Loop
  <2>5. CASE ExpiredAllVisited \/ SignalStop
    BY <1>0, <2>5 DEF ExpiredAllVisited, SignalStop, Loop
  <2>6. CASE \/ CleanupInactiveBuffers \/ (\E c \in Containers : InspectBuffer(c))
             \/ EraseBuffer \/ SweepDone
    BY <1>0, <2>6, CleanupOnLoop
  <2> QED
    BY <1>3, <2>1, <2>2, <2>3, <2>4, <2>5, <2>6
<1>4. CASE CommandThread
  <2>1. \/ loop' = loop \/ loop' = [loop EXCEPT !.pc = "stopped"]
        \/ \E rest \in SUBSET known' : loop' = [loop EXCEPT !.todo = rest]
    BY <1>4 DEF CommandThread, RequestLongDump, OpenDumpFile, ActivateDump,
                DescribeDump, WriteHeader, UseErasedBuffer
  <2>2. loop.pc = "clear" /\ loop'.entry = loop.entry
    BY <1>0, <2>1 DEF Loop
  <2>3. loop.entry \in Containers /\ buffers[loop.entry].active
    BY <2>2 DEF Inv, LoopOK, ClearOK
  <2> QED
    BY <1>4, <2>2, <2>3, CommandThreadOnBuffers
<1>5. CASE Kernel \/ UNCHANGED vars
  BY <1>5 DEF Kernel, vars, agentVars, ClearOK
<1> QED
  BY <1>1, <1>2, <1>3, <1>4, <1>5 DEF Next, EventLoop

\* Between the close of a dump's stream and the clearing of its flag, no step
\* of the command thread clears the flag first.
THEOREM ClearInvariance == Spec => []ClearOK
<1>1. Init => ClearOK
  BY DEF Init, IdleLoop, ClearOK
<1>2. Inv /\ ClearOK /\ [Next]_vars => ClearOK'
  BY StepKeepsClearOK
<1> QED
  BY <1>1, <1>2, Invariance, PTL DEF Spec

\* A notice is posted for a dump whose flag has fallen; a flag rises only where
\* a dump is counted.
LEMMA StepKeepsNotices ==
    ASSUME Inv, Inv', ClearOK, NoticePerDump, [Next]_vars
    PROVE  NoticePerDump'
<1> SUFFICES ASSUME NEW k \in Containers
             PROVE  notified'[k] + Reporting(k)' + Recording(k)' <= dumps'[k]
  BY DEF NoticePerDump
<1>0. /\ notified[k] \in Nat /\ dumps[k] \in Nat
      /\ notified'[k] \in Nat /\ dumps'[k] \in Nat
      /\ buffers[k].active \in BOOLEAN /\ buffers'[k].active \in BOOLEAN
      /\ notified[k] + Reporting(k) + Recording(k) <= dumps[k]
  <2>1. buffers[k] \in Buffer /\ buffers'[k] \in Buffer
    BY DEF Inv, TypeOK
  <2> QED
    BY <2>1, BufferFields DEF Inv, TypeOK, NoticePerDump
<1>1. /\ Reporting(k) \in {0, 1} /\ Reporting(k)' \in {0, 1}
      /\ Recording(k) \in {0, 1} /\ Recording(k)' \in {0, 1}
  BY DEF Reporting, Recording
<1>r. /\ buffers'[k].active = buffers[k].active => Recording(k)' = Recording(k)
      /\ ~buffers'[k].active => Recording(k)' = 0
      /\ buffers[k].active => Recording(k) = 1
  BY DEF Recording
<1>2. CASE EventLoop
  <2>1. dumps' = dumps
    BY <1>2, EventLoopOnDump
  <2>2. \/ /\ Recording(k)' = Recording(k)
           /\ notified'[k] = notified[k]
           /\ Reporting(k)' = Reporting(k)
        \/ /\ Recording(k) = 1 /\ Recording(k)' = 0
           /\ notified'[k] = notified[k]
           /\ Reporting(k) = 0
        \/ /\ Recording(k)' = Recording(k)
           /\ notified'[k] = notified[k] + 1
           /\ Reporting(k) = 1 /\ Reporting(k)' = 0
        \/ /\ Recording(k)' = 0
           /\ notified'[k] = notified[k]
           /\ Reporting(k) = 0 /\ Reporting(k)' = 0
    BY <1>2, <1>r, EventLoopOnDump
  <2> QED
    BY <1>0, <1>1, <2>1, <2>2
<1>3. CASE CommandThread
  <2>1. /\ notified' = notified
        /\ Reporting(k)' \in {0, Reporting(k)}
        /\ \/ Recording(k)' = Recording(k) /\ dumps'[k] >= dumps[k]
           \/ dumps'[k] = dumps[k] + 1
    BY <1>3, <1>r, CommandThreadOnDump
  <2> QED
    BY <1>0, <1>1, <2>1
<1>4. CASE Kernel \/ UNCHANGED vars
  <2>1. UNCHANGED <<buffers, loop, notified, dumps>>
    BY <1>4 DEF Kernel, vars, agentVars, historyVars
  <2> QED
    BY <1>0, <2>1 DEF Reporting, Recording
<1> QED
  BY <1>2, <1>3, <1>4 DEF Next

\* A dump is reported at most once, and an active one is still to be reported,
\* whatever the two threads do to isLongDumpActive without a lock.
THEOREM OneNoticePerDump == Spec => []NoticePerDump
<1>1. Init => NoticePerDump
  BY DEF Init, IdleLoop, NoticePerDump, Reporting, Recording, EmptyBuffer
<1>2. Inv /\ Inv' /\ ClearOK /\ NoticePerDump /\ [Next]_vars => NoticePerDump'
  BY StepKeepsNotices
<1> QED
  BY <1>1, <1>2, Invariance, ClearInvariance, PTL DEF Spec

-----------------------------------------------------------------------------
(* The refinement: every step is a step of DumpLife or leaves it alone.     *)

Active == {c \in Containers : buffers[c].active}
Told == IF loop.pc = "notify" THEN loop.entry ELSE Idle
Going == IF loop.pc = "erase" THEN loop.entry ELSE Idle

\* A step that leaves the flags, the two counters and what the event loop
\* reports or erases alone is a stuttering step of DumpLife.
LEMMA StutterOfLife ==
    ASSUME \A k \in Containers : buffers'[k].active = buffers[k].active,
           UNCHANGED <<dumps, notified>>,
           Told' = Told, Going' = Going,
           loop'.pc = "stopped" <=> loop.pc = "stopped"
    PROVE  UNCHANGED Life!dumpVars
<1>1. Active' = Active
  BY DEF Active
<1> QED
  BY <1>1 DEF Life!dumpVars, Active, Told, Going

\* Steps of the event loop that neither end nor report a dump nor erase an
\* entry.
LEMMA OtherEventLoopSteps ==
    ASSUME Inv, ClearOK, EventLoop, ~SignalStop,
           loop.pc \notin {"clear", "notify", "sweep", "erase"}
    PROVE  UNCHANGED Life!dumpVars
<1>0. loop \in Loop /\ loop.pc \in LoopPc
  BY DEF Inv, TypeOK, Loop
<1>1. loop'.pc \notin {"notify", "erase", "stopped"} /\ loop.pc # "stopped"
  <2>1. CASE HandleEvent
    <3>1. loop' = loop \/ loop' = [loop EXCEPT !.pc = "append",
                 !.c = Head(ring).container, !.ts = Head(ring).ts]
      BY <2>1 DEF HandleEvent
    <3> QED
      BY <1>0, <2>1, <3>1 DEF HandleEvent, Loop
  <2>2. CASE AppendLongDump
    <3>1. \/ loop' = [loop EXCEPT !.pc = "window"]
          \/ loop' = [loop EXCEPT !.pc = "clear", !.entry = loop.c,
                                  !.back = "window"]
      BY <2>2 DEF AppendLongDump
    <3> QED
      BY <1>0, <2>2, <3>1 DEF AppendLongDump, Loop
  <2>3. CASE ResetDumpState
    <3>1. LoopPc \intersect {"window", "expire"} = {"window", "expire"}
          /\ loop.back \in {"window", "expire"}
      BY <1>0 DEF Loop, LoopPc
    <3> QED
      BY <1>0, <2>3, <3>1 DEF ResetDumpState, Loop
  <2>4. CASE DecideWindow \/ ProcessShortWindow
    BY <1>0, <2>4 DEF DecideWindow, ProcessShortWindow, Loop
  <2>5. CASE \E c \in Containers : StopExpiredLongDump(c)
    BY <1>0, <2>5 DEF StopExpiredLongDump, Loop
  <2>6. CASE ExpiredAllVisited \/ CleanupInactiveBuffers
    BY <1>0, <2>6, CleanupOnLoop DEF ExpiredAllVisited, Loop
  <2> QED
    BY <2>1, <2>2, <2>3, <2>4, <2>5, <2>6
    DEF EventLoop, ClearDumpActive, NotifyDumpComplete, InspectBuffer,
        EraseBuffer, SweepDone
<1>2. \A k \in Containers : /\ buffers'[k].active = buffers[k].active
                            /\ notified'[k] = notified[k]
  BY <1>1, EventLoopOnDump DEF Reporting
<1>3. UNCHANGED <<dumps, notified>>
  BY DEF EventLoop, HandleEvent, AppendLongDump, ClearDumpActive,
         NotifyDumpComplete, ResetDumpState, DecideWindow, ProcessShortWindow,
         StopExpiredLongDump, ExpiredAllVisited, CleanupInactiveBuffers,
         InspectBuffer, EraseBuffer, SweepDone, SignalStop, historyVars
<1>4. Told' = Told /\ Going' = Going
  BY <1>1 DEF Told, Going
<1> QED
  BY <1>1, <1>2, <1>3, <1>4, StutterOfLife

\* The sweep of the cleanup: an entry without a dump is chosen, and leaves
\* with whatever dump was started since.
LEMMA SweepFollowsLife ==
    ASSUME Inv, EventLoop, loop.pc \in {"sweep", "erase"}
    PROVE  [Life!Next]_(Life!dumpVars)
<1>0. /\ loop \in Loop /\ buffers \in [Containers -> Buffer]
      /\ loop.pc # "notify" /\ loop.pc # "stopped"
  BY DEF Inv, TypeOK
<1>1. CASE \E c \in Containers : InspectBuffer(c)
  <2>1. PICK c \in Containers : InspectBuffer(c)
    BY <1>1
  <2>2. UNCHANGED <<buffers, dumps, notified>> /\ loop.pc = "sweep"
    BY <2>1 DEF InspectBuffer, historyVars
  <2>3. CASE Removable(buffers[c], loop.ts)
    <3>1. loop'.pc = "erase" /\ loop'.entry = c
      BY <1>0, <2>1, <2>3 DEF InspectBuffer, Loop
    <3>2. c \notin Active
      BY <2>3 DEF Removable, Active
    <3>3. Life!Choose(c)
      BY <1>0, <2>2, <3>1, <3>2 DEF Life!Choose, Active
    <3> QED
      BY <3>3 DEF Life!Next
  <2>4. CASE ~Removable(buffers[c], loop.ts)
    <3>1. loop'.pc = "sweep"
      BY <1>0, <2>1, <2>2, <2>4 DEF InspectBuffer, Loop
    <3> QED
      BY <2>2, <3>1, StutterOfLife DEF Told, Going
  <2> QED
    BY <2>3, <2>4
<1>2. CASE EraseBuffer
  <2>1. /\ UNCHANGED <<dumps, notified>>
        /\ loop.pc = "erase" /\ loop'.pc = "sweep" /\ loop.entry \in Containers
    BY <1>0, <1>2 DEF EraseBuffer, historyVars, Inv, LoopOK, Loop
  <2>2. buffers' = [buffers EXCEPT ![loop.entry] = EmptyBuffer]
    BY <1>2 DEF EraseBuffer
  <2>3. ~EmptyBuffer.active
    BY DEF EmptyBuffer
  <2>4. Active' = Active \ {loop.entry}
    BY <1>0, <2>1, <2>2, <2>3 DEF Active
  <2>5. PICK k \in Containers : k = loop.entry
    BY <2>1
  <2>6. Life!Leave(k)
    BY <2>1, <2>4, <2>5 DEF Life!Leave, Active
  <2> QED
    BY <2>6 DEF Life!Next
<1>3. CASE SweepDone
  <2>1. /\ UNCHANGED <<buffers, dumps, notified>>
        /\ loop.pc = "sweep" /\ loop'.pc = "poll"
    BY <1>3 DEF SweepDone, IdleLoop, historyVars
  <2> QED
    BY <2>1, StutterOfLife DEF Told, Going
<1> QED
  BY <1>1, <1>2, <1>3
  DEF EventLoop, HandleEvent, AppendLongDump, ClearDumpActive, NotifyDumpComplete,
      ResetDumpState, DecideWindow, ProcessShortWindow, StopExpiredLongDump,
      ExpiredAllVisited, CleanupInactiveBuffers, SignalStop

\* Clearing the flag of a finished dump ends it in DumpLife.
LEMMA ClearEndsLife ==
    ASSUME Inv, ClearOK, ClearDumpActive, NEW k \in Containers, k = loop.entry
    PROVE  Life!End(k)
<1>0. loop.entry \in Containers /\ loop.pc = "clear"
  BY DEF Inv, LoopOK, ClearDumpActive
<1>1. /\ loop'.pc = "notify" /\ loop'.entry = loop.entry
      /\ UNCHANGED <<dumps, notified>>
      /\ buffers[loop.entry].active /\ ~buffers'[loop.entry].active
  BY <1>0, ClearOnDump
<1>2. \A d \in Containers \ {loop.entry} : buffers'[d] = buffers[d]
  BY ClearOnDump
<1>3. Active' = Active \ {loop.entry}
  BY <1>0, <1>1, <1>2 DEF Active
<1>4. loop.entry \in Active
  BY <1>0, <1>1 DEF Active
<1> QED
  BY <1>0, <1>1, <1>3, <1>4 DEF Life!End, Active

\* Posting the notice reports the dump in DumpLife.
LEMMA NotifyReportsLife ==
    ASSUME Inv, NotifyDumpComplete, NEW k \in Containers, k = loop.entry
    PROVE  Life!Report(k)
<1>1. /\ loop \in Loop /\ loop.pc = "notify"
      /\ notified' = [notified EXCEPT ![loop.entry] = notified[loop.entry] + 1]
      /\ UNCHANGED <<buffers, dumps>>
      /\ loop' = [loop EXCEPT !.pc = "reset"]
  BY DEF Inv, TypeOK, NotifyDumpComplete
<1>2. loop'.pc = "reset"
  BY <1>1 DEF Loop
<1> QED
  BY <1>1, <1>2 DEF Life!Report

\* Leaving the event loop stops the agent of DumpLife.
LEMMA SignalStopsLife ==
    ASSUME Inv, SignalStop
    PROVE  Life!Stop
<1>1. loop \in Loop /\ loop.pc = "poll" /\ loop' = [loop EXCEPT !.pc = "stopped"]
      /\ UNCHANGED <<buffers, dumps, notified>>
  BY DEF Inv, TypeOK, SignalStop, historyVars
<1>2. loop'.pc = "stopped"
  BY <1>1 DEF Loop
<1> QED
  BY <1>1, <1>2 DEF Life!Stop

\* Steps of the command thread: making a dump active starts it, and what is
\* left of a request whose buffer was erased may stop the agent.
LEMMA CommandFollowsLife ==
    ASSUME Inv, CommandThread
    PROVE  [Life!Next]_(Life!dumpVars)
<1>0. loop \in Loop
  BY DEF Inv, TypeOK
<1>1. CASE ActivateDump
  <2>1. cmd.c \in Containers
    BY <1>1 DEF ActivateDump, Inv, CmdOK
  <2>2. /\ UNCHANGED <<loop, notified>>
        /\ dumps' = [dumps EXCEPT ![cmd.c] = dumps[cmd.c] + 1]
    BY <1>1 DEF ActivateDump
  <2>3. buffers'[cmd.c].active
    <3> DEFINE b == buffers[cmd.c]
               nb == [b EXCEPT !.start = DumpStart(b),
                               !.end = DumpStart(b) + cmd.duration,
                               !.lastDump = 0, !.active = TRUE]
    <3>1. buffers' = [buffers EXCEPT ![cmd.c] = nb]
      BY <1>1 DEF ActivateDump
    <3>2. b \in Buffer /\ buffers \in [Containers -> Buffer]
      BY <2>1 DEF Inv, TypeOK
    <3>3. nb.active
      BY <3>2 DEF Buffer
    <3> HIDE DEF nb
    <3> QED
      BY <2>1, <3>1, <3>2, <3>3
  <2>4. \A k \in Containers \ {cmd.c} : buffers'[k].active = buffers[k].active
    BY CommandThreadOnBuffers
  <2>5. Active' = Active \union {cmd.c}
    BY <2>1, <2>3, <2>4 DEF Active
  <2>6. PICK k \in Containers : k = cmd.c
    BY <2>1
  <2>7. Life!Start(k)
    BY <2>2, <2>5, <2>6 DEF Life!Start, Active
  <2> QED
    BY <2>7 DEF Life!Next
<1>2. CASE ~ActivateDump
  <2>1. UNCHANGED <<dumps, notified>>
    BY <1>2 DEF CommandThread, RequestLongDump, OpenDumpFile, DescribeDump,
                WriteHeader, UseErasedBuffer, historyVars
  <2>2. \A k \in Containers : buffers'[k].active = buffers[k].active
    BY <1>2, CommandThreadOnBuffers
  <2>3. \/ loop' = loop \/ loop' = [loop EXCEPT !.pc = "stopped"]
        \/ \E rest \in SUBSET known' : loop' = [loop EXCEPT !.todo = rest]
    BY <1>2 DEF CommandThread, RequestLongDump, OpenDumpFile, DescribeDump,
                WriteHeader, UseErasedBuffer
  <2>4. CASE loop.pc # "stopped" /\ loop' = [loop EXCEPT !.pc = "stopped"]
    <3>1. loop'.pc = "stopped"
      BY <1>0, <2>4 DEF Loop
    <3>2. Active' = Active
      BY <2>2 DEF Active
    <3>3. Life!Stop
      BY <2>1, <2>4, <3>1, <3>2 DEF Life!Stop, Active
    <3> QED
      BY <3>3 DEF Life!Next
  <2>5. CASE loop'.pc = loop.pc /\ loop'.entry = loop.entry
    BY <2>1, <2>2, <2>5, StutterOfLife DEF Told, Going
  <2> QED
    BY <1>0, <2>3, <2>4, <2>5 DEF Loop
<1> QED
  BY <1>1, <1>2

\* The agent implements DumpLife: with the flags as the dumps under way and
\* the event loop's step as the report under way, its two threads never leave
\* the abstract life of a dump.
THEOREM AgentImplementsDumpLife == Spec => DumpsFollowLife
<1>1. Init => Life!Init
  BY DEF Init, Life!Init, IdleLoop, EmptyBuffer
<1>2. Inv /\ ClearOK /\ [Next]_vars => [Life!Next]_(Life!dumpVars)
  <2> SUFFICES ASSUME Inv, ClearOK, [Next]_vars
               PROVE  [Life!Next]_(Life!dumpVars)
    OBVIOUS
  <2>1. CASE ClearDumpActive
    <3>1. loop.entry \in Containers
      BY <2>1 DEF Inv, LoopOK, ClearDumpActive
    <3> QED
      BY <2>1, <3>1, ClearEndsLife DEF Life!Next
  <2>2. CASE NotifyDumpComplete
    <3>1. loop.entry \in Containers
      BY <2>2 DEF Inv, LoopOK, NotifyDumpComplete
    <3> QED
      BY <2>2, <3>1, NotifyReportsLife DEF Life!Next
  <2>3. CASE SignalStop
    BY <2>3, SignalStopsLife DEF Life!Next
  <2>7. CASE EventLoop /\ loop.pc \in {"sweep", "erase"}
    BY <2>7, SweepFollowsLife
  <2>4. CASE /\ EventLoop /\ ~ClearDumpActive /\ ~NotifyDumpComplete /\ ~SignalStop
             /\ loop.pc \notin {"sweep", "erase"}
    <3>1. loop.pc \notin {"clear", "notify", "sweep", "erase"}
      BY <2>4 DEF EventLoop, HandleEvent, AppendLongDump, ResetDumpState,
                  DecideWindow, ProcessShortWindow, StopExpiredLongDump,
                  ExpiredAllVisited, CleanupInactiveBuffers, InspectBuffer,
                  EraseBuffer, SweepDone
    <3> QED
      BY <2>4, <3>1, OtherEventLoopSteps
  <2>5. CASE CommandThread
    BY <2>5, CommandFollowsLife
  <2>6. CASE Kernel \/ UNCHANGED vars
    BY <2>6, StutterOfLife DEF Kernel, vars, agentVars, historyVars, Told, Going
  <2> QED
    BY <2>1, <2>2, <2>3, <2>4, <2>5, <2>6, <2>7 DEF Next
<1> QED
  BY <1>1, <1>2, Invariance, ClearInvariance, PTL
  DEF Spec, DumpsFollowLife, Life!Spec

=============================================================================
