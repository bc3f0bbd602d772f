-------------------------- MODULE AgentWindowProofs -------------------------
(***************************************************************************)
(* When the agent posts a window, for every number of CPUs and every order  *)
(* of their timestamps.  The inductive invariant (WindowsOK) says that a    *)
(* window starts at the stamp of its first event, ends with the event that  *)
(* is being handled, and is posted only when the wrapped difference of the  *)
(* two is large enough; a difference that is large because it wrapped means *)
(* that the last event is older than the first.                             *)
(***************************************************************************)
EXTENDS AgentProofs

\* The event of handleEvent is still the last one of its window.
InWindow ==
    \/ loop.pc \in {"append", "window", "post"}
    \/ loop.pc \in {"clear", "notify", "reset"} /\ loop.back = "window"

WindowsOK ==
    /\ \A c \in Containers :
          buffers[c].window # <<>> => buffers[c].window[1] = buffers[c].winStart
    /\ InWindow => LET w == buffers[loop.c].window
                   IN  w # <<>> /\ w[Len(w)] = loop.ts
    /\ loop.pc = "post" => WindowDue(buffers[loop.c], loop.ts)

-----------------------------------------------------------------------------
(* What the steps do to the windows.                                        *)

\* What a step leaves alone of a buffer's window.
SameWindow(k) == /\ buffers'[k].window = buffers[k].window
                 /\ buffers'[k].winStart = buffers[k].winStart

\* requestLongDump leaves the window's start alone as well as its events.
LEMMA CommandThreadOnWindows ==
    ASSUME Inv, CommandThread, NEW k \in Containers
    PROVE  SameWindow(k)
<1>0. /\ \A c \in Containers : buffers[c] \in Buffer
      /\ buffers \in [Containers -> Buffer]
  BY DEF Inv, TypeOK
<1>w. buffers'[k].window = buffers[k].window
  BY CommandThreadOnBuffers
<1>1. CASE OpenDumpFile
  <2> DEFINE b == buffers[cmd.c]
             opened == [b EXCEPT !.stream = "open", !.file = cmd.path]
             failed == [b EXCEPT !.stream = "failed"]
  <2>1. cmd.c \in Containers /\ b \in Buffer
    BY <1>0, <1>1 DEF OpenDumpFile, Inv, CmdOK
  <2>2. buffers' \in {buffers, [buffers EXCEPT ![cmd.c] = opened],
                                [buffers EXCEPT ![cmd.c] = failed]}
    BY <1>1 DEF OpenDumpFile
  <2>3. opened.winStart = b.winStart /\ failed.winStart = b.winStart
    BY <2>1 DEF Buffer
  <2> HIDE DEF opened, failed
  <2> QED
    BY <1>0, <1>w, <2>1, <2>2, <2>3 DEF SameWindow
<1>2. CASE ActivateDump
  <2> DEFINE b == buffers[cmd.c]
             nb == [b EXCEPT !.start = DumpStart(b),
                             !.end = DumpStart(b) + cmd.duration,
                             !.lastDump = 0, !.active = TRUE]
  <2>1. cmd.c \in Containers /\ b \in Buffer
    BY <1>0, <1>2 DEF ActivateDump, Inv, CmdOK
  <2>2. buffers' = [buffers EXCEPT ![cmd.c] = nb]
    BY <1>2 DEF ActivateDump
  <2>3. nb.winStart = b.winStart
    BY <2>1 DEF Buffer
  <2> HIDE DEF nb
  <2> QED
    BY <1>0, <1>w, <2>1, <2>2, <2>3 DEF SameWindow
<1>3. CASE DescribeDump
  <2> DEFINE b == buffers[cmd.c]
             nb == [b EXCEPT !.path = cmd.path, !.count = 0,
                             !.duration = cmd.duration]
  <2>1. cmd.c \in Containers /\ b \in Buffer
    BY <1>0, <1>3 DEF DescribeDump, Inv, CmdOK
  <2>2. buffers' = [buffers EXCEPT ![cmd.c] = nb]
    BY <1>3 DEF DescribeDump
  <2>3. nb.winStart = b.winStart
    BY <2>1 DEF Buffer
  <2> HIDE DEF nb
  <2> QED
    BY <1>0, <1>w, <2>1, <2>2, <2>3 DEF SameWindow
<1>4. CASE UNCHANGED buffers
  BY <1>4 DEF SameWindow
<1> QED
  BY <1>1, <1>2, <1>3, <1>4
  DEF CommandThread, RequestLongDump, WriteHeader, UseErasedBuffer

\* The steps of handleEvent around a long dump, and the walk of the cleanup up
\* to an erase, leave every window alone.
LEMMA DumpStepsOnWindows ==
    ASSUME Inv, NEW k \in Containers,
           \/ AppendLongDump \/ ClearDumpActive \/ NotifyDumpComplete
           \/ ResetDumpState \/ DecideWindow \/ ExpiredAllVisited \/ SignalStop
           \/ CleanupInactiveBuffers \/ SweepDone
           \/ \E c \in Containers : StopExpiredLongDump(c) \/ InspectBuffer(c)
    PROVE  SameWindow(k)
<1>0. /\ \A c \in Containers : buffers[c] \in Buffer
      /\ buffers \in [Containers -> Buffer]
  BY DEF Inv, TypeOK
<1>c. \A b \in Buffer : /\ CloseStream(b).window = b.window
                        /\ CloseStream(b).winStart = b.winStart
  BY DEF CloseStream, Buffer
<1>1. CASE AppendLongDump
  <2> DEFINE nb == [buffers[loop.c] EXCEPT !.lastDump = loop.ts,
                                           !.count = buffers[loop.c].count + 1]
  <2>1. loop.c \in Containers
    BY <1>1 DEF AppendLongDump, Inv, LoopOK
  <2>2. \/ buffers' = buffers
        \/ buffers' = [buffers EXCEPT ![loop.c] = CloseStream(buffers[loop.c])]
        \/ buffers' = [buffers EXCEPT ![loop.c] = nb]
    BY <1>1 DEF AppendLongDump
  <2>3. /\ nb.window = buffers[loop.c].window
        /\ nb.winStart = buffers[loop.c].winStart
    BY <1>0, <2>1 DEF Buffer
  <2> HIDE DEF nb
  <2> QED
    BY <1>0, <1>c, <2>1, <2>2, <2>3 DEF SameWindow
<1>2. CASE ClearDumpActive
  BY <1>0, <1>2 DEF ClearDumpActive, Buffer, SameWindow
<1>3. CASE ResetDumpState
  BY <1>0, <1>3 DEF ResetDumpState, Buffer, SameWindow
<1>4. CASE \E c \in Containers : StopExpiredLongDump(c)
  BY <1>0, <1>c, <1>4 DEF StopExpiredLongDump, SameWindow
<1>5. CASE \/ NotifyDumpComplete \/ DecideWindow \/ ExpiredAllVisited \/ SignalStop
           \/ CleanupInactiveBuffers \/ SweepDone
           \/ \E c \in Containers : InspectBuffer(c)
  BY <1>5 DEF NotifyDumpComplete, DecideWindow, ExpiredAllVisited, SignalStop,
              CleanupInactiveBuffers, SweepDone, InspectBuffer, SameWindow
<1> QED
  BY <1>1, <1>2, <1>3, <1>4, <1>5

\* A difference of timestamps that does not wrap is the true one.
LEMMA MinusOfEarlier ==
    ASSUME NEW a \in Ts, NEW b \in Ts, b <= a
    PROVE  Minus(a, b) = a - b
<1>1. TsModulus \in Nat /\ MaxClock < TsModulus
  BY KernelAssumption, AgentAssumption DEF TsModulus
<1>2. a - b \in 0 .. MaxClock
  BY KernelAssumption DEF Ts
<1>3. \A m, d \in Nat : d < m => d % m = d
  OBVIOUS
<1> QED
  BY <1>1, <1>2, <1>3, KernelAssumption DEF Minus

\* A step that leaves the windows and the handled event alone.
LEMMA QuietStepKeepsWindows ==
    ASSUME Inv, WindowsOK,
           loop'.ts = loop.ts, loop'.c = loop.c,
           \A k \in Containers : SameWindow(k),
           InWindow' => InWindow,
           loop'.pc = "post" => WindowDue(buffers[loop.c], loop.ts)
    PROVE  WindowsOK'
<1>1. \A c \in Containers : buffers'[c].window # <<>>
                              => buffers'[c].window[1] = buffers'[c].winStart
  BY DEF WindowsOK, SameWindow
<1>2. InWindow' => loop.c \in Containers /\ SameWindow(loop.c)
  BY DEF InWindow, Inv, LoopOK
<1>3. InWindow' => LET w == buffers'[loop'.c].window
                   IN  w # <<>> /\ w[Len(w)] = loop'.ts
  BY <1>2 DEF WindowsOK, SameWindow
<1>4. loop'.pc = "post" => WindowDue(buffers'[loop'.c], loop'.ts)
  <2>1. loop'.pc = "post" => SameWindow(loop.c)
    BY <1>2 DEF InWindow
  <2> QED
    BY <2>1 DEF WindowDue, SameWindow
<1> QED
  BY <1>1, <1>3, <1>4 DEF WindowsOK

\* An event opens a window at its own stamp, or joins the one that is open.
LEMMA HandleEventKeepsWindows ==
    ASSUME Inv, WindowsOK, HandleEvent
    PROVE  WindowsOK'
<1> DEFINE c == Head(ring).container
           t == Head(ring).ts
           s == IF buffers[c].window = <<>> THEN t ELSE buffers[c].winStart
           nb == [buffers[c] EXCEPT !.winStart = s, !.lastEvent = t,
                                    !.window = Append(buffers[c].window, t)]
<1>c. CASE c \in Unmatched
  <2>1. UNCHANGED <<buffers, loop>> /\ loop.pc = "poll"
    BY <1>c DEF HandleEvent
  <2> QED
    BY <2>1, QuietStepKeepsWindows DEF SameWindow, InWindow
<1>d. CASE c \notin Unmatched
  <2>1. Head(ring) \in Slot
    BY DEF HandleEvent, ConsumeSlot, RingReady, Inv, TypeOK, KernelTypeOK
  <2>2. t \in Ts /\ c \in Containers
    BY <2>1 DEF Slot
  <2>3. loop' = [loop EXCEPT !.pc = "append", !.c = c, !.ts = t]
    BY <1>d DEF HandleEvent
  <2>4. loop'.pc = "append" /\ loop'.c = c /\ loop'.ts = t
    BY <2>3 DEF Inv, TypeOK, Loop
  <2>5. buffers' = [buffers EXCEPT ![c] = nb] /\ buffers \in [Containers -> Buffer]
    BY <1>d DEF HandleEvent, Inv, TypeOK
  <2>6. /\ buffers[c] \in Buffer /\ buffers[c].window \in Seq(Ts)
        /\ s \in Ts
    BY <2>2, <2>5, BufferFields
  <2>7. nb.winStart = s /\ nb.window = Append(buffers[c].window, t)
    BY <2>2, <2>6, PushIsBuffer DEF Buffer
  <2> DEFINE w == Append(buffers[c].window, t)
  <2>8. w # <<>> /\ w[Len(w)] = t
    BY <2>2, <2>6, SMTT(20)
  <2>9. w[1] = s
    <3>1. CASE buffers[c].window = <<>>
      BY <2>2, <2>6, <3>1
    <3>2. CASE buffers[c].window # <<>>
      <4>1. w[1] = buffers[c].window[1]
        BY <2>2, <2>6, <3>2
      <4> QED
        BY <2>2, <3>2, <4>1 DEF WindowsOK
    <3> QED
      BY <3>1, <3>2
  <2>10. buffers'[c].winStart = s /\ buffers'[c].window = w
    BY <2>2, <2>5, <2>7
  <2>11. \A k \in Containers : k # c => buffers'[k] = buffers[k]
    BY <2>5
  <2> HIDE DEF nb, w, s
  <2>12. \A k \in Containers : buffers'[k].window # <<>>
                                => buffers'[k].window[1] = buffers'[k].winStart
    BY <2>9, <2>10, <2>11 DEF WindowsOK
  <2>13. LET v == buffers'[loop'.c].window IN v # <<>> /\ v[Len(v)] = loop'.ts
    BY <2>4, <2>8, <2>10
  <2> QED
    BY <2>4, <2>12, <2>13 DEF WindowsOK
<1> QED
  BY <1>c, <1>d

\* Posting a window, or erasing a buffer, empties it; the other windows stay.
LEMMA EmptyingKeepsWindows ==
    ASSUME Inv, WindowsOK, ProcessShortWindow \/ EraseBuffer
    PROVE  WindowsOK'
<1>0. loop \in Loop /\ buffers \in [Containers -> Buffer]
  BY DEF Inv, TypeOK
<1>1. PICK k \in Containers :
         /\ buffers'[k].window = <<>>
         /\ \A c \in Containers : c # k => buffers'[c] = buffers[c]
  <2>1. CASE ProcessShortWindow
    <3> DEFINE nb == [buffers[loop.c] EXCEPT !.window = <<>>, !.winStart = 0]
    <3>1. loop.c \in Containers /\ buffers[loop.c] \in Buffer
      BY <1>0, <2>1 DEF ProcessShortWindow, Inv, LoopOK
    <3>2. buffers' = [buffers EXCEPT ![loop.c] = nb]
      BY <2>1 DEF ProcessShortWindow
    <3>3. nb.window = <<>>
      BY <3>1 DEF Buffer
    <3> HIDE DEF nb
    <3> QED
      BY <1>0, <3>1, <3>2, <3>3
  <2>2. CASE EraseBuffer
    <3>1. loop.entry \in Containers
      BY <2>2 DEF EraseBuffer, Inv, LoopOK
    <3>2. buffers' = [buffers EXCEPT ![loop.entry] = EmptyBuffer]
      BY <2>2 DEF EraseBuffer
    <3>3. EmptyBuffer.window = <<>>
      BY DEF EmptyBuffer
    <3> QED
      BY <1>0, <3>1, <3>2, <3>3
  <2> QED
    BY <2>1, <2>2
<1>2. loop'.pc \in {"expire", "sweep"}
  <2>1. CASE ProcessShortWindow
    BY <1>0, <2>1 DEF ProcessShortWindow, Loop
  <2> QED
    BY <1>0, <2>1, CleanupOnLoop
<1>3. \A c \in Containers : buffers'[c].window # <<>>
                              => buffers'[c].window[1] = buffers'[c].winStart
  BY <1>1 DEF WindowsOK
<1> QED
  BY <1>2, <1>3 DEF WindowsOK, InWindow

\* Every step keeps WindowsOK, whatever order the timestamps come in.
LEMMA StepKeepsWindows ==
    ASSUME Inv, WindowsOK, [Next]_vars
    PROVE  WindowsOK'
<1>0. loop \in Loop /\ loop.back \in {"window", "expire"}
  BY DEF Inv, TypeOK, Loop
<1>1. CASE HandleEvent \/ ProcessShortWindow \/ EraseBuffer
  BY <1>1, HandleEventKeepsWindows, EmptyingKeepsWindows
<1>d. CASE DecideWindow
  <2>1. \/ /\ WindowDue(buffers[loop.c], loop.ts)
           /\ loop' = [loop EXCEPT !.pc = "post"]
        \/ loop' = [loop EXCEPT !.pc = "expire", !.todo = known]
    BY <1>d DEF DecideWindow
  <2>2. /\ loop'.ts = loop.ts /\ loop'.c = loop.c
        /\ loop'.pc = "post" => WindowDue(buffers[loop.c], loop.ts)
    BY <1>0, <2>1 DEF Loop
  <2>3. \A k \in Containers : SameWindow(k)
    BY <1>d, DumpStepsOnWindows
  <2>4. InWindow
    BY <1>d DEF DecideWindow, InWindow
  <2> QED
    BY <2>2, <2>3, <2>4, QuietStepKeepsWindows
<1>2. CASE AppendLongDump
  <2>1. \/ loop' = [loop EXCEPT !.pc = "window"]
        \/ loop' = [loop EXCEPT !.pc = "clear", !.entry = loop.c,
                                !.back = "window"]
    BY <1>2 DEF AppendLongDump
  <2>2. /\ loop'.ts = loop.ts /\ loop'.c = loop.c /\ loop'.pc # "post"
        /\ loop.pc = "append"
    BY <1>0, <1>2, <2>1 DEF Loop, AppendLongDump
  <2>3. \A k \in Containers : SameWindow(k)
    BY <1>2, DumpStepsOnWindows
  <2> QED
    BY <2>2, <2>3, QuietStepKeepsWindows DEF InWindow
<1>3. CASE ClearDumpActive \/ NotifyDumpComplete \/ ResetDumpState
  <2>1. \/ loop.pc = "clear" /\ loop' = [loop EXCEPT !.pc = "notify"]
        \/ loop.pc = "notify" /\ loop' = [loop EXCEPT !.pc = "reset"]
        \/ loop.pc = "reset" /\ loop' = [loop EXCEPT !.pc = loop.back, !.entry = Idle]
    BY <1>3 DEF ClearDumpActive, NotifyDumpComplete, ResetDumpState
  <2>2. /\ loop'.ts = loop.ts /\ loop'.c = loop.c /\ loop'.pc # "post"
        /\ loop'.back = loop.back
        /\ \/ loop.pc = "clear" /\ loop'.pc = "notify"
           \/ loop.pc = "notify" /\ loop'.pc = "reset"
           \/ loop.pc = "reset" /\ loop'.pc = loop.back
    BY <1>0, <2>1 DEF Loop
  <2>3. \A k \in Containers : SameWindow(k)
    BY <1>3, DumpStepsOnWindows
  <2>4. InWindow' => InWindow
    BY <1>0, <2>2 DEF InWindow
  <2> QED
    BY <2>2, <2>3, <2>4, QuietStepKeepsWindows
<1>4. CASE \E c \in Containers : StopExpiredLongDump(c)
  <2>1. PICK c \in Containers : StopExpiredLongDump(c)
    BY <1>4
  <2>2. /\ loop.pc = "expire"
        /\ \/ loop' = [loop EXCEPT !.pc = "clear", !.entry = c,
                                   !.back = "expire", !.todo = @ \ {c}]
           \/ loop' = [loop EXCEPT !.todo = @ \ {c}]
    BY <2>1 DEF StopExpiredLongDump
  <2>3. /\ loop'.ts = loop.ts /\ loop'.c = loop.c
        /\ \/ loop'.pc = "clear" /\ loop'.back = "expire"
           \/ loop'.pc = "expire"
    BY <1>0, <2>2 DEF Loop
  <2>4. \A k \in Containers : SameWindow(k)
    BY <1>4, DumpStepsOnWindows
  <2> QED
    BY <2>2, <2>3, <2>4, QuietStepKeepsWindows DEF InWindow
<1>5. CASE \/ ExpiredAllVisited \/ SignalStop \/ CleanupInactiveBuffers
           \/ SweepDone \/ \E c \in Containers : InspectBuffer(c)
  <2>1. loop'.pc \in {"cleanup", "stopped", "poll", "sweep", "erase"}
    <3>1. CASE ExpiredAllVisited \/ SignalStop
      BY <1>0, <3>1 DEF ExpiredAllVisited, SignalStop, Loop
    <3> QED
      BY <1>0, <1>5, <3>1, CleanupOnLoop
  <2>2. \A k \in Containers : SameWindow(k)
    BY <1>5, DumpStepsOnWindows
  <2> QED
    BY <2>1, <2>2 DEF WindowsOK, SameWindow, InWindow
<1>6. CASE CommandThread
  <2>1. \/ loop' = loop \/ loop' = [loop EXCEPT !.pc = "stopped"]
        \/ \E rest \in SUBSET known' : loop' = [loop EXCEPT !.todo = rest]
    BY <1>6 DEF CommandThread, RequestLongDump, OpenDumpFile, ActivateDump,
                DescribeDump, WriteHeader, UseErasedBuffer
  <2>2. /\ loop'.ts = loop.ts /\ loop'.c = loop.c /\ loop'.back = loop.back
        /\ loop'.pc \in {loop.pc, "stopped"}
    BY <1>0, <2>1 DEF Loop
  <2>3. \A k \in Containers : SameWindow(k)
    BY <1>6, CommandThreadOnWindows
  <2>4. InWindow' => InWindow
    BY <2>2 DEF InWindow
  <2>5. loop'.pc = "post" => loop.pc = "post"
    BY <2>2
  <2> QED
    BY <2>2, <2>3, <2>4, <2>5, QuietStepKeepsWindows DEF WindowsOK
<1>7. CASE Kernel \/ UNCHANGED vars
  <2>1. UNCHANGED agentVars
    BY <1>7 DEF Kernel, vars
  <2> QED
    BY <2>1, QuietStepKeepsWindows DEF agentVars, SameWindow, InWindow, WindowsOK
<1> QED
  BY <1>1, <1>d, <1>2, <1>3, <1>4, <1>5, <1>6, <1>7 DEF Next, EventLoop

\* The inductive invariant about windows.
THEOREM WindowInvariance == Spec => []WindowsOK
<1>1. Init => WindowsOK
  BY DEF Init, IdleLoop, EmptyBuffer, WindowsOK, InWindow
<1>2. Inv /\ WindowsOK /\ [Next]_vars => WindowsOK'
  BY StepKeepsWindows
<1> QED
  BY <1>1, <1>2, Invariance, PTL DEF Spec

\* Any number of CPUs, any order of their timestamps: processShortWindow sends
\* a window whose events span the configured seconds, or one in which an event
\* is older than the first.
THEOREM FlushesSpanWindow == Spec => []FlushSpansWindow
<1>1. Inv /\ WindowsOK => FlushSpansWindow
  <2> SUFFICES ASSUME Inv, WindowsOK, loop.pc = "post"
               PROVE  LET w == buffers[loop.c].window
                      IN  \/ \E i, j \in DOMAIN w : w[i] + ShortWindow <= w[j]
                          \/ \E i \in DOMAIN w : w[i] < w[1]
    BY DEF FlushSpansWindow
  <2> DEFINE b == buffers[loop.c]
             w == b.window
  <2>1. loop.c \in Containers /\ b \in Buffer /\ loop.ts \in Ts
    BY DEF Inv, LoopOK, TypeOK, Loop
  <2>2. w \in Seq(Ts) /\ b.winStart \in Ts
    BY <2>1, BufferFields
  <2>3. w # <<>> /\ w[Len(w)] = loop.ts /\ w[1] = b.winStart
    BY <2>1 DEF WindowsOK, InWindow
  <2>4. 1 \in DOMAIN w /\ Len(w) \in DOMAIN w
    BY <2>2, <2>3
  <2>5. b.winStart \in Nat /\ loop.ts \in Nat
    BY <2>1, <2>2, TsIsNat
  <2>6. CASE b.winStart <= loop.ts
    <3>1. loop.ts - b.winStart >= ShortWindow
      BY <2>1, <2>2, <2>6, MinusOfEarlier DEF WindowsOK, WindowDue
    <3>2. b.winStart + ShortWindow <= loop.ts
      BY <2>5, <3>1, AgentAssumption
    <3> QED
      BY <2>3, <2>4, <3>2
  <2>7. CASE loop.ts < b.winStart
    BY <2>3, <2>4, <2>7
  <2> QED
    BY <2>5, <2>6, <2>7
<1> QED
  BY <1>1, WindowInvariance, Invariance, PTL

=============================================================================
