------------------------------ MODULE Features ------------------------------
(***************************************************************************)
(* What becomes of the events of one container on their two ways to the ML   *)
(* service.  The agent posts them in short windows, as JSON, to the server,  *)
(* whose FeatureExtractor makes a vector to score; and it writes them as     *)
(* binary records to a dump that tools/train_from_dump.py splits into        *)
(* windows and turns into the vectors a model is trained on.  A time is      *)
(* converted three times on the way, to unsigned 64 bit, unsigned 32 bit and *)
(* signed 32 bit integers, and events may arrive out of order.               *)
(***************************************************************************)
EXTENDS Integers, Sequences, FiniteSets, SequencesExt

CONSTANTS Ids,            \* the system calls that are made, as ctx->id
          NsPerUs,        \* 1000
          Mod16,          \* 2^16: syscall_id
          Mod32,          \* 2^32: delta_ts_us of a dump record
          Mod64,          \* 2^64: timestamps of the agent
          JavaIntMax,     \* 2^31 - 1: delta_ts_us of the server
          ShortWindow,    \* shortWindowSec, in nanoseconds
          MinEvents,      \* minEventsPerWindow
          TrainWindow,    \* window_duration_us
          Skew,           \* how far an event may be older than one before it
          MaxTime,        \* bound: the clock
          MaxEvents       \* bound: events of the container

\* The clock is far from its end: a time before another one, taken as an
\* unsigned difference, is more than a Java int can hold.
ASSUME FeaturesAssumption ==
    /\ Ids \subseteq Nat
    /\ {NsPerUs, Mod16, Mod32, Mod64, MinEvents, TrainWindow} \subseteq Nat \ {0}
    /\ {JavaIntMax, ShortWindow, Skew, MaxTime, MaxEvents} \subseteq Nat
    /\ MaxTime + NsPerUs * (JavaIntMax + 1) <= Mod64

VARIABLES
    made,         \* the events the agent has handled (history)
    window,       \* currentShortWindow
    json,         \* the last window posted, and how many events were made by then
    phase,        \* of the dump: off, on, closed, split
    start, from,  \* longDumpStartTsNs; the events made before the dump (history)
    lastDump,     \* lastDumpTsNs
    file,         \* the records of the dump file
    read,         \* how many of them split_into_windows has gone through
    cumulative, windowStart, current, windows   \* its local variables

dumpVars == <<phase, start, from, lastDump, file>>
splitVars == <<read, cumulative, windowStart, current, windows>>
vars == <<made, window, json, dumpVars, splitVars>>

Time == 1 .. MaxTime
Record == [delta : Nat, id : Nat, class : 0 .. 4, bucket : Nat]
Event == [ts : Time, id : Nat, class : 0 .. 4, bucket : Nat]

-----------------------------------------------------------------------------
(* The tracepoint program.                                                   *)

FileCalls == (0 .. 8) \union (16 .. 23) \union {32, 33} \union (72 .. 95)
             \union {162, 213, 217, 232, 233} \union (253 .. 255)
             \union (257 .. 270) \union {281, 283, 284, 286, 287}
             \union (290 .. 294) \union {306, 316, 332} \union (425 .. 427)
             \union {441}
NetCalls == (41 .. 55) \union {288, 299, 307}
ProcCalls == (13 .. 15) \union {24, 39} \union (56 .. 62)
             \union {101, 102} \union (104 .. 110) \union (112 .. 114)
             \union {121} \union (124 .. 126) \union {131, 133, 157, 158, 186}
             \union {200, 203, 204, 231, 234, 247, 272, 308, 322, 435}
MemCalls == (9 .. 12) \union (25 .. 31) \union {67} \union (149 .. 152)
            \union {202, 218, 319, 324, 325, 440, 449}

\* ARG_CLASS_OTHER, FILE, NET, PROC and MEM are 0 to 4.
classify_arg_class(id) ==
    CASE id \in FileCalls -> 1
      [] id \in NetCalls  -> 2
      [] id \in ProcCalls -> 3
      [] id \in MemCalls  -> 4
      [] OTHER -> 0

\* The class is that of the full id, of which the event keeps 16 bits.
handle_sys_enter(id, ts) ==
    [ts |-> ts, id |-> id % Mod16, class |-> classify_arg_class(id), bucket |-> 0]

-----------------------------------------------------------------------------
(* The agent: serialization.cpp, handleEvent and appendLongDump.             *)

\* The difference of two uint64_t.
Since(ts, prev) == IF ts >= prev THEN ts - prev ELSE Mod64 + ts - prev

Nanoseconds(ns) == ns                 \* mutation: no conversion
nsToUs(ns) == ns \div NsPerUs

RecordWith(e, delta) ==
    [delta |-> delta, id |-> e.id, class |-> e.class, bucket |-> e.bucket]

WideRecord(e, prev) ==                \* mutation: delta_ts_us as uint64_t
    RecordWith(e, nsToUs(Since(e.ts, prev)))
makeTraceRecord(e, prev) == RecordWith(e, nsToUs(Since(e.ts, prev)) % Mod32)

SincePrevious(es) ==                  \* mutation: deltas as in the dump
    [i \in DOMAIN es |->
       RecordWith(es[i], nsToUs(Since(es[i].ts, es[IF i = 1 THEN 1 ELSE i - 1].ts)))]
buildWindowJson(es) ==
    [i \in DOMAIN es |->
       RecordWith(es[i], nsToUs(Since(es[i].ts, Head(es).ts)))]

\* processShortWindow, once the window is old and full enough.
PostWindow(w) ==
    IF /\ Since(Last(w).ts, Head(w).ts) >= ShortWindow
       /\ Len(w) >= MinEvents
      THEN /\ json' = [records |-> buildWindowJson(w), events |-> w,
                       upto |-> Len(made) + 1]
           /\ window' = <<>>
      ELSE window' = w /\ UNCHANGED json

DeltaFromStart(e) ==                  \* mutation: the offset from the start
    /\ file' = IF phase = "on" THEN Append(file, makeTraceRecord(e, start)) ELSE file
    /\ lastDump' = IF phase = "on" THEN e.ts ELSE lastDump
appendLongDump(e) ==
    IF phase = "on"
      THEN /\ file' = Append(file, makeTraceRecord(e, IF lastDump = 0
                                                        THEN start ELSE lastDump))
           /\ lastDump' = e.ts
      ELSE UNCHANGED <<file, lastDump>>

\* Events wait in the ring in the order of their slots, not of their times.
handleEvent(id, ts) ==
    LET e == handle_sys_enter(id, ts) IN
    /\ phase \in {"off", "on"}
    /\ Len(made) < MaxEvents
    /\ \A i \in DOMAIN made : made[i].ts <= ts + Skew
    /\ made' = Append(made, e)
    /\ appendLongDump(e)
    /\ PostWindow(Append(window, e))
    /\ UNCHANGED <<phase, start, from, splitVars>>

\* startLongDump: the last event's time, or the clock before the first one.
StartDump(now) ==
    /\ phase = "off"
    /\ phase' = "on"
    /\ start' = IF made = <<>> THEN now ELSE Last(made).ts
    /\ from' = Len(made)
    /\ UNCHANGED <<made, window, json, lastDump, file, splitVars>>

CloseDump ==
    /\ phase = "on"
    /\ phase' = "closed"
    /\ UNCHANGED <<made, window, json, start, from, lastDump, file, splitVars>>

\* The agent dies: what the stream had not written yet is lost, and half a
\* record at the end is skipped by parse_dump_file.
Crash(kept) ==
    /\ phase = "on"
    /\ phase' = "closed"
    /\ file' = SubSeq(file, 1, kept)
    /\ UNCHANGED <<made, window, json, start, from, lastDump, splitVars>>

-----------------------------------------------------------------------------
(* The trainer: split_into_windows, one record of the loop at a time.        *)

OverFull(time) == time - windowStart > TrainWindow      \* mutation: > for >=
Exceeded(time) == time - windowStart >= TrainWindow

\* windows.append(current_window)
Keep == IF current = <<>> THEN windows ELSE Append(windows, current)

SplitDrop(r, time) ==                 \* mutation: the record is not carried over
    /\ windows' = Keep
    /\ current' = <<>>
    /\ windowStart' = time - ((time - windowStart) % TrainWindow)
\* The while loop, past the slots without a record.
StartSlot(r, time) ==
    /\ windows' = Keep
    /\ current' = <<r>>
    /\ windowStart' = time - ((time - windowStart) % TrainWindow)

SplitRecord ==
    LET r == file[read + 1]
        time == cumulative + r.delta
    IN  /\ phase = "closed"
        /\ read < Len(file)
        /\ read' = read + 1
        /\ cumulative' = time
        /\ IF Exceeded(time)
             THEN StartSlot(r, time)
             ELSE current' = Append(current, r) /\ UNCHANGED <<windows, windowStart>>
        /\ UNCHANGED <<made, window, json, dumpVars>>

SplitEnds ==
    /\ phase = "closed"
    /\ read = Len(file)
    /\ phase' = "split"
    /\ windows' = Keep
    /\ current' = <<>>
    /\ UNCHANGED <<made, window, json, start, from, lastDump, file,
                   read, cumulative, windowStart>>

-----------------------------------------------------------------------------
(* The two feature extractors.  A row of the transition matrix is what is    *)
(* made of the numbers of its bigrams, as are their entropy and their        *)
(* variety.                                                                  *)

mapSyscallToAlphabet(id) ==
    CASE id = 59 -> 0               [] id \in {2, 257} -> 1
      [] id = 0 -> 2                [] id = 1 -> 3
      [] id = 3 -> 4                [] id \in {4, 5} -> 5
      [] id = 42 -> 6               [] id = 43 -> 7
      [] id \in {44, 46} -> 8       [] id \in {45, 47} -> 9
      [] id \in {41, 49, 50} -> 10  [] id \in {57, 56} -> 11
      [] id \in {9, 10} -> 12       [] id \in {90, 91} -> 13
      [] id \in {87, 84} -> 14      [] id = 82 -> 15
      [] id \in {102, 105} -> 16    [] id = 160 -> 17
      [] id = 101 -> 18             [] id \in {165, 166} -> 19
      [] id = 12 -> 20              [] id = 78 -> 21
      [] id = 162 -> 22             [] OTHER -> 23

mapping == << {59}, {2, 257}, {0}, {1}, {3}, {4, 5}, {42}, {43}, {44, 46},
              {45, 47}, {41, 49, 50}, {57, 56}, {9, 10}, {90, 91}, {87, 84},
              {82}, {102, 105}, {160}, {101}, {165, 166}, {12}, {78}, {162} >>

Unmapped(id) ==                       \* mutation: mapping.get(id, 0)
    IF \E k \in DOMAIN mapping : id \in mapping[k]
      THEN (CHOOSE k \in DOMAIN mapping : id \in mapping[k]) - 1 ELSE 0
map_syscall_to_alphabet(id) ==
    IF \E k \in DOMAIN mapping : id \in mapping[k]
      THEN (CHOOSE k \in DOMAIN mapping : id \in mapping[k]) - 1 ELSE 23

mapBucket(class, bucket) == (class * 4 + bucket) % 12

map_bucket(class, bucket) ==
    LET idx == (class * 4 + bucket) % 12 IN IF idx > 11 THEN 11 ELSE idx

CountOf(s) == [x \in Range(s) |-> Cardinality({i \in DOMAIN s : s[i] = x})]

Bigrams(s) == CountOf([i \in 1 .. Len(s) - 1 |-> <<s[i], s[i + 1]>>])

\* FeatureExtractor.extract
extract(rs) ==
    [transitions |-> Bigrams([i \in DOMAIN rs |-> mapSyscallToAlphabet(rs[i].id)]),
     buckets |-> CountOf([i \in DOMAIN rs |-> mapBucket(rs[i].class, rs[i].bucket)]),
     fileOps |-> Cardinality({i \in DOMAIN rs : rs[i].class = 0}),
     netOps  |-> Cardinality({i \in DOMAIN rs : rs[i].class = 1}),
     total   |-> Len(rs),
     lastTs  |-> Last(rs).delta * NsPerUs]

\* train_from_dump.extract_features
extract_features(rs) ==
    [transitions |-> Bigrams([i \in DOMAIN rs |-> map_syscall_to_alphabet(rs[i].id)]),
     buckets |-> CountOf([i \in DOMAIN rs |-> map_bucket(rs[i].class, rs[i].bucket)]),
     fileOps |-> Cardinality({i \in DOMAIN rs : rs[i].class = 1}),
     netOps  |-> Cardinality({i \in DOMAIN rs : rs[i].class = 2}),
     total   |-> Len(rs),
     lastTs  |-> Last(rs).delta * NsPerUs]

\* The server cannot read a delta that is no int, and answers 400.
Accepted(rs) == \A i \in DOMAIN rs : rs[i].delta <= JavaIntMax

-----------------------------------------------------------------------------

Init ==
    /\ made = <<>> /\ window = <<>>
    /\ json = [records |-> <<>>, events |-> <<>>, upto |-> 0]
    /\ phase = "off" /\ start = 0 /\ from = 0 /\ lastDump = 0 /\ file = <<>>
    /\ read = 0 /\ cumulative = 0 /\ windowStart = 0
    /\ current = <<>> /\ windows = <<>>

Next ==
    \/ \E id \in Ids, ts \in Time : handleEvent(id, ts)
    \/ \E now \in Time : StartDump(now)
    \/ CloseDump
    \/ \E kept \in 0 .. Len(file) : Crash(kept)
    \/ SplitRecord
    \/ SplitEnds

Spec == Init /\ [][Next]_vars

-----------------------------------------------------------------------------

\* Times, records and windows keep their shapes; a delta fits its width.
TypeOK ==
    /\ made \in Seq(Event)
    /\ window \in Seq(Event)
    /\ json \in [records : Seq(Record), events : Seq(Event), upto : Nat]
    /\ phase \in {"off", "on", "closed", "split"}
    /\ start \in 0 .. MaxTime
    /\ from \in Nat
    /\ lastDump \in 0 .. MaxTime
    /\ file \in Seq([delta : 0 .. Mod32 - 1, id : Nat, class : 0 .. 4, bucket : Nat])
    /\ read \in 0 .. Len(file)
    /\ cumulative \in Nat
    /\ windowStart \in 0 .. cumulative
    /\ current \in Seq(Record)
    /\ windows \in Seq(Seq(Record))

\* A window that the server takes has kept the time of every event to the
\* microsecond: no wrapped difference is mistaken for a time, whatever order the
\* events came in (buildWindowJson, FeatureExtractor.extract's ts).
TimesSurvive ==
    Accepted(json.records) =>
        \A i \in DOMAIN json.records :
            LET ts == Head(json.events).ts + json.records[i].delta * NsPerUs
            IN  ts <= json.events[i].ts /\ json.events[i].ts < ts + NsPerUs

\* What a single late event costs: a window is refused, all of it, when an event
\* is older than the first one or the last is too far away, and for no other
\* reason (handleEvent's windowDuration, TraceRecord.deltaTsUs).
RefusedOnlyIfLate ==
    ~Accepted(json.records) =>
        \E i \in DOMAIN json.events :
            \/ json.events[i].ts < Head(json.events).ts
            \/ json.events[i].ts >= Head(json.events).ts + NsPerUs * (JavaIntMax + 1)

\* The time of a dump record after its predecessor, as the agent saw it.
Gap(k) == made[from + k].ts - IF k = 1 THEN start ELSE made[from + k - 1].ts

InOrder(k) == \A i \in 1 .. k : Gap(i) \in 0 .. NsPerUs * Mod32 - 1

\* The trainer's clock runs behind by less than a microsecond for each record,
\* as long as no record is older than the one before it or 2^32 us younger
\* (makeTraceRecord, split_into_windows' cumulative_ts).
DumpDrift ==
    read > 0 /\ InOrder(read) =>
        LET late == made[from + read].ts - start - NsPerUs * cumulative
        IN  0 <= late /\ late <= (NsPerUs - 1) * read

\* Splitting loses no record, repeats none and keeps their order, whatever the
\* deltas are and wherever a crash has cut the file (split_into_windows).
SplitKeepsRecords ==
    FlattenSeq(windows) \o current = SubSeq(file, 1, read)

Total(rs) == FoldLeft(LAMBDA sum, r : sum + r.delta, 0, rs)

\* No window a model is trained on is empty, or longer than window_duration_us
\* (split_into_windows).
SplitInSlots ==
    \A w \in Range(windows) : w # <<>> /\ Total(Tail(w)) < TrainWindow

\* The dump's records of the events in the last window that was posted.
SameEvents == SubSeq(file, json.upto - Len(json.events) + 1 - from, json.upto - from)

\* The vector to be scored and the one a model is trained on have the same
\* transitions and buckets for the same events, though one was made by the
\* server from JSON and the other by the trainer from the file
\* (FeatureExtractor.extract, extract_features).
PipelinesAgree ==
    /\ Len(json.events) > 0
    /\ phase # "off"
    /\ json.upto - Len(json.events) >= from
    /\ json.upto - from <= Len(file)
    => LET scored == extract(json.records)
           trained == extract_features(SameEvents)
       IN  scored.transitions = trained.transitions
           /\ scored.buckets = trained.buckets

-----------------------------------------------------------------------------
(* What the comments say.                                                    *)

\* "Argument class constants (must match server-side definitions)"
\* (ebpf/deepkernel.bpf.c:8): the server counts as file and network operations
\* the events the tracepoint program classified so.
ClassesMatchServer ==
    json.records # <<>> /\ Accepted(json.records) =>
        /\ extract(json.records).fileOps
             = Cardinality({i \in DOMAIN json.events : json.events[i].class = 1})
        /\ extract(json.records).netOps
             = Cardinality({i \in DOMAIN json.events : json.events[i].class = 2})

=============================================================================
