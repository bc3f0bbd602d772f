--------------------------- MODULE FeaturesProofs ---------------------------
(***************************************************************************)
(* For every choice of the widths, windows and bounds: what happens to the   *)
(* times of events on their way through the two formats.  FeaturesInv says   *)
(* of both formats which difference every delta was made from; the claims    *)
(* about accepted, refused and cumulated times are arithmetic on top of it.  *)
(***************************************************************************)
EXTENDS Features, SequenceTheorems, TLAPS

DumpRecord == [delta : 0 .. Mod32 - 1, id : Nat, class : 0 .. 4, bucket : Nat]

\* Each delta of the posted window is the time since its first event.
JsonDeltas ==
    /\ Len(json.records) = Len(json.events)
    /\ \A i \in 1 .. Len(json.events) :
          json.records[i].delta = nsToUs(Since(json.events[i].ts, json.events[1].ts))

Prev(k) == IF k = 1 THEN start ELSE made[from + k - 1].ts

\* Each delta of the dump is the time since the record before it, cut to 32 bit.
FileDeltas ==
    /\ from + Len(file) <= Len(made)
    /\ \A k \in 1 .. Len(file) :
          file[k].delta = nsToUs(Since(made[from + k].ts, Prev(k))) % Mod32

\* While the dump is written it ends with the last event, and is not read yet.
WhileOpen ==
    /\ phase = "off" => file = <<>> /\ lastDump = 0
    /\ phase = "on" => /\ Len(made) = from + Len(file)
                       /\ lastDump = IF file = <<>> THEN 0 ELSE made[Len(made)].ts
    /\ phase \in {"off", "on"} => read = 0

ReadNothing == read = 0 => cumulative = 0

FeaturesInv ==
    TypeOK /\ JsonDeltas /\ FileDeltas /\ WhileOpen /\ ReadNothing /\ DumpDrift

-----------------------------------------------------------------------------

\* The assumption, constant by constant.
LEMMA ConstantTypes ==
    /\ NsPerUs \in Nat \ {0} /\ Mod16 \in Nat \ {0} /\ Mod32 \in Nat \ {0}
    /\ Mod64 \in Nat \ {0} /\ MinEvents \in Nat \ {0} /\ TrainWindow \in Nat \ {0}
    /\ JavaIntMax \in Nat /\ ShortWindow \in Nat /\ MaxTime \in Nat
    /\ Ids \subseteq Nat
    /\ MaxTime + NsPerUs * (JavaIntMax + 1) <= Mod64
BY FeaturesAssumption

\* Division rounds down.
LEMMA DivBounds ==
    ASSUME NEW n \in Nat \ {0}, NEW x \in Nat
    PROVE  /\ x \div n \in Nat
           /\ n * (x \div n) <= x
           /\ x < n * (x \div n) + n
OBVIOUS

\* A remainder is less than its modulus.
LEMMA ModBounds ==
    ASSUME NEW n \in Nat \ {0}, NEW x \in Nat
    PROVE  x % n \in 0 .. n - 1
OBVIOUS

\* What fits a width is not changed by cutting to it.
LEMMA SmallMod ==
    ASSUME NEW n \in Nat \ {0}, NEW x \in 0 .. n - 1
    PROVE  x % n = x
OBVIOUS

\* Multiplying keeps numbers apart by a whole factor.
LEMMA MulMono ==
    ASSUME NEW n \in Nat \ {0}, NEW a \in Nat, NEW b \in Nat, a < b
    PROVE  n * a + n <= n * b
OBVIOUS

\* nsToUs rounds down; what is less than n microseconds gives less than n.
LEMMA UsBounds ==
    ASSUME NEW x \in Nat
    PROVE  /\ nsToUs(x) \in Nat
           /\ NsPerUs * nsToUs(x) <= x
           /\ x < NsPerUs * nsToUs(x) + NsPerUs
           /\ \A n \in Nat : x < NsPerUs * n => nsToUs(x) < n
           /\ \A n \in Nat : NsPerUs * n <= x => n <= nsToUs(x)
<1> DEFINE q == x \div NsPerUs
<1>1. q \in Nat /\ NsPerUs * q <= x /\ x < NsPerUs * q + NsPerUs
  BY ConstantTypes, DivBounds
<1> HIDE DEF q
<1>2. ASSUME NEW n \in Nat, x < NsPerUs * n PROVE q < n
  <2>1. SUFFICES ASSUME ~(q < n) PROVE FALSE
    OBVIOUS
  <2>2. NsPerUs * n <= NsPerUs * q
    <3>1. CASE n = q BY <3>1, <1>1, ConstantTypes
    <3>2. CASE n < q BY <3>2, <1>1, ConstantTypes, MulMono
    <3> QED BY <3>1, <3>2, <2>1, <1>1
  <2> QED BY <2>2, <1>1, <1>2, ConstantTypes
<1>3. ASSUME NEW n \in Nat, NsPerUs * n <= x PROVE n <= q
  <2>1. SUFFICES ASSUME q < n PROVE FALSE
    BY <1>1
  <2>2. NsPerUs * q + NsPerUs <= NsPerUs * n
    BY <2>1, <1>1, ConstantTypes, MulMono
  <2> QED BY <2>2, <1>1, <1>3, ConstantTypes
<1> QED BY <1>1, <1>2, <1>3 DEF q, nsToUs

\* An unsigned difference of two times: exact, or beyond what a Java int holds.
LEMMA SinceTypes ==
    ASSUME NEW a \in 0 .. MaxTime, NEW b \in 0 .. MaxTime
    PROVE  /\ Since(a, b) \in Nat
           /\ a >= b => Since(a, b) = a - b
           /\ a < b => Since(a, b) >= NsPerUs * (JavaIntMax + 1)
<1> DEFINE c == NsPerUs * (JavaIntMax + 1)
<1>1. c \in Nat /\ MaxTime + c <= Mod64
  BY ConstantTypes
<1> HIDE DEF c
<1>2. /\ Since(a, b) \in Nat
      /\ a >= b => Since(a, b) = a - b
      /\ a < b => Since(a, b) >= c
  BY <1>1, ConstantTypes DEF Since
<1> QED BY <1>2 DEF c

\* handle_sys_enter makes an event with the time it is given.
LEMMA EventTypes ==
    ASSUME NEW id \in Ids, NEW ts \in Time
    PROVE  /\ handle_sys_enter(id, ts) \in Event
           /\ handle_sys_enter(id, ts).ts = ts
<1>1. classify_arg_class(id) \in 0 .. 4
  BY DEF classify_arg_class
<1>2. id % Mod16 \in Nat
  BY ConstantTypes, ModBounds
<1> QED BY <1>1, <1>2 DEF handle_sys_enter, Event

\* A record of either format has the type of its format.
LEMMA RecordTypes ==
    ASSUME NEW e \in Event, NEW prev \in 0 .. MaxTime
    PROVE  /\ nsToUs(Since(e.ts, prev)) \in Nat
           /\ RecordWith(e, nsToUs(Since(e.ts, prev))) \in Record
           /\ makeTraceRecord(e, prev) \in DumpRecord
           /\ makeTraceRecord(e, prev).delta = nsToUs(Since(e.ts, prev)) % Mod32
<1>1. e.ts \in 0 .. MaxTime /\ e.id \in Nat /\ e.class \in 0 .. 4 /\ e.bucket \in Nat
  BY ConstantTypes DEF Event, Time
<1>2. Since(e.ts, prev) \in Nat
  BY <1>1, SinceTypes
<1>3. nsToUs(Since(e.ts, prev)) \in Nat
  BY <1>2, UsBounds
<1>4. nsToUs(Since(e.ts, prev)) % Mod32 \in 0 .. Mod32 - 1
  BY <1>3, ModBounds, ConstantTypes
<1> QED BY <1>1, <1>3, <1>4 DEF RecordWith, makeTraceRecord, Record, DumpRecord

\* buildWindowJson makes one record per event, with its delta from the first.
LEMMA JsonTypes ==
    ASSUME NEW w \in Seq(Event), w # <<>>
    PROVE  /\ buildWindowJson(w) \in Seq(Record)
           /\ Len(buildWindowJson(w)) = Len(w)
           /\ \A i \in 1 .. Len(w) :
                 buildWindowJson(w)[i].delta = nsToUs(Since(w[i].ts, w[1].ts))
<1>1. Len(w) \in Nat /\ Len(w) >= 1 /\ DOMAIN w = 1 .. Len(w) /\ Head(w) = w[1]
  OBVIOUS
<1>2. \A i \in 1 .. Len(w) : w[i] \in Event
  OBVIOUS
<1>3. w[1].ts \in 0 .. MaxTime
  BY <1>1, <1>2, ConstantTypes DEF Event, Time
<1> DEFINE R(i) == RecordWith(w[i], nsToUs(Since(w[i].ts, w[1].ts)))
<1>4. \A i \in 1 .. Len(w) : R(i) \in Record
  BY <1>2, <1>3, RecordTypes
<1>5. buildWindowJson(w) = [i \in 1 .. Len(w) |-> R(i)]
  BY <1>1 DEF buildWindowJson
<1>6. \A i \in 1 .. Len(w) : R(i).delta = nsToUs(Since(w[i].ts, w[1].ts))
  BY DEF RecordWith
<1> HIDE DEF R
<1>7. [i \in 1 .. Len(w) |-> R(i)] \in Seq(Record)
  BY <1>1, <1>4
<1> QED BY <1>1, <1>5, <1>6, <1>7

-----------------------------------------------------------------------------

\* Nothing is made, posted, written or read at first.
LEMMA InitInv == Init => FeaturesInv
<1> SUFFICES ASSUME Init PROVE FeaturesInv
  OBVIOUS
<1> USE DEF Init
<1>1. json \in [records : Seq(Record), events : Seq(Event), upto : Nat]
  OBVIOUS
<1>2. TypeOK
  BY <1>1, ConstantTypes DEF TypeOK
<1>3. JsonDeltas /\ FileDeltas /\ WhileOpen /\ ReadNothing /\ DumpDrift
  BY DEF JsonDeltas, FileDeltas, WhileOpen, ReadNothing, DumpDrift
<1> QED BY <1>2, <1>3 DEF FeaturesInv

\* processShortWindow: what is posted is made from the window's own events.
LEMMA PostTypes ==
    ASSUME FeaturesInv, NEW w \in Seq(Event), w # <<>>, PostWindow(w)
    PROVE  /\ window' \in Seq(Event)
           /\ json' \in [records : Seq(Record), events : Seq(Event), upto : Nat]
           /\ JsonDeltas'
<1>1. CASE /\ json' = [records |-> buildWindowJson(w), events |-> w,
                       upto |-> Len(made) + 1]
           /\ window' = <<>>
  <2>1. Len(made) + 1 \in Nat
    BY DEF FeaturesInv, TypeOK
  <2>2. /\ json'.records = buildWindowJson(w) /\ json'.events = w
        /\ window' = <<>>
    BY <1>1
  <2>3. json' \in [records : Seq(Record), events : Seq(Event), upto : Nat]
    BY <1>1, <2>1, JsonTypes
  <2>4. JsonDeltas'
    BY <2>2, JsonTypes DEF JsonDeltas
  <2> QED BY <2>2, <2>3, <2>4
<1>2. CASE window' = w /\ UNCHANGED json
  BY <1>2 DEF FeaturesInv, TypeOK, JsonDeltas
<1> QED BY <1>1, <1>2 DEF PostWindow

\* appendLongDump: the record is made from the last two events of the dump.
LEMMA AppendTypes ==
    ASSUME FeaturesInv, phase \in {"off", "on"}, NEW e \in Event,
           appendLongDump(e), made' = Append(made, e),
           UNCHANGED <<phase, start, from, splitVars>>
    PROVE  /\ file' \in Seq(DumpRecord)
           /\ lastDump' \in 0 .. MaxTime
           /\ read' \in 0 .. Len(file')
           /\ FileDeltas'
           /\ WhileOpen'
<1>1. /\ made \in Seq(Event) /\ file \in Seq(DumpRecord)
      /\ start \in 0 .. MaxTime /\ from \in Nat /\ lastDump \in 0 .. MaxTime
  BY DEF FeaturesInv, TypeOK, DumpRecord
<1>2. read = 0 /\ read' = 0
  BY DEF FeaturesInv, WhileOpen, splitVars
<1>3. e.ts \in 1 .. MaxTime
  BY DEF Event, Time
<1>4. /\ Len(made') = Len(made) + 1 /\ made'[Len(made) + 1] = e
      /\ \A k \in 1 .. Len(made) : made'[k] = made[k]
  BY <1>1
<1>5. from + Len(file) <= Len(made) /\ Len(file) \in Nat /\ Len(made) \in Nat
  BY <1>1 DEF FeaturesInv, FileDeltas
<1>6. \A k \in 1 .. Len(file) :
        /\ made'[from + k] = made[from + k]
        /\ Prev(k)' = Prev(k)
  BY <1>1, <1>4, <1>5 DEF Prev
<1>7. \A k \in 1 .. Len(file) :
        file[k].delta = nsToUs(Since(made'[from + k].ts, Prev(k)')) % Mod32
  BY <1>6 DEF FeaturesInv, FileDeltas
<1>8. CASE phase = "off"
  <2>1. UNCHANGED <<file, lastDump>> /\ phase' = "off" /\ file = <<>> /\ lastDump = 0
    BY <1>8 DEF appendLongDump, FeaturesInv, WhileOpen
  <2> QED BY <2>1, <1>1, <1>2, <1>4, <1>5, ConstantTypes DEF FileDeltas, WhileOpen
<1>9. CASE phase = "on"
  <2> DEFINE prev == IF lastDump = 0 THEN start ELSE lastDump
             r == makeTraceRecord(e, prev)
  <2>1. file' = Append(file, r) /\ lastDump' = e.ts /\ phase' = "on"
    BY <1>9 DEF appendLongDump
  <2>2. prev \in 0 .. MaxTime
    BY <1>1
  <2>3. /\ Len(made) = from + Len(file)
        /\ lastDump = IF file = <<>> THEN 0 ELSE made[Len(made)].ts
    BY <1>9 DEF FeaturesInv, WhileOpen
  <2>4. PICK n \in Nat : n = Len(file) + 1
    BY <1>5
  <2>5. prev = Prev(n)'
    <3>1. CASE file = <<>>
      <4>1. n = 1 /\ prev = start /\ start' = start
        BY <3>1, <2>3, <2>4
      <4> QED BY <4>1 DEF Prev
    <3>2. CASE file # <<>>
      <4>1. Len(file) >= 1
        BY <3>2, <1>1
      <4>2. made[Len(made)] \in Event
        BY <1>1, <4>1, <2>3
      <4>3. lastDump = made[Len(made)].ts /\ lastDump # 0
        BY <3>2, <2>3, <4>2 DEF Event, Time
      <4>4. made'[from + n - 1] = made[Len(made)]
        BY <2>3, <2>4, <4>1, <1>1, <1>4
      <4>5. Prev(n)' = made'[from + n - 1].ts
        <5>1. n # 1 /\ from' = from
          BY <2>4, <4>1, <1>5
        <5> QED BY <5>1 DEF Prev
      <4> QED BY <4>3, <4>4, <4>5
    <3> QED BY <3>1, <3>2
  <2>6. r \in DumpRecord /\ r.delta = nsToUs(Since(e.ts, prev)) % Mod32
    BY <2>2, RecordTypes
  <2> HIDE DEF prev, r
  <2>7. /\ file' \in Seq(DumpRecord) /\ Len(file') = Len(file) + 1
        /\ file'[n] = r
        /\ \A k \in 1 .. Len(file) : file'[k] = file[k]
    BY <2>1, <2>4, <2>6, <1>1
  <2>8. made'[from + n] = e
    <3>1. from + n = Len(made) + 1
      BY <2>3, <2>4, <1>1, <1>5
    <3> QED BY <3>1, <1>4
  <2>9. ASSUME NEW k \in 1 .. Len(file')
        PROVE  file'[k].delta = nsToUs(Since(made'[from + k].ts, Prev(k)')) % Mod32
    <3>1. CASE k = n
      BY <3>1, <2>5, <2>6, <2>7, <2>8
    <3>2. CASE k \in 1 .. Len(file)
      BY <3>2, <2>7, <1>7
    <3>3. k = n \/ k \in 1 .. Len(file)
      BY <2>4, <2>7, <1>5
    <3> QED BY <3>1, <3>2, <3>3
  <2>10. FileDeltas'
    <3>1. from' + Len(file') <= Len(made')
      BY <2>3, <2>7, <1>1, <1>4
    <3>2. \A k \in 1 .. Len(file') :
            file'[k].delta = nsToUs(Since(made'[from' + k].ts, Prev(k)')) % Mod32
      BY <2>9
    <3> QED BY <3>1, <3>2 DEF FileDeltas
  <2>11. WhileOpen'
    <3>1. file' # <<>> /\ made'[Len(made')] = e /\ Len(made') = from' + Len(file')
      BY <2>3, <2>7, <1>1, <1>4
    <3> QED BY <3>1, <2>1, <1>2 DEF WhileOpen
  <2> QED BY <2>1, <2>7, <2>10, <2>11, <1>1, <1>2, <1>3
<1> QED BY <1>8, <1>9

\* handleEvent posts and writes the deltas that FeaturesInv describes.
LEMMA EventStep ==
    ASSUME FeaturesInv, NEW id \in Ids, NEW ts \in Time, handleEvent(id, ts)
    PROVE  FeaturesInv'
<1>1. PICK e : e = handle_sys_enter(id, ts)
  OBVIOUS
<1>2. e \in Event
  BY <1>1, EventTypes
<1>3. /\ phase \in {"off", "on"} /\ made' = Append(made, e) /\ appendLongDump(e)
      /\ PostWindow(Append(window, e))
      /\ UNCHANGED <<phase, start, from, splitVars>>
  BY <1>1 DEF handleEvent
<1>4. Append(window, e) \in Seq(Event) /\ Append(window, e) # <<>>
  <2>1. window \in Seq(Event)
    BY DEF FeaturesInv, TypeOK
  <2>2. Append(window, e) \in Seq(Event) /\ Len(Append(window, e)) = Len(window) + 1
    BY <2>1, <1>2
  <2>3. Append(window, e) # <<>>
    BY <2>1, <1>2, AppendProperties
  <2> QED BY <2>2, <2>3
<1>5. /\ window' \in Seq(Event)
      /\ json' \in [records : Seq(Record), events : Seq(Event), upto : Nat]
      /\ JsonDeltas'
  <2>1. PICK w \in Seq(Event) : w = Append(window, e)
    BY <1>4
  <2> QED BY <2>1, <1>3, <1>4, PostTypes
<1>6. /\ file' \in Seq(DumpRecord) /\ lastDump' \in 0 .. MaxTime
      /\ read' \in 0 .. Len(file') /\ FileDeltas' /\ WhileOpen'
  BY <1>2, <1>3, AppendTypes
<1>7. made' \in Seq(Event)
  BY <1>2, <1>3 DEF FeaturesInv, TypeOK
<1>8. TypeOK'
  BY <1>3, <1>5, <1>6, <1>7 DEF FeaturesInv, TypeOK, DumpRecord, splitVars
<1>9. read' = 0 /\ cumulative' = 0
  BY <1>3 DEF FeaturesInv, WhileOpen, ReadNothing, splitVars
<1>10. DumpDrift' /\ ReadNothing'
  BY <1>9 DEF DumpDrift, ReadNothing
<1> QED BY <1>5, <1>6, <1>8, <1>10 DEF FeaturesInv

\* Nothing of the invariant depends on how a dump that is written is started
\* or ended, or on the records that a crash has cut off.
LEMMA DumpStep ==
    ASSUME FeaturesInv,
           \/ \E now \in Time : StartDump(now)
           \/ CloseDump
           \/ \E kept \in 0 .. Len(file) : Crash(kept)
    PROVE  FeaturesInv'
<1>1. /\ made \in Seq(Event) /\ file \in Seq(DumpRecord) /\ from \in Nat
      /\ start \in 0 .. MaxTime /\ Len(made) \in Nat /\ Len(file) \in Nat
  BY DEF FeaturesInv, TypeOK, DumpRecord
<1>2. UNCHANGED <<made, window, json, lastDump, splitVars>>
  BY DEF StartDump, CloseDump, Crash
<1>3. read = 0 /\ cumulative = 0
  BY DEF FeaturesInv, WhileOpen, ReadNothing, StartDump, CloseDump, Crash
<1>4. JsonDeltas' /\ ReadNothing' /\ DumpDrift'
  BY <1>2, <1>3 DEF FeaturesInv, JsonDeltas, ReadNothing, DumpDrift, splitVars
<1>5. CASE \E now \in Time : StartDump(now)
  <2>1. PICK now \in Time : StartDump(now)
    BY <1>5
  <2>2. phase' = "on" /\ file' = <<>> /\ lastDump' = 0 /\ from' = Len(made)
    BY <2>1 DEF StartDump, FeaturesInv, WhileOpen
  <2>3. start' \in 0 .. MaxTime
    <3>1. CASE made = <<>>
      BY <3>1, <2>1 DEF StartDump, Time
    <3>2. CASE made # <<>>
      <4>1. Last(made) \in Event
        BY <3>2, <1>1 DEF Last
      <4> QED BY <4>1, <3>2, <2>1 DEF StartDump, Event, Time
    <3> QED BY <3>1, <3>2
  <2>4. TypeOK'
    BY <1>1, <1>2, <1>3, <2>2, <2>3, ConstantTypes DEF FeaturesInv, TypeOK, splitVars
  <2>5. FileDeltas' /\ WhileOpen'
    BY <1>1, <1>2, <1>3, <2>2 DEF FileDeltas, WhileOpen, splitVars
  <2> QED BY <1>4, <2>4, <2>5 DEF FeaturesInv
<1>6. CASE CloseDump \/ \E kept \in 0 .. Len(file) : Crash(kept)
  <2>1. PICK kept \in 0 .. Len(file) : file' = SubSeq(file, 1, kept)
    <3>1. CASE CloseDump
      <4>1. file' = file
        BY <3>1 DEF CloseDump
      <4>2. file = SubSeq(file, 1, Len(file)) /\ Len(file) \in 0 .. Len(file)
        BY <1>1, SubSeqFull
      <4> QED BY <4>1, <4>2
    <3>2. CASE \E kept \in 0 .. Len(file) : Crash(kept)
      BY <3>2 DEF Crash
    <3> QED BY <3>1, <3>2, <1>6
  <2>2. phase' = "closed" /\ UNCHANGED <<start, from>>
    BY <1>6 DEF CloseDump, Crash
  <2>3. /\ file' \in Seq(DumpRecord) /\ Len(file') = kept
        /\ \A k \in 1 .. kept : file'[k] = file[k]
    BY <2>1, <1>1
  <2>4. TypeOK'
    BY <1>2, <1>3, <2>2, <2>3 DEF FeaturesInv, TypeOK, DumpRecord, splitVars
  <2>5. FileDeltas'
    <3>1. from' + Len(file') <= Len(made')
      BY <1>1, <1>2, <2>2, <2>3 DEF FeaturesInv, FileDeltas
    <3>2. \A k \in 1 .. kept : Prev(k)' = Prev(k)
      BY <1>2, <2>2 DEF Prev
    <3> QED BY <3>1, <3>2, <1>1, <1>2, <2>2, <2>3 DEF FeaturesInv, FileDeltas
  <2>6. WhileOpen'
    BY <2>2 DEF WhileOpen
  <2> QED BY <1>4, <2>4, <2>5, <2>6 DEF FeaturesInv
<1> QED BY <1>5, <1>6
\* One more record: the trainer's clock falls behind by what the division has
\* rounded off.
LEMMA DriftStep ==
    ASSUME NEW late \in Int, NEW gap \in 0 .. NsPerUs * Mod32 - 1, NEW k \in Nat,
           0 <= late, late <= (NsPerUs - 1) * k
    PROVE  LET d == nsToUs(gap) % Mod32
           IN  /\ 0 <= late + gap - NsPerUs * d
               /\ late + gap - NsPerUs * d <= (NsPerUs - 1) * (k + 1)
<1> DEFINE q == nsToUs(gap)
<1>1. gap \in Nat /\ gap < NsPerUs * Mod32
  BY ConstantTypes
<1>2. q \in Nat /\ NsPerUs * q <= gap /\ gap < NsPerUs * q + NsPerUs /\ q < Mod32
  BY <1>1, UsBounds, ConstantTypes
<1> HIDE DEF q
<1>3. q % Mod32 = q
  BY <1>2, SmallMod, ConstantTypes
<1>4. (NsPerUs - 1) * (k + 1) = (NsPerUs - 1) * k + (NsPerUs - 1)
  BY ConstantTypes
<1>5. (NsPerUs - 1) * k \in Int /\ NsPerUs * q \in Int
  BY ConstantTypes, <1>2
<1>6. 0 <= late + gap - NsPerUs * q /\ late + gap - NsPerUs * q <= (NsPerUs - 1) * (k + 1)
  BY <1>1, <1>2, <1>4, <1>5, ConstantTypes
<1> QED BY <1>3, <1>6 DEF q

\* One turn of split_into_windows keeps the types.
LEMMA SplitTypes ==
    ASSUME FeaturesInv, SplitRecord
    PROVE  TypeOK'
<1>1. /\ read < Len(file) /\ read' = read + 1
      /\ cumulative' = cumulative + file[read + 1].delta
      /\ UNCHANGED <<made, window, json, dumpVars>>
  BY DEF SplitRecord
<1>2. /\ file \in Seq(DumpRecord) /\ read \in 0 .. Len(file) /\ cumulative \in Nat
      /\ windowStart \in 0 .. cumulative /\ current \in Seq(Record)
      /\ windows \in Seq(Seq(Record))
  BY DEF FeaturesInv, TypeOK, DumpRecord
<1>3. PICK r \in DumpRecord : r = file[read + 1]
  BY <1>1, <1>2
<1>4. r \in Record /\ r.delta \in Nat
  BY ConstantTypes DEF DumpRecord, Record
<1>5. PICK t \in Nat : t = cumulative + r.delta /\ t >= cumulative
  BY <1>2, <1>4
<1>6. cumulative' = t /\ cumulative' \in Nat /\ read' \in 0 .. Len(file)
  BY <1>1, <1>2, <1>3, <1>5
<1>7. windowStart' \in 0 .. t /\ current' \in Seq(Record) /\ windows' \in Seq(Seq(Record))
  <2>1. CASE Exceeded(t)
    <3>1. StartSlot(r, t)
      BY <2>1, <1>3, <1>5 DEF SplitRecord
    <3>2. PICK x \in Nat : x = t - windowStart
      BY <1>2, <1>5
    <3>3. x >= TrainWindow
      BY <2>1, <3>2 DEF Exceeded
    <3>4. x % TrainWindow \in 0 .. TrainWindow - 1
      BY ModBounds, ConstantTypes
    <3>5. windowStart' = t - (x % TrainWindow)
      BY <3>1, <3>2 DEF StartSlot
    <3>6. windowStart' \in 0 .. t
      BY <3>2, <3>3, <3>4, <3>5, <1>2, ConstantTypes
    <3>7. current' \in Seq(Record) /\ windows' \in Seq(Seq(Record))
      BY <3>1, <1>2, <1>4 DEF StartSlot, Keep
    <3> QED BY <3>6, <3>7
  <2>2. CASE ~Exceeded(t)
    <3>1. current' = Append(current, r) /\ UNCHANGED <<windows, windowStart>>
      BY <2>2, <1>3, <1>5 DEF SplitRecord
    <3> QED BY <3>1, <1>2, <1>4, <1>5
  <2> QED BY <2>1, <2>2
<1> QED BY <1>1, <1>6, <1>7 DEF FeaturesInv, TypeOK, dumpVars

\* A record adds less than a microsecond to the drift.
LEMMA SplitDrift ==
    ASSUME FeaturesInv, SplitRecord
    PROVE  DumpDrift'
<1>1. /\ read < Len(file) /\ read' = read + 1
      /\ cumulative' = cumulative + file[read + 1].delta
      /\ UNCHANGED <<made, start, from, file>>
  BY DEF SplitRecord, dumpVars
<1>2. /\ made \in Seq(Event) /\ Len(made) \in Nat /\ file \in Seq(DumpRecord)
      /\ read \in Nat /\ from \in Nat /\ start \in 0 .. MaxTime /\ cumulative \in Nat
      /\ from + Len(file) <= Len(made)
      /\ \A i \in 1 .. Len(made) : made[i] \in Event /\ made[i].ts \in 0 .. MaxTime
  <2>1. /\ made \in Seq(Event) /\ file \in Seq(DumpRecord) /\ read \in 0 .. Len(file)
        /\ from \in Nat /\ start \in 0 .. MaxTime /\ cumulative \in Nat
        /\ from + Len(file) <= Len(made)
    BY DEF FeaturesInv, TypeOK, DumpRecord, FileDeltas
  <2>2. \A i \in 1 .. Len(made) : made[i] \in Event
    BY <2>1
  <2>3. \A x \in Event : x.ts \in 0 .. MaxTime
    BY ConstantTypes DEF Event, Time
  <2>4. Len(made) \in Nat /\ read \in Nat
    BY <2>1
  <2> QED BY <2>1, <2>2, <2>3, <2>4
<1>3. PICK k \in Nat : k = read
  BY <1>2
<1>4. k + 1 \in 1 .. Len(file) /\ from + (k + 1) \in 1 .. Len(made)
  BY <1>1, <1>2, <1>3
<1>5. SUFFICES ASSUME InOrder(k + 1)
               PROVE  LET late == made[from + (k + 1)].ts - start
                                    - NsPerUs * (cumulative + file[k + 1].delta)
                      IN  0 <= late /\ late <= (NsPerUs - 1) * (k + 1)
  <2>1. InOrder(k + 1)' <=> InOrder(k + 1)
    BY <1>1 DEF InOrder, Gap
  <2> QED BY <2>1, <1>1, <1>3 DEF DumpDrift
<1>6. PICK g \in 0 .. NsPerUs * Mod32 - 1 : g = Gap(k + 1)
  BY <1>5 DEF InOrder
<1>7. Prev(k + 1) \in 0 .. MaxTime
  <2>1. CASE k = 0 BY <2>1, <1>2 DEF Prev
  <2>2. CASE k # 0
    <3>1. from + (k + 1) - 1 \in 1 .. Len(made)
      BY <2>2, <1>2, <1>4
    <3> QED BY <2>2, <3>1, <1>2 DEF Prev
  <2> QED BY <2>1, <2>2
<1>8. g = made[from + (k + 1)].ts - Prev(k + 1)
  BY <1>6 DEF Gap, Prev
<1>9. Since(made[from + (k + 1)].ts, Prev(k + 1)) = g
  <2>1. made[from + (k + 1)].ts \in 0 .. MaxTime
    BY <1>2, <1>4
  <2>2. g \in Int /\ 0 <= g
    BY ConstantTypes
  <2> QED BY <2>1, <2>2, <1>7, <1>8, ConstantTypes DEF Since
<1>10. file[k + 1].delta = nsToUs(g) % Mod32
  BY <1>4, <1>9 DEF FeaturesInv, FileDeltas
<1>11. PICK d \in Nat : d = nsToUs(g) % Mod32
  <2>1. g \in Nat
    BY ConstantTypes
  <2>2. nsToUs(g) \in Nat
    BY <2>1, UsBounds
  <2> QED BY <2>2, ModBounds, ConstantTypes
<1>12. PICK l \in Int : l = Prev(k + 1) - start - NsPerUs * cumulative
  BY <1>2, <1>7, ConstantTypes
<1>13. 0 <= l /\ l <= (NsPerUs - 1) * k
  <2>1. CASE k = 0
    <3>1. Prev(k + 1) = start /\ cumulative = 0
      <4>1. Prev(k + 1) = start
        BY <2>1 DEF Prev
      <4>2. cumulative = 0
        BY <2>1, <1>3 DEF FeaturesInv, ReadNothing
      <4> QED BY <4>1, <4>2
    <3> QED BY <2>1, <3>1, <1>2, <1>12, ConstantTypes
  <2>2. CASE k # 0
    <3>1. Prev(k + 1) = made[from + k].ts
      BY <2>2, <1>2 DEF Prev
    <3>2. InOrder(k)
      BY <1>5 DEF InOrder
    <3>3. read > 0 /\ InOrder(read)
      BY <2>2, <3>2, <1>3
    <3>4. LET late == made[from + read].ts - start - NsPerUs * cumulative
          IN  0 <= late /\ late <= (NsPerUs - 1) * read
      BY <3>3 DEF FeaturesInv, DumpDrift
    <3> QED BY <3>1, <3>4, <1>3, <1>12
  <2> QED BY <2>1, <2>2
<1>14. 0 <= l + g - NsPerUs * d /\ l + g - NsPerUs * d <= (NsPerUs - 1) * (k + 1)
  BY <1>11, <1>13, DriftStep
<1>15. made[from + (k + 1)].ts - start - NsPerUs * (cumulative + d) = l + g - NsPerUs * d
  <2>1. NsPerUs * (cumulative + d) = NsPerUs * cumulative + NsPerUs * d
    BY <1>2, ConstantTypes
  <2>2. PICK a \in Int, b \in Int : a = NsPerUs * cumulative /\ b = NsPerUs * d
    BY <1>2, ConstantTypes
  <2>3. PICK ts \in Int : ts = made[from + (k + 1)].ts
    BY <1>2, <1>4
  <2>4. l = Prev(k + 1) - start - a /\ g = ts - Prev(k + 1)
    BY <1>8, <1>12, <2>2, <2>3
  <2>5. ts - start - (a + b) = l + g - b
    <3>1. PICK p \in Int : p = Prev(k + 1)
      BY <1>7, ConstantTypes
    <3>2. l = p - start - a /\ g = ts - p /\ start \in Int /\ g \in Int
      BY <2>4, <3>1, <1>2, ConstantTypes
    <3> QED BY <3>2
  <2> QED BY <2>1, <2>2, <2>3, <2>5
<1> QED BY <1>10, <1>11, <1>14, <1>15

\* The trainer only reads what the agent has written.
LEMMA SplitStep ==
    ASSUME FeaturesInv, SplitRecord \/ SplitEnds
    PROVE  FeaturesInv'
<1>1. UNCHANGED <<made, window, json, start, from, lastDump, file>>
      /\ phase' \in {"closed", "split"}
  BY DEF SplitRecord, SplitEnds, dumpVars
<1>2. JsonDeltas' /\ FileDeltas' /\ WhileOpen'
  <2>1. \A k \in Nat : Prev(k)' = Prev(k)
    BY <1>1 DEF Prev
  <2>2. FileDeltas'
    BY <1>1, <2>1 DEF FeaturesInv, FileDeltas, TypeOK
  <2> QED BY <1>1, <2>2 DEF FeaturesInv, JsonDeltas, WhileOpen
<1>3. ReadNothing'
  <2>1. CASE SplitRecord
    BY <2>1 DEF SplitRecord, FeaturesInv, TypeOK, ReadNothing
  <2>2. CASE SplitEnds
    BY <2>2 DEF SplitEnds, FeaturesInv, ReadNothing
  <2> QED BY <2>1, <2>2
<1>4. TypeOK' /\ DumpDrift'
  <2>1. CASE SplitRecord
    BY <2>1, SplitTypes, SplitDrift
  <2>2. CASE SplitEnds
    <3>1. /\ phase' = "split" /\ windows' = Keep /\ current' = <<>>
          /\ UNCHANGED <<read, cumulative, windowStart>>
      BY <2>2 DEF SplitEnds
    <3>2. windows' \in Seq(Seq(Record))
      BY <3>1 DEF Keep, FeaturesInv, TypeOK
    <3>3. TypeOK'
      BY <1>1, <3>1, <3>2 DEF FeaturesInv, TypeOK
    <3>4. DumpDrift'
      BY <1>1, <3>1 DEF FeaturesInv, DumpDrift, InOrder, Gap
    <3> QED BY <3>3, <3>4
  <2> QED BY <2>1, <2>2
<1> QED BY <1>2, <1>3, <1>4 DEF FeaturesInv

\* A step of nobody.
LEMMA StutterStep ==
    ASSUME FeaturesInv, UNCHANGED vars
    PROVE  FeaturesInv'
<1>1. \A k \in Nat : Prev(k)' = Prev(k)
  BY DEF vars, dumpVars, Prev
<1>2. FileDeltas'
  <2>1. UNCHANGED <<made, from, file>>
    BY DEF vars, dumpVars
  <2>2. /\ from + Len(file) <= Len(made)
        /\ \A k \in 1 .. Len(file) :
              /\ file[k].delta = nsToUs(Since(made[from + k].ts, Prev(k))) % Mod32
              /\ Prev(k)' = Prev(k)
    BY <1>1 DEF FeaturesInv, FileDeltas
  <2> QED BY <2>1, <2>2 DEF FileDeltas
<1> QED BY <1>2 DEF vars, dumpVars, splitVars, FeaturesInv, TypeOK, JsonDeltas,
             WhileOpen, ReadNothing, DumpDrift, InOrder, Gap

\* FeaturesInv holds in every state.
LEMMA Invariance == Spec => []FeaturesInv
<1>1. Init => FeaturesInv
  BY InitInv
<1>2. FeaturesInv /\ [Next]_vars => FeaturesInv'
  <2> SUFFICES ASSUME FeaturesInv, [Next]_vars PROVE FeaturesInv'
    OBVIOUS
  <2>1. ASSUME NEW id \in Ids, NEW ts \in Time, handleEvent(id, ts) PROVE FeaturesInv'
    BY <2>1, EventStep
  <2>2. CASE \/ \E now \in Time : StartDump(now)
             \/ CloseDump
             \/ \E kept \in 0 .. Len(file) : Crash(kept)
    BY <2>2, DumpStep
  <2>3. CASE SplitRecord \/ SplitEnds
    BY <2>3, SplitStep
  <2>4. CASE UNCHANGED vars
    BY <2>4, StutterStep
  <2> QED BY <2>1, <2>2, <2>3, <2>4 DEF Next
<1> QED BY <1>1, <1>2, PTL DEF Spec

-----------------------------------------------------------------------------

\* The deltas of the posted window, in both directions of time.
LEMMA DeltaMeaning ==
    ASSUME FeaturesInv, NEW i \in 1 .. Len(json.events)
    PROVE  LET first == json.events[1].ts
               ts == json.events[i].ts
               d == json.records[i].delta
           IN  /\ d \in Nat /\ first \in 1 .. MaxTime /\ ts \in 1 .. MaxTime
               /\ ts >= first => /\ NsPerUs * d <= ts - first
                                 /\ ts - first < NsPerUs * d + NsPerUs
               /\ ts < first => d > JavaIntMax
               /\ ts >= first /\ d > JavaIntMax =>
                      ts - first >= NsPerUs * (JavaIntMax + 1)
<1>1. json.events \in Seq(Event)
  BY DEF FeaturesInv, TypeOK
<1>2. json.events[1] \in Event /\ json.events[i] \in Event
  BY <1>1
<1>3. PICK first \in 1 .. MaxTime, ts \in 1 .. MaxTime :
         first = json.events[1].ts /\ ts = json.events[i].ts
  BY <1>2 DEF Event, Time
<1>4. json.records[i].delta = nsToUs(Since(ts, first))
  BY <1>3 DEF FeaturesInv, JsonDeltas
<1>5. PICK x \in Nat : x = Since(ts, first)
  BY SinceTypes, ConstantTypes
<1>6. PICK d \in Nat : d = nsToUs(x)
  BY UsBounds
<1>7. NsPerUs * d <= x /\ x < NsPerUs * d + NsPerUs
  BY <1>6, UsBounds
<1>8. ts >= first => x = ts - first
  BY <1>5, SinceTypes, ConstantTypes
<1>9. ASSUME ts < first PROVE d > JavaIntMax
  <2>1. NsPerUs * (JavaIntMax + 1) <= x
    BY <1>5, <1>9, SinceTypes, ConstantTypes
  <2>2. JavaIntMax + 1 <= d
    BY <2>1, <1>6, UsBounds, ConstantTypes
  <2> QED BY <2>2, ConstantTypes
<1>10. ASSUME ts >= first, d > JavaIntMax PROVE ts - first >= NsPerUs * (JavaIntMax + 1)
  <2>1. ~(x < NsPerUs * (JavaIntMax + 1))
    <3>1. PICK n \in Nat : n = JavaIntMax + 1
      BY ConstantTypes
    <3>2. x < NsPerUs * n => d < n
      BY <1>6, UsBounds
    <3> QED BY <3>1, <3>2, <1>10, ConstantTypes
  <2>2. NsPerUs * (JavaIntMax + 1) \in Int
    BY ConstantTypes
  <2> QED BY <2>1, <2>2, <1>8, <1>10
<1> QED BY <1>3, <1>4, <1>5, <1>6, <1>7, <1>8, <1>9, <1>10

\* A posted window has a record for each of its events.
LEMMA JsonDomains ==
    ASSUME FeaturesInv
    PROVE  /\ DOMAIN json.records = 1 .. Len(json.events)
           /\ DOMAIN json.events = 1 .. Len(json.events)
           /\ Head(json.events) = json.events[1]
<1>1. json.events \in Seq(Event) /\ json.records \in Seq(Record)
  BY DEF FeaturesInv, TypeOK
<1> QED BY <1>1 DEF FeaturesInv, JsonDeltas

\* Every variable, record and delta keeps its type and its width in every
\* behaviour of the agent and the trainer.
THEOREM FeatureTypes == Spec => []TypeOK
<1>1. FeaturesInv => TypeOK
  BY DEF FeaturesInv
<1> QED BY <1>1, Invariance, PTL

\* A window the server accepts has the times of its events to the microsecond
\* (buildWindowJson, FeatureExtractor.extract).
THEOREM AcceptedTimesExact == Spec => []TimesSurvive
<1>1. ASSUME FeaturesInv PROVE TimesSurvive
  <2>1. SUFFICES ASSUME Accepted(json.records), NEW i \in DOMAIN json.records
                 PROVE  LET ts == Head(json.events).ts + json.records[i].delta * NsPerUs
                        IN  ts <= json.events[i].ts /\ json.events[i].ts < ts + NsPerUs
    BY DEF TimesSurvive
  <2>2. i \in 1 .. Len(json.events) /\ Head(json.events) = json.events[1]
    BY <1>1, <2>1, JsonDomains
  <2>3. json.records[i].delta <= JavaIntMax
    BY <2>1 DEF Accepted
  <2>4. PICK d \in Nat, first \in Nat, ts \in Nat :
           /\ d = json.records[i].delta /\ first = json.events[1].ts
           /\ ts = json.events[i].ts
    BY <1>1, <2>2, DeltaMeaning
  <2>5. ts >= first
    BY <1>1, <2>2, <2>3, <2>4, DeltaMeaning, ConstantTypes, SMTT(20)
  <2>6. NsPerUs * d <= ts - first /\ ts - first < NsPerUs * d + NsPerUs
    BY <1>1, <2>2, <2>4, <2>5, DeltaMeaning
  <2>7. PICK p \in Nat : p = NsPerUs * d /\ p = d * NsPerUs
    BY ConstantTypes
  <2>8. first + p <= ts /\ ts < first + p + NsPerUs
    BY <2>6, <2>7, ConstantTypes
  <2> QED BY <2>2, <2>4, <2>7, <2>8
<1> QED BY <1>1, Invariance, PTL

\* A window is refused only for an event older than its first one, or one too
\* far from it (handleEvent, TraceRecord.deltaTsUs).
THEOREM RefusalsExplained == Spec => []RefusedOnlyIfLate
<1>1. ASSUME FeaturesInv PROVE RefusedOnlyIfLate
  <2>1. SUFFICES ASSUME NEW i \in DOMAIN json.records,
                        ~(json.records[i].delta <= JavaIntMax)
                 PROVE  \/ json.events[i].ts < Head(json.events).ts
                        \/ json.events[i].ts >= Head(json.events).ts
                                                 + NsPerUs * (JavaIntMax + 1)
    BY <1>1, JsonDomains DEF RefusedOnlyIfLate, Accepted
  <2>2. i \in 1 .. Len(json.events) /\ Head(json.events) = json.events[1]
    BY <1>1, <2>1, JsonDomains
  <2>3. PICK d \in Nat, first \in Nat, ts \in Nat :
           /\ d = json.records[i].delta /\ first = json.events[1].ts
           /\ ts = json.events[i].ts
    BY <1>1, <2>2, DeltaMeaning
  <2>4. PICK c \in Nat : c = NsPerUs * (JavaIntMax + 1)
    BY ConstantTypes
  <2>5. ts >= first => ts - first >= c
    BY <1>1, <2>1, <2>2, <2>3, <2>4, DeltaMeaning, ConstantTypes
  <2> QED BY <2>2, <2>3, <2>4, <2>5
<1> QED BY <1>1, Invariance, PTL

\* The trainer's cumulated time is behind the agent's by less than a microsecond
\* for each record (makeTraceRecord, split_into_windows).
THEOREM DumpDriftBounded == Spec => []DumpDrift
<1>1. FeaturesInv => DumpDrift
  BY DEF FeaturesInv
<1> QED BY <1>1, Invariance, PTL

=============================================================================
