--------------------------- MODULE PipelineProofs ---------------------------
(***************************************************************************)
(* For every choice of the constants: what the two ways to the ML service    *)
(* keep of the records themselves.  FlattenSeq and FoldLeft are recursive,   *)
(* and what they compute is found without an induction theorem: the natural  *)
(* numbers are well-founded, so a set of lengths at which a claim fails has  *)
(* a least one, and that one is refuted.  This gives the recursion's         *)
(* existence, its uniqueness, and with them one equation for each operator   *)
(* (FlattenAppend, TotalAppend).  The invariants about behaviours, Traced    *)
(* and SplitOK, rest on FeaturesInv and on these equations.                  *)
(***************************************************************************)
EXTENDS FeaturesProofs, WellFoundedInduction

\* The relation < of the natural numbers, as WellFoundedInduction states it.
Below == {p \in Nat \X Nat : p[1] < p[2]}

\* A set of natural numbers has a least one.
LEMMA LeastOf ==
    ASSUME NEW T \in SUBSET Nat, T # {}
    PROVE  \E x \in T : \A y \in T : x <= y
<1>1. IsWellFoundedOn(Below, Nat)
  BY NatLessThanWellFounded DEF OpToRel, Below
<1>2. PICK x \in T : \A y \in T : <<y, x>> \notin Below
  BY <1>1, WFMin
<1>3. \A y \in T : ~(y < x)
  BY <1>2 DEF Below
<1>4. \A y \in T : x <= y
  BY <1>3
<1> QED
  BY <1>4

-----------------------------------------------------------------------------
(* FlattenSeq                                                                *)

\* The function that FlattenSeq looks up.
Flattened(ss) ==
    CHOOSE flatten : flatten = [i \in 1 .. Len(ss) |->
        IF i = 1 THEN ss[i] ELSE flatten[i - 1] \o ss[i]]

\* FlattenSeq, with its function named.
LEMMA FlattenUnfolded ==
    ASSUME NEW ss
    PROVE  FlattenSeq(ss) = IF Len(ss) = 0 THEN ss ELSE Flattened(ss)[Len(ss)]
BY DEF FlattenSeq, Flattened

\* f[i] is the first i sequences, one after the other.
Flattens(f, ss, n) ==
    \A i \in 1 .. n : f[i] = IF i = 1 THEN ss[i] ELSE f[i - 1] \o ss[i]

\* The recursion can be followed to any length.
LEMMA FlattensExists ==
    ASSUME NEW S, NEW ss \in Seq(Seq(S)), NEW n \in 0 .. Len(ss)
    PROVE  \E f \in [1 .. n -> Seq(S)] : Flattens(f, ss, n)
<1> DEFINE Bad == {k \in 0 .. Len(ss) : ~\E f \in [1 .. k -> Seq(S)] : Flattens(f, ss, k)}
<1>1. SUFFICES ASSUME Bad # {} PROVE FALSE
  OBVIOUS
<1>2. PICK k \in Bad : \A j \in Bad : k <= j
  <2>1. Bad \in SUBSET Nat
    OBVIOUS
  <2> HIDE DEF Bad
  <2> QED
    BY <1>1, <2>1, LeastOf
<1>3. k \in 0 .. Len(ss) /\ ~\E f \in [1 .. k -> Seq(S)] : Flattens(f, ss, k)
  OBVIOUS
<1>4. k # 0
  <2>1. [i \in 1 .. 0 |-> <<>>] \in [1 .. 0 -> Seq(S)]
    OBVIOUS
  <2>2. Flattens([i \in 1 .. 0 |-> <<>>], ss, 0)
    BY DEF Flattens
  <2> QED
    BY <1>3, <2>1, <2>2
<1>5. k - 1 \in 0 .. Len(ss) /\ k - 1 \notin Bad
  <2>1. k - 1 \in 0 .. Len(ss) /\ ~(k <= k - 1)
    BY <1>3, <1>4
  <2> HIDE DEF Bad
  <2> QED
    BY <1>2, <2>1
<1>6. PICK f \in [1 .. k - 1 -> Seq(S)] : Flattens(f, ss, k - 1)
  BY <1>5
<1> DEFINE last == IF k = 1 THEN ss[k] ELSE f[k - 1] \o ss[k]
           g == [i \in 1 .. k |-> IF i = k THEN last ELSE f[i]]
<1>7. last \in Seq(S)
  <2>1. k \in 1 .. Len(ss) /\ ss[k] \in Seq(S)
    BY <1>3, <1>4
  <2>2. CASE k # 1
    <3>1. f[k - 1] \in Seq(S)
      BY <2>1, <2>2
    <3> QED
      BY <2>1, <2>2, <3>1
  <2> QED
    BY <2>1, <2>2
<1> HIDE DEF last
<1>8. g \in [1 .. k -> Seq(S)]
  BY <1>7
<1>9. Flattens(g, ss, k)
  <2>1. ASSUME NEW i \in 1 .. k
        PROVE  g[i] = IF i = 1 THEN ss[i] ELSE g[i - 1] \o ss[i]
    <3>1. CASE i = k
      BY <3>1 DEF last
    <3>2. CASE i # k
      <4>1. i \in 1 .. k - 1
        BY <3>2, <1>3
      <4>2. f[i] = IF i = 1 THEN ss[i] ELSE f[i - 1] \o ss[i]
        BY <4>1, <1>6 DEF Flattens
      <4>3. i # 1 => i - 1 \in 1 .. k - 1 /\ i - 1 \in 1 .. k /\ i - 1 # k
        BY <4>1, <1>3
      <4> QED
        BY <3>2, <4>1, <4>2, <4>3
    <3> QED
      BY <3>1, <3>2
  <2> QED
    BY <2>1 DEF Flattens
<1> QED
  BY <1>3, <1>8, <1>9

\* The function that FlattenSeq looks up follows the recursion.
LEMMA FlattenedFollows ==
    ASSUME NEW S, NEW ss \in Seq(Seq(S))
    PROVE  Flattens(Flattened(ss), ss, Len(ss))
<1>1. PICK f \in [1 .. Len(ss) -> Seq(S)] : Flattens(f, ss, Len(ss))
  <2>1. PICK n \in 0 .. Len(ss) : n = Len(ss)
    OBVIOUS
  <2>2. \E f \in [1 .. n -> Seq(S)] : Flattens(f, ss, n)
    BY FlattensExists
  <2> QED
    BY <2>1, <2>2
<1>2. f = [i \in 1 .. Len(ss) |-> IF i = 1 THEN ss[i] ELSE f[i - 1] \o ss[i]]
  BY <1>1 DEF Flattens
<1>3. Flattened(ss) = [i \in 1 .. Len(ss) |->
                         IF i = 1 THEN ss[i] ELSE Flattened(ss)[i - 1] \o ss[i]]
  BY <1>2 DEF Flattened
<1> DEFINE g == Flattened(ss)
<1>4. g = [i \in 1 .. Len(ss) |-> IF i = 1 THEN ss[i] ELSE g[i - 1] \o ss[i]]
  BY <1>3
<1> HIDE DEF g
<1>5. Flattens(g, ss, Len(ss))
  BY <1>4 DEF Flattens
<1> QED
  BY <1>5 DEF g

\* There is only one way to follow it.
LEMMA FlattensUnique ==
    ASSUME NEW n \in Nat, NEW f, NEW g, NEW ss, NEW tt,
           Flattens(f, ss, n), Flattens(g, tt, n), \A i \in 1 .. n : ss[i] = tt[i]
    PROVE  \A i \in 1 .. n : f[i] = g[i]
<1> DEFINE Bad == {k \in 1 .. n : f[k] # g[k]}
<1>1. SUFFICES ASSUME Bad # {} PROVE FALSE
  OBVIOUS
<1>2. PICK k \in Bad : \A j \in Bad : k <= j
  <2>1. Bad \in SUBSET Nat
    OBVIOUS
  <2> HIDE DEF Bad
  <2> QED
    BY <1>1, <2>1, LeastOf
<1>3. k \in 1 .. n /\ f[k] # g[k]
  OBVIOUS
<1>4. /\ f[k] = IF k = 1 THEN ss[k] ELSE f[k - 1] \o ss[k]
      /\ g[k] = IF k = 1 THEN tt[k] ELSE g[k - 1] \o tt[k]
  BY <1>3 DEF Flattens
<1>5. k # 1 /\ f[k - 1] # g[k - 1]
  BY <1>3, <1>4
<1>6. k - 1 \in 1 .. n /\ ~(k <= k - 1)
  BY <1>3, <1>5
<1> QED
  BY <1>2, <1>5, <1>6

\* One more sequence goes to the end.
LEMMA FlattenAppend ==
    ASSUME NEW S, NEW ss \in Seq(Seq(S)), NEW s \in Seq(S)
    PROVE  /\ FlattenSeq(ss) \in Seq(S)
           /\ FlattenSeq(Append(ss, s)) = FlattenSeq(ss) \o s
<1> DEFINE tt == Append(ss, s)
           n == Len(ss)
<1>1. /\ n \in Nat /\ tt \in Seq(Seq(S)) /\ Len(tt) = n + 1
      /\ tt[n + 1] = s /\ \A i \in 1 .. n : tt[i] = ss[i]
  OBVIOUS
<1> HIDE DEF tt
<1>2. Flattens(Flattened(ss), ss, n) /\ Flattens(Flattened(tt), tt, n + 1)
  BY <1>1, FlattenedFollows
<1>3. FlattenSeq(tt) = Flattened(tt)[n + 1]
  BY <1>1, FlattenUnfolded
<1>4. Flattened(tt)[n + 1] = IF n + 1 = 1 THEN s ELSE Flattened(tt)[n + 1 - 1] \o s
  BY <1>1, <1>2 DEF Flattens
<1>5. CASE n = 0
  <2>1. ss = <<>> /\ FlattenSeq(ss) = ss
    BY <1>5, FlattenUnfolded
  <2>2. FlattenSeq(tt) = s
    BY <1>3, <1>4, <1>5
  <2>3. <<>> \o s = s /\ <<>> \in Seq(S)
    BY ConcatEmptySeq
  <2> QED
    BY <2>1, <2>2, <2>3 DEF tt
<1>6. CASE n # 0
  <2>1. FlattenSeq(ss) = Flattened(ss)[n]
    BY <1>6, FlattenUnfolded
  <2>2. Flattens(Flattened(tt), tt, n)
    BY <1>1, <1>2 DEF Flattens
  <2>3. Flattened(tt)[n] = Flattened(ss)[n]
    <3>1. \A i \in 1 .. n : Flattened(tt)[i] = Flattened(ss)[i]
      <4>1. /\ n \in Nat /\ Flattens(Flattened(tt), tt, n)
            /\ Flattens(Flattened(ss), ss, n) /\ \A i \in 1 .. n : tt[i] = ss[i]
        BY <1>1, <1>2, <2>2
      <4> HIDE DEF n
      <4> QED
        BY <4>1, FlattensUnique
    <3> QED
      BY <3>1, <1>1, <1>6
  <2>4. Flattened(ss)[n] \in Seq(S)
    <3>1. PICK m \in 0 .. Len(ss) : m = n
      BY <1>1
    <3>2. PICK f \in [1 .. m -> Seq(S)] : Flattens(f, ss, m)
      BY FlattensExists
    <3>3. \A i \in 1 .. n : Flattened(ss)[i] = f[i]
      BY <1>1, <1>2, <3>1, <3>2, FlattensUnique
    <3>4. f[n] \in Seq(S) /\ n \in 1 .. n
      BY <3>1, <1>1, <1>6
    <3> QED
      BY <3>3, <3>4
  <2>5. FlattenSeq(tt) = Flattened(tt)[n] \o s
    BY <1>1, <1>3, <1>4, <1>6
  <2> QED
    BY <2>1, <2>3, <2>4, <2>5 DEF tt
<1> QED
  BY <1>5, <1>6

-----------------------------------------------------------------------------
(* Total, a FoldLeft: from the last index of a set of indices to its first.  *)

\* The function that Total looks up, on sets of indices.
Running(rs) ==
    CHOOSE iter : iter = [s \in SUBSET (DOMAIN rs) |->
        IF s = {} THEN 0
        ELSE iter[s \ {Max(s)}] + rs[Max(s)].delta]

\* Total, with its function named.
LEMMA TotalUnfolded ==
    ASSUME NEW rs
    PROVE  Total(rs) = Running(rs)[DOMAIN rs]
BY DEF Total, FoldLeft, MapThenFoldSet, Running

\* A set of indices has a last one.
LEMMA LastIndex ==
    ASSUME NEW n \in Nat, NEW s \in SUBSET (1 .. n), s # {}
    PROVE  Max(s) \in s /\ \A y \in s : Max(s) >= y
<1> DEFINE Upper == {k \in Nat : \A y \in s : y <= k}
<1>1. Upper \in SUBSET Nat /\ n \in Upper
  OBVIOUS
<1>2. PICK k \in Upper : \A j \in Upper : k <= j
  <2> HIDE DEF Upper
  <2> QED
    BY <1>1, LeastOf
<1>3. k \in Nat /\ \A y \in s : y <= k
  OBVIOUS
<1>4. k \in s
  <2>1. SUFFICES ASSUME k \notin s PROVE FALSE
    OBVIOUS
  <2>2. \A y \in s : y \in Nat /\ y >= 1 /\ y <= k - 1
    BY <1>3, <2>1
  <2>3. k - 1 \in Nat
    <3>1. PICK y \in s : TRUE
      OBVIOUS
    <3> QED
      BY <1>3, <2>2, <3>1
  <2>4. k - 1 \in Upper
    BY <2>2, <2>3
  <2> HIDE DEF Upper
  <2> QED
    BY <1>2, <1>3, <2>4
<1>5. \E x \in s : \A y \in s : x >= y
  BY <1>3, <1>4
<1> QED
  BY <1>5 DEF Max

\* f[s] is the sum of the deltas at the indices in s.
Sums(f, rs, n) ==
    \A s \in SUBSET (1 .. n) :
        f[s] = IF s = {} THEN 0 ELSE f[s \ {Max(s)}] + rs[Max(s)].delta

\* The recursion can be followed to any length.
LEMMA SumsExists ==
    ASSUME NEW rs \in Seq(Record), NEW n \in 0 .. Len(rs)
    PROVE  \E f \in [SUBSET (1 .. n) -> Nat] : Sums(f, rs, n)
<1> DEFINE Bad == {k \in 0 .. Len(rs) : ~\E f \in [SUBSET (1 .. k) -> Nat] : Sums(f, rs, k)}
<1>1. SUFFICES ASSUME Bad # {} PROVE FALSE
  OBVIOUS
<1>2. PICK k \in Bad : \A j \in Bad : k <= j
  <2>1. Bad \in SUBSET Nat
    OBVIOUS
  <2> HIDE DEF Bad
  <2> QED
    BY <1>1, <2>1, LeastOf
<1>3. k \in 0 .. Len(rs) /\ ~\E f \in [SUBSET (1 .. k) -> Nat] : Sums(f, rs, k)
  OBVIOUS
<1>4. k # 0
  <2>1. [s \in SUBSET (1 .. 0) |-> 0] \in [SUBSET (1 .. 0) -> Nat]
    OBVIOUS
  <2>2. \A s \in SUBSET (1 .. 0) : s = {}
    OBVIOUS
  <2>3. Sums([s \in SUBSET (1 .. 0) |-> 0], rs, 0)
    BY <2>2 DEF Sums
  <2> QED
    BY <1>3, <2>1, <2>3
<1>5. k - 1 \in 0 .. Len(rs) /\ k - 1 \notin Bad
  <2>1. k - 1 \in 0 .. Len(rs) /\ ~(k <= k - 1)
    BY <1>3, <1>4
  <2> HIDE DEF Bad
  <2> QED
    BY <1>2, <2>1
<1>6. PICK f \in [SUBSET (1 .. k - 1) -> Nat] : Sums(f, rs, k - 1)
  BY <1>5
<1>7. PICK d \in Nat : d = rs[k].delta
  <2>1. rs[k] \in Record
    BY <1>3, <1>4
  <2> QED
    BY <2>1 DEF Record
<1>8. \A s \in SUBSET (1 .. k) : /\ k \in s => s \ {k} \in SUBSET (1 .. k - 1)
                                 /\ k \notin s => s \in SUBSET (1 .. k - 1)
  BY <1>3
<1> DEFINE g == [s \in SUBSET (1 .. k) |-> IF k \in s THEN f[s \ {k}] + d ELSE f[s]]
<1>9. g \in [SUBSET (1 .. k) -> Nat]
  BY <1>7, <1>8
<1>10. Sums(g, rs, k)
  <2>1. ASSUME NEW s \in SUBSET (1 .. k)
        PROVE  g[s] = IF s = {} THEN 0 ELSE g[s \ {Max(s)}] + rs[Max(s)].delta
    <3>1. CASE k \in s
      <4>1. k \in Nat /\ s # {}
        BY <1>3, <3>1
      <4>2. Max(s) \in s /\ \A y \in s : Max(s) >= y
        BY <4>1, LastIndex
      <4>3. Max(s) \in 1 .. k /\ Max(s) >= k
        BY <3>1, <4>2
      <4>4. Max(s) = k
        BY <4>1, <4>3
      <4>5. g[s] = f[s \ {k}] + d /\ g[s \ {k}] = f[s \ {k}]
        BY <3>1
      <4> QED
        BY <1>7, <3>1, <4>4, <4>5
    <3>2. CASE k \notin s
      <4>1. s \in SUBSET (1 .. k - 1) /\ g[s] = f[s]
        BY <1>8, <3>2
      <4>2. f[s] = IF s = {} THEN 0 ELSE f[s \ {Max(s)}] + rs[Max(s)].delta
        BY <4>1, <1>6 DEF Sums
      <4>3. g[s \ {Max(s)}] = f[s \ {Max(s)}]
        BY <3>2
      <4> QED
        BY <4>1, <4>2, <4>3
    <3> QED
      BY <3>1, <3>2
  <2> QED
    BY <2>1 DEF Sums
<1> QED
  BY <1>3, <1>9, <1>10

\* The function that Total looks up follows the recursion.
LEMMA RunningFollows ==
    ASSUME NEW rs \in Seq(Record)
    PROVE  Sums(Running(rs), rs, Len(rs))
<1>1. PICK f \in [SUBSET (1 .. Len(rs)) -> Nat] : Sums(f, rs, Len(rs))
  <2>1. PICK n \in 0 .. Len(rs) : n = Len(rs)
    OBVIOUS
  <2>2. \E f \in [SUBSET (1 .. n) -> Nat] : Sums(f, rs, n)
    BY SumsExists
  <2> QED
    BY <2>1, <2>2
<1>0. DOMAIN rs = 1 .. Len(rs)
  OBVIOUS
<1>2. f = [s \in SUBSET (DOMAIN rs) |->
             IF s = {} THEN 0 ELSE f[s \ {Max(s)}] + rs[Max(s)].delta]
  BY <1>0, <1>1 DEF Sums
<1> DEFINE g == Running(rs)
<1>3. g = [s \in SUBSET (DOMAIN rs) |->
             IF s = {} THEN 0 ELSE g[s \ {Max(s)}] + rs[Max(s)].delta]
  BY <1>2 DEF Running
<1> HIDE DEF g
<1>4. Sums(g, rs, Len(rs))
  BY <1>0, <1>3 DEF Sums
<1> QED
  BY <1>4 DEF g

\* There is only one way to follow it.
LEMMA SumsUnique ==
    ASSUME NEW n \in Nat, NEW f, NEW g, NEW rs, NEW qs,
           Sums(f, rs, n), Sums(g, qs, n), \A i \in 1 .. n : rs[i] = qs[i]
    PROVE  \A s \in SUBSET (1 .. n) : f[s] = g[s]
<1> DEFINE Bad == {k \in 0 .. n : \E s \in SUBSET (1 .. k) : f[s] # g[s]}
<1>1. SUFFICES ASSUME Bad # {} PROVE FALSE
  <2>1. n \in 0 .. n
    OBVIOUS
  <2> QED
    BY <2>1
<1>2. PICK k \in Bad : \A j \in Bad : k <= j
  <2>1. Bad \in SUBSET Nat
    OBVIOUS
  <2> HIDE DEF Bad
  <2> QED
    BY <1>1, <2>1, LeastOf
<1>3. k \in 0 .. n
  OBVIOUS
<1>4. PICK s \in SUBSET (1 .. k) : f[s] # g[s]
  OBVIOUS
<1>5. s \in SUBSET (1 .. n)
  BY <1>3
<1>6. /\ f[s] = IF s = {} THEN 0 ELSE f[s \ {Max(s)}] + rs[Max(s)].delta
      /\ g[s] = IF s = {} THEN 0 ELSE g[s \ {Max(s)}] + qs[Max(s)].delta
  BY <1>5 DEF Sums
<1>7. s # {}
  BY <1>4, <1>6
<1>8. PICK m \in s : m = Max(s) /\ \A y \in s : m >= y
  BY <1>5, <1>7, LastIndex
<1>9. f[s \ {m}] # g[s \ {m}]
  BY <1>4, <1>5, <1>6, <1>7, <1>8
<1>10. s \ {m} \in SUBSET (1 .. m - 1) /\ m - 1 \in 0 .. n /\ ~(k <= m - 1)
  <2>1. m \in 1 .. k /\ k \in 0 .. n
    BY <1>3
  <2>2. m - 1 \in 0 .. n /\ ~(k <= m - 1)
    BY <2>1
  <2>3. \A y \in s \ {m} : y \in 1 .. m - 1
    <3>1. ASSUME NEW y \in s, y # m PROVE y \in 1 .. m - 1
      <4>1. y \in 1 .. k /\ m >= y
        BY <1>8
      <4> QED
        BY <2>1, <3>1, <4>1
    <3> QED
      BY <3>1
  <2> QED
    BY <2>2, <2>3
<1>11. m - 1 \in Bad
  BY <1>9, <1>10
<1> HIDE DEF Bad
<1> QED
  BY <1>2, <1>10, <1>11

\* One more record adds its delta.
LEMMA TotalAppend ==
    ASSUME NEW rs \in Seq(Record), NEW r \in Record
    PROVE  /\ Total(<<>>) = 0
           /\ Total(rs) \in Nat
           /\ Total(Append(rs, r)) = Total(rs) + r.delta
<1> DEFINE qs == Append(rs, r)
           n == Len(rs)
<1>1. /\ n \in Nat /\ qs \in Seq(Record) /\ Len(qs) = n + 1
      /\ qs[n + 1] = r /\ \A i \in 1 .. n : qs[i] = rs[i]
      /\ DOMAIN rs = 1 .. n /\ DOMAIN qs = 1 .. n + 1
  OBVIOUS
<1> HIDE DEF qs
<1>2. Total(<<>>) = 0
  <2>1. <<>> \in Seq(Record) /\ Len(<<>>) = 0 /\ DOMAIN <<>> = {}
    OBVIOUS
  <2>2. Sums(Running(<<>>), <<>>, 0)
    BY <2>1, RunningFollows
  <2>3. Running(<<>>)[{}] = 0
    BY <2>2 DEF Sums
  <2> QED
    BY <2>1, <2>3, TotalUnfolded
<1>3. Sums(Running(rs), rs, n) /\ Sums(Running(qs), qs, n + 1)
  BY <1>1, RunningFollows
<1>4. Sums(Running(qs), qs, n)
  <2>1. 1 .. n \subseteq 1 .. n + 1
    BY <1>1
  <2>2. SUBSET (1 .. n) \subseteq SUBSET (1 .. n + 1)
    BY <2>1
  <2> QED
    BY <1>3, <2>2 DEF Sums
<1>5. \A s \in SUBSET (1 .. n) : Running(qs)[s] = Running(rs)[s]
  BY <1>1, <1>3, <1>4, SumsUnique
<1>6. Running(qs)[1 .. n] = Running(rs)[1 .. n]
  BY <1>5
<1>7. Max(1 .. n + 1) = n + 1
  <2> DEFINE m == n + 1
             s == 1 .. m
  <2>1. m \in Nat /\ s \in SUBSET (1 .. m)
    BY <1>1
  <2>2. s # {} /\ m \in s
    BY <2>1
  <2>3. Max(s) \in s /\ \A y \in s : Max(s) >= y
    <3> HIDE DEF s, m
    <3> QED
      BY <2>1, <2>2, LastIndex
  <2>4. Max(s) \in 1 .. m /\ Max(s) >= m
    BY <2>2, <2>3
  <2> HIDE DEF m
  <2>5. Max(s) = m
    BY <2>1, <2>4
  <2> QED
    BY <2>5 DEF m
<1>8. (1 .. n + 1) \ {n + 1} = 1 .. n /\ 1 .. n + 1 # {}
  BY <1>1
<1>9. Running(qs)[1 .. n + 1] = Running(qs)[1 .. n] + r.delta
  <2>1. Running(qs)[1 .. n + 1] = Running(qs)[(1 .. n + 1) \ {Max(1 .. n + 1)}]
                                    + qs[Max(1 .. n + 1)].delta
    BY <1>3, <1>8 DEF Sums
  <2> QED
    BY <2>1, <1>1, <1>7, <1>8
<1>10. Running(rs)[1 .. n] \in Nat
  <2>1. n \in 0 .. Len(rs)
    OBVIOUS
  <2>2. PICK f \in [SUBSET (1 .. n) -> Nat] : Sums(f, rs, n)
    BY <2>1, SumsExists
  <2>3. \A s \in SUBSET (1 .. n) : Running(rs)[s] = f[s]
    <3>1. n \in Nat /\ Sums(Running(rs), rs, n) /\ Sums(f, rs, n)
      BY <1>1, <1>3, <2>2
    <3> HIDE DEF n
    <3> QED
      BY <3>1, SumsUnique
  <2> QED
    BY <2>2, <2>3
<1> QED
  BY <1>1, <1>2, <1>6, <1>9, <1>10, TotalUnfolded DEF qs

-----------------------------------------------------------------------------
(* The two alphabets.                                                        *)

\* The trainer's table and the server's switch give a call the same letter:
\* the k-th set of the table has the calls of the letter k - 1.
LEMMA LettersOfTable ==
    ASSUME NEW id \in Nat
    PROVE  /\ DOMAIN mapping = 1 .. 23
           /\ mapSyscallToAlphabet(id) \in 0 .. 23
           /\ \A k \in 1 .. 23 : id \in mapping[k] <=> mapSyscallToAlphabet(id) = k - 1
<1>1. DOMAIN mapping = 1 .. 23
  BY DEF mapping
<1>2. mapSyscallToAlphabet(id) \in 0 .. 23
  BY DEF mapSyscallToAlphabet
<1>3. \A k \in 1 .. 8 : id \in mapping[k] <=> mapSyscallToAlphabet(id) = k - 1
  BY DEF mapping, mapSyscallToAlphabet
<1>4. \A k \in 9 .. 16 : id \in mapping[k] <=> mapSyscallToAlphabet(id) = k - 1
  BY DEF mapping, mapSyscallToAlphabet
<1>5. \A k \in 17 .. 23 : id \in mapping[k] <=> mapSyscallToAlphabet(id) = k - 1
  BY DEF mapping, mapSyscallToAlphabet
<1> QED
  BY <1>1, <1>2, <1>3, <1>4, <1>5

\* A call has the same letter on both ways.
LEMMA SameLetter ==
    ASSUME NEW id \in Nat
    PROVE  map_syscall_to_alphabet(id) = mapSyscallToAlphabet(id)
<1>1. PICK n \in 0 .. 23 : n = mapSyscallToAlphabet(id)
  BY LettersOfTable
<1>2. DOMAIN mapping = 1 .. 23 /\ \A k \in 1 .. 23 : id \in mapping[k] <=> n = k - 1
  BY <1>1, LettersOfTable
<1>3. CASE n = 23
  <2>1. ~\E k \in DOMAIN mapping : id \in mapping[k]
    BY <1>2, <1>3
  <2> QED
    BY <1>1, <1>3, <2>1 DEF map_syscall_to_alphabet
<1>4. CASE n # 23
  <2>1. n + 1 \in DOMAIN mapping /\ id \in mapping[n + 1]
    BY <1>2, <1>4
  <2>2. \A k \in DOMAIN mapping : id \in mapping[k] => k = n + 1
    BY <1>2
  <2> DEFINE c == CHOOSE k \in DOMAIN mapping : id \in mapping[k]
  <2>3. c = n + 1
    BY <2>1, <2>2
  <2>4. \E k \in DOMAIN mapping : id \in mapping[k]
    BY <2>1
  <2>5. map_syscall_to_alphabet(id) = c - 1
    BY <2>4, Zenon DEF map_syscall_to_alphabet
  <2> HIDE DEF c
  <2> QED
    BY <1>1, <2>3, <2>5
<1> QED
  BY <1>3, <1>4

\* A class and a bucket fall into the same one of the twelve on both ways: the
\* trainer's cut at 11 never cuts anything.
LEMMA SameBucket ==
    ASSUME NEW class \in Nat, NEW bucket \in Nat
    PROVE  map_bucket(class, bucket) = mapBucket(class, bucket)
<1>1. class * 4 + bucket \in Nat
  OBVIOUS
<1>2. (class * 4 + bucket) % 12 \in 0 .. 11
  BY <1>1, ModBounds
<1> QED
  BY <1>2 DEF map_bucket, mapBucket

-----------------------------------------------------------------------------
(* Where a record comes from.                                                *)

RecordOf(r, e) == r.id = e.id /\ r.class = e.class /\ r.bucket = e.bucket

\* The window holds the last events made.
WindowTraced ==
    /\ Len(window) <= Len(made)
    /\ \A i \in 1 .. Len(window) : window[i] = made[Len(made) - Len(window) + i]

\* What was posted are events made one after the other, and their records.
JsonTraced ==
    /\ Len(json.events) <= json.upto
    /\ json.upto <= Len(made)
    /\ \A i \in 1 .. Len(json.events) :
          /\ json.events[i] = made[json.upto - Len(json.events) + i]
          /\ RecordOf(json.records[i], json.events[i])

\* The k-th record of the dump is that of the k-th event after its start.
FileTraced == \A k \in 1 .. Len(file) : RecordOf(file[k], made[from + k])

Traced == WindowTraced /\ JsonTraced /\ FileTraced

\* Both formats keep what the features are made from.
LEMMA RecordsKept ==
    /\ \A e, prev : RecordOf(makeTraceRecord(e, prev), e)
    /\ \A w \in Seq(Event) : \A i \in 1 .. Len(w) : RecordOf(buildWindowJson(w)[i], w[i])
<1>1. \A e, d : RecordOf(RecordWith(e, d), e)
  BY DEF RecordOf, RecordWith
<1>2. \A e, prev : RecordOf(makeTraceRecord(e, prev), e)
  BY <1>1 DEF makeTraceRecord
<1>3. ASSUME NEW w \in Seq(Event), NEW i \in 1 .. Len(w)
      PROVE  RecordOf(buildWindowJson(w)[i], w[i])
  <2>1. buildWindowJson(w)[i] = RecordWith(w[i], nsToUs(Since(w[i].ts, Head(w).ts)))
    BY DEF buildWindowJson
  <2> QED
    BY <1>1, <2>1
<1> QED
  BY <1>2, <1>3

\* handleEvent: the event goes to the end of the window, and of the dump.
LEMMA EventTraced ==
    ASSUME FeaturesInv, Traced, NEW id \in Ids, NEW ts \in Time, handleEvent(id, ts)
    PROVE  Traced'
<1>1. PICK e : e = handle_sys_enter(id, ts)
  OBVIOUS
<1>2. e \in Event
  BY <1>1, EventTypes
<1>3. /\ phase \in {"off", "on"} /\ made' = Append(made, e) /\ appendLongDump(e)
      /\ PostWindow(Append(window, e))
      /\ UNCHANGED <<phase, start, from, splitVars>>
  BY <1>1 DEF handleEvent
<1>4. /\ made \in Seq(Event) /\ window \in Seq(Event) /\ file \in Seq(DumpRecord)
      /\ json \in [records : Seq(Record), events : Seq(Event), upto : Nat]
      /\ from \in Nat /\ from + Len(file) <= Len(made)
      /\ phase = "on" => Len(made) = from + Len(file)
  BY DEF FeaturesInv, TypeOK, DumpRecord, FileDeltas, WhileOpen
<1>5. /\ Len(made) \in Nat /\ Len(made') = Len(made) + 1
      /\ made'[Len(made) + 1] = e
      /\ \A k \in 1 .. Len(made) : made'[k] = made[k]
  BY <1>2, <1>3, <1>4
<1>6. PICK w \in Seq(Event) : w = Append(window, e)
  <2>1. Append(window, e) \in Seq(Event)
    BY <1>2, <1>4
  <2> QED
    BY <2>1
<1>7. /\ Len(w) <= Len(made')
      /\ \A i \in 1 .. Len(w) : w[i] = made'[Len(made') - Len(w) + i]
  <2>1. /\ Len(window) \in Nat /\ Len(w) = Len(window) + 1
        /\ w[Len(window) + 1] = e
        /\ \A k \in 1 .. Len(window) : w[k] = window[k]
    BY <1>2, <1>4, <1>6
  <2>2. Len(window) <= Len(made)
    BY DEF Traced, WindowTraced
  <2>3. ASSUME NEW i \in 1 .. Len(w)
        PROVE  w[i] = made'[Len(made') - Len(w) + i]
    <3>1. Len(made') - Len(w) = Len(made) - Len(window)
      BY <1>5, <2>1
    <3>2. CASE i = Len(window) + 1
      <4>1. Len(made) - Len(window) + i = Len(made) + 1
        BY <1>5, <2>1, <3>2
      <4> QED
        BY <1>5, <2>1, <3>1, <3>2, <4>1
    <3>3. CASE i \in 1 .. Len(window)
      <4>1. window[i] = made[Len(made) - Len(window) + i]
        BY <3>3 DEF Traced, WindowTraced
      <4>2. Len(made) - Len(window) + i \in 1 .. Len(made)
        BY <1>5, <2>1, <2>2, <3>3
      <4> QED
        BY <1>5, <2>1, <3>1, <3>3, <4>1, <4>2
    <3> QED
      BY <2>1, <3>2, <3>3
  <2> QED
    BY <1>5, <2>1, <2>2, <2>3
<1>8. WindowTraced' /\ JsonTraced'
  <2>1. CASE /\ json' = [records |-> buildWindowJson(w), events |-> w,
                         upto |-> Len(made) + 1]
             /\ window' = <<>>
    <3>1. json'.records = buildWindowJson(w) /\ json'.events = w
          /\ json'.upto = Len(made')
      BY <1>5, <2>1
    <3>2. \A i \in 1 .. Len(w) : RecordOf(buildWindowJson(w)[i], w[i])
      BY RecordsKept
    <3>3. JsonTraced'
      <4>1. Len(made') <= Len(made')
        BY <1>5
      <4> QED
        BY <1>7, <3>1, <3>2, <4>1 DEF JsonTraced
    <3> QED
      BY <1>5, <2>1, <3>3 DEF WindowTraced
  <2>2. CASE window' = w /\ UNCHANGED json
    <3>1. WindowTraced'
      BY <1>7, <2>2 DEF WindowTraced
    <3>2. JsonTraced'
      <4> DEFINE u == json.upto
                 l == Len(json.events)
      <4>1. u \in Nat /\ l \in Nat /\ l <= u /\ u <= Len(made)
        BY <1>4 DEF Traced, JsonTraced
      <4>2. \A i \in 1 .. l : u - l + i \in 1 .. Len(made)
        BY <1>5, <4>1
      <4>3. \A i \in 1 .. l : /\ json.events[i] = made[u - l + i]
                              /\ RecordOf(json.records[i], json.events[i])
        BY DEF Traced, JsonTraced
      <4> HIDE DEF u, l
      <4>4. \A i \in 1 .. l : json.events[i] = made'[u - l + i]
        BY <1>5, <4>2, <4>3
      <4>5. u <= Len(made')
        BY <1>5, <4>1
      <4> QED
        BY <2>2, <4>1, <4>3, <4>4, <4>5 DEF JsonTraced, u, l
    <3> QED
      BY <3>1, <3>2
  <2> QED
    BY <1>3, <1>6, <2>1, <2>2 DEF PostWindow
<1>9. FileTraced'
  <2>0. from' = from /\ Len(file) \in Nat
    BY <1>3, <1>4
  <2>1. \A k \in 1 .. Len(file) : RecordOf(file[k], made'[from + k])
    <3>1. \A k \in 1 .. Len(file) : from + k \in 1 .. Len(made)
      BY <1>4, <1>5, <2>0
    <3> QED
      BY <1>5, <3>1 DEF Traced, FileTraced
  <2>2. CASE file' = file
    BY <2>0, <2>1, <2>2 DEF FileTraced
  <2>3. CASE phase = "on"
    <3>1. PICK r : file' = Append(file, r) /\ RecordOf(r, e)
      BY <1>3, <2>3, RecordsKept DEF appendLongDump
    <3>2. /\ Len(file') = Len(file) + 1 /\ file'[Len(file) + 1] = r
          /\ \A k \in 1 .. Len(file) : file'[k] = file[k]
      BY <1>4, <3>1
    <3>3. made'[from + (Len(file) + 1)] = e
      <4>1. from + (Len(file) + 1) = Len(made) + 1
        BY <1>4, <2>0, <2>3
      <4> QED
        BY <4>1, <1>5
    <3>4. \A k \in 1 .. Len(file') : k = Len(file) + 1 \/ k \in 1 .. Len(file)
      BY <2>0, <3>2
    <3> QED
      BY <2>0, <2>1, <3>1, <3>2, <3>3, <3>4 DEF FileTraced
  <2> QED
    BY <1>3, <2>2, <2>3 DEF appendLongDump
<1> QED
  BY <1>8, <1>9 DEF Traced

\* A dump starts empty, and a crash leaves its first records.
LEMMA OtherTraced ==
    ASSUME FeaturesInv, Traced, [Next]_vars,
           ~\E id \in Ids, ts \in Time : handleEvent(id, ts)
    PROVE  Traced'
<1>1. /\ made \in Seq(Event) /\ file \in Seq(DumpRecord) /\ from \in Nat
      /\ phase = "off" => file = <<>>
  BY DEF FeaturesInv, TypeOK, DumpRecord, WhileOpen
<1>2. UNCHANGED <<made, window, json>>
  BY DEF Next, StartDump, CloseDump, Crash, SplitRecord, SplitEnds, vars
<1>3. WindowTraced' /\ JsonTraced'
  BY <1>2 DEF Traced, WindowTraced, JsonTraced
<1>4. CASE \E now \in Time : StartDump(now)
  <2>1. file' = <<>>
    BY <1>1, <1>4 DEF StartDump
  <2> QED
    BY <1>3, <2>1 DEF Traced, FileTraced
<1>5. CASE \E kept \in 0 .. Len(file) : Crash(kept)
  <2>1. PICK kept \in 0 .. Len(file) : file' = SubSeq(file, 1, kept) /\ from' = from
    BY <1>5 DEF Crash
  <2>2. Len(file') = kept /\ \A k \in 1 .. kept : file'[k] = file[k] /\ k \in 1 .. Len(file)
    BY <1>1, <2>1
  <2> QED
    BY <1>2, <1>3, <2>1, <2>2 DEF Traced, FileTraced
<1>6. CASE UNCHANGED <<file, from>>
  BY <1>2, <1>3, <1>6 DEF Traced, FileTraced
<1> QED
  BY <1>4, <1>5, <1>6 DEF Next, CloseDump, SplitRecord, SplitEnds, vars, dumpVars

\* Traced holds in every state.
LEMMA TracedInvariance == Spec => []Traced
<1>1. Init => Traced
  BY DEF Init, Traced, WindowTraced, JsonTraced, FileTraced
<1>2. ASSUME FeaturesInv, Traced, [Next]_vars PROVE Traced'
  BY <1>2, EventTraced, OtherTraced
<1> QED
  BY <1>1, <1>2, Invariance, PTL DEF Spec

\* Records of the same events make the same bigrams and buckets on both ways.
LEMMA SameFeatures ==
    ASSUME NEW rs \in Seq(Record), NEW qs \in Seq(Record), Len(rs) = Len(qs),
           \A i \in 1 .. Len(rs) : RecordOf(rs[i], qs[i])
    PROVE  /\ extract(rs).transitions = extract_features(qs).transitions
           /\ extract(rs).buckets = extract_features(qs).buckets
<1> DEFINE letters == [i \in DOMAIN rs |-> mapSyscallToAlphabet(rs[i].id)]
           letters2 == [i \in DOMAIN qs |-> map_syscall_to_alphabet(qs[i].id)]
           counts == [i \in DOMAIN rs |-> mapBucket(rs[i].class, rs[i].bucket)]
           counts2 == [i \in DOMAIN qs |-> map_bucket(qs[i].class, qs[i].bucket)]
<1>1. DOMAIN rs = 1 .. Len(rs) /\ DOMAIN qs = 1 .. Len(rs)
  OBVIOUS
<1>2. ASSUME NEW i \in 1 .. Len(rs)
      PROVE  /\ rs[i].id = qs[i].id /\ rs[i].class = qs[i].class
             /\ rs[i].bucket = qs[i].bucket
             /\ qs[i].id \in Nat /\ qs[i].class \in Nat /\ qs[i].bucket \in Nat
  <2>1. qs[i] \in Record /\ RecordOf(rs[i], qs[i])
    OBVIOUS
  <2>2. ASSUME NEW q \in Record PROVE q.id \in Nat /\ q.class \in Nat /\ q.bucket \in Nat
    <3>1. q.id \in Nat /\ q.class \in 0 .. 4 /\ q.bucket \in Nat
      BY DEF Record
    <3> QED
      BY <3>1
  <2> QED
    BY <2>1, <2>2 DEF RecordOf
<1>3. letters = letters2
  <2>1. \A i \in 1 .. Len(rs) :
          mapSyscallToAlphabet(rs[i].id) = map_syscall_to_alphabet(qs[i].id)
    BY <1>2, SameLetter
  <2> QED
    BY <1>1, <2>1
<1>4. counts = counts2
  <2>1. \A i \in 1 .. Len(rs) :
          mapBucket(rs[i].class, rs[i].bucket) = map_bucket(qs[i].class, qs[i].bucket)
    BY <1>2, SameBucket
  <2> QED
    BY <1>1, <2>1
<1>5. /\ extract(rs).transitions = Bigrams(letters)
      /\ extract(rs).buckets = CountOf(counts)
  BY DEF extract
<1>6. /\ extract_features(qs).transitions = Bigrams(letters2)
      /\ extract_features(qs).buckets = CountOf(counts2)
  BY DEF extract_features
<1> HIDE DEF letters, letters2, counts, counts2
<1> QED
  BY <1>3, <1>4, <1>5, <1>6

\* What a window is scored on and what a model is trained on agree, for every
\* run of events that was posted and is in the dump, however the dump ended
\* (FeatureExtractor.extract, train_from_dump.extract_features).
THEOREM VectorsAgree == Spec => []PipelinesAgree
<1>1. ASSUME FeaturesInv, Traced PROVE PipelinesAgree
  <2> DEFINE n == Len(json.events)
             a == json.upto - n - from
  <2>0. SUFFICES ASSUME n > 0, json.upto - n >= from, json.upto - from <= Len(file)
                 PROVE  /\ extract(json.records).transitions
                             = extract_features(SameEvents).transitions
                        /\ extract(json.records).buckets
                             = extract_features(SameEvents).buckets
    BY DEF PipelinesAgree
  <2>1. /\ json.events \in Seq(Event) /\ json.records \in Seq(Record)
        /\ json.upto \in Nat /\ from \in Nat /\ file \in Seq(DumpRecord)
        /\ Len(json.records) = n
    BY <1>1 DEF FeaturesInv, TypeOK, DumpRecord, JsonDeltas
  <2>2. n \in Nat /\ a \in Nat /\ a + n <= Len(file) /\ Len(file) \in Nat
    BY <2>0, <2>1
  <2> DEFINE l == Len(file)
             u == json.upto
  <2>3. u - from = a + n /\ u - n + 1 - from = a + 1 /\ u - n = from + a
    <3>1. n \in Nat /\ u \in Nat /\ from \in Nat /\ a = u - n - from
      BY <2>1, <2>2
    <3> HIDE DEF n, a, u
    <3> QED
      BY <3>1
  <2>4. \A i \in 1 .. n : a + i \in 1 .. l /\ from + (a + i) = u - n + i
    <3>1. n \in Nat /\ a \in Nat /\ l \in Nat /\ from \in Nat /\ a + n <= l
      BY <2>1, <2>2
    <3> HIDE DEF n, a, l, u
    <3>2. \A i \in 1 .. n : a + i \in 1 .. l /\ from + (a + i) = from + a + i
      BY <3>1
    <3> QED
      BY <2>3, <3>2
  <2>5. \A i \in 1 .. n : /\ json.events[i] = made[json.upto - n + i]
                          /\ RecordOf(json.records[i], json.events[i])
    BY <1>1 DEF Traced, JsonTraced
  <2>6. \A k \in 1 .. Len(file) : RecordOf(file[k], made[from + k])
    BY <1>1 DEF Traced, FileTraced
  <2> HIDE DEF n, a
  <2>7. SameEvents = SubSeq(file, a + 1, a + n)
    BY <2>3 DEF SameEvents, n
  <2>8. /\ SameEvents \in Seq(DumpRecord) /\ Len(SameEvents) = n
        /\ \A i \in 1 .. n : SameEvents[i] = file[a + i]
    <3>1. \A i \in a + 1 .. a + n : file[i] \in DumpRecord
      BY <2>1, <2>2
    <3>2. /\ SubSeq(file, a + 1, a + n) \in Seq(DumpRecord)
          /\ Len(SubSeq(file, a + 1, a + n)) = n
          /\ \A i \in 1 .. n : SubSeq(file, a + 1, a + n)[i] = file[a + i]
      BY <2>1, <2>2, <3>1
    <3> QED
      BY <2>7, <3>2
  <2>9. SameEvents \in Seq(Record)
    <3>1. DumpRecord \subseteq Record
      BY ConstantTypes DEF DumpRecord, Record
    <3>2. \A i \in 1 .. n : SameEvents[i] \in DumpRecord
      BY <2>8
    <3> QED
      BY <2>8, <3>1, <3>2
  <2>10. \A i \in 1 .. n : RecordOf(json.records[i], SameEvents[i])
    <3>1. ASSUME NEW i \in 1 .. n
          PROVE  RecordOf(json.records[i], SameEvents[i])
      <4>1. RecordOf(SameEvents[i], json.events[i])
        <5>1. RecordOf(file[a + i], made[from + (a + i)])
          BY <2>4, <2>6
        <5> QED
          BY <2>4, <2>5, <2>8, <5>1
      <4>2. RecordOf(json.records[i], json.events[i])
        BY <2>5
      <4> QED
        BY <4>1, <4>2 DEF RecordOf
    <3> QED
      BY <3>1
  <2> QED
    BY <2>1, <2>8, <2>9, <2>10, SameFeatures
<1> QED
  BY <1>1, Invariance, TracedInvariance, PTL

-----------------------------------------------------------------------------
(* split_into_windows                                                        *)

\* The window that is being filled: it starts in the slot at windowStart, and
\* has not left it.
SlotOpen ==
    /\ cumulative - windowStart < TrainWindow
    /\ current # <<>> => Total(Tail(current)) <= cumulative - windowStart

SplitOK == SplitKeepsRecords /\ SplitInSlots /\ SlotOpen

\* windows.append(current_window): the windows stay within their slots, and
\* their records stay the same.
LEMMA KeepWindows ==
    ASSUME FeaturesInv, SplitOK
    PROVE  /\ FlattenSeq(Keep) = FlattenSeq(windows) \o current
           /\ FlattenSeq(Keep) = SubSeq(file, 1, read)
           /\ \A w \in Range(Keep) : w # <<>> /\ Total(Tail(w)) < TrainWindow
<1>1. /\ windows \in Seq(Seq(Record)) /\ current \in Seq(Record)
      /\ cumulative \in Nat /\ windowStart \in Nat
  BY DEF FeaturesInv, TypeOK
<1>2. FlattenSeq(Keep) = FlattenSeq(windows) \o current
  <2>1. /\ FlattenSeq(windows) \in Seq(Record)
        /\ FlattenSeq(Append(windows, current)) = FlattenSeq(windows) \o current
    BY <1>1, FlattenAppend
  <2>2. CASE current = <<>>
    <3>1. FlattenSeq(windows) \o <<>> = FlattenSeq(windows)
      BY <2>1, ConcatEmptySeq
    <3> QED
      BY <2>2, <3>1 DEF Keep
  <2>3. CASE current # <<>>
    BY <2>1, <2>3 DEF Keep
  <2> QED
    BY <2>2, <2>3
<1>3. ASSUME NEW w \in Range(Keep)
      PROVE  w # <<>> /\ Total(Tail(w)) < TrainWindow
  <2>1. CASE w \in Range(windows)
    BY <2>1 DEF SplitOK, SplitInSlots
  <2>2. CASE w = current /\ current # <<>>
    <3>1. Tail(current) \in Seq(Record)
      BY <1>1, <2>2
    <3>2. PICK r \in Record : TRUE
      BY <1>1, <2>2
    <3>3. Total(Tail(current)) \in Nat
      BY <3>1, <3>2, TotalAppend
    <3>4. /\ Total(Tail(current)) <= cumulative - windowStart
          /\ cumulative - windowStart < TrainWindow
      BY <2>2 DEF SplitOK, SlotOpen
    <3> QED
      BY <1>1, <2>2, <3>3, <3>4, ConstantTypes
  <2>3. w \in Range(windows) \/ (w = current /\ current # <<>>)
    <3>1. CASE current = <<>>
      BY <3>1 DEF Keep
    <3>2. CASE current # <<>>
      <4>1. PICK i \in DOMAIN Append(windows, current) : w = Append(windows, current)[i]
        BY <3>2 DEF Keep, Range
      <4>2. \/ i \in DOMAIN windows /\ w = windows[i]
            \/ w = current
        BY <1>1, <4>1
      <4> QED
        BY <3>2, <4>2 DEF Range
    <3> QED
      BY <3>1, <3>2
  <2> QED
    BY <2>1, <2>2, <2>3
<1> QED
  BY <1>2, <1>3 DEF SplitOK, SplitKeepsRecords

\* One turn of the loop.
LEMMA SplitRecordOK ==
    ASSUME FeaturesInv, SplitOK, SplitRecord
    PROVE  SplitOK'
<1>1. /\ file \in Seq(DumpRecord) /\ read \in Nat /\ cumulative \in Nat
      /\ windowStart \in 0 .. cumulative /\ current \in Seq(Record)
      /\ windows \in Seq(Seq(Record))
  BY DEF FeaturesInv, TypeOK, DumpRecord
<1>2. /\ read < Len(file) /\ read' = read + 1 /\ file' = file
      /\ cumulative' = cumulative + file[read + 1].delta
  BY DEF SplitRecord, dumpVars
<1>3. PICK r \in DumpRecord : r = file[read + 1]
  BY <1>1, <1>2
<1>4. r \in Record /\ r.delta \in Nat
  BY ConstantTypes DEF DumpRecord, Record
<1>5. PICK t \in Nat : t = cumulative + r.delta /\ t >= cumulative
  BY <1>1, <1>4
<1>6. cumulative' = t
  BY <1>2, <1>3, <1>5
<1>7. SubSeq(file', 1, read') = Append(SubSeq(file, 1, read), r)
  <2>1. SubSeq(file, 1, read + 1) = Append(SubSeq(file, 1, read), file[read + 1])
    BY <1>1, <1>2
  <2> QED
    BY <1>2, <1>3, <2>1
<1>8. FlattenSeq(windows) \in Seq(Record)
  BY <1>1, FlattenAppend
<1>9. CASE Exceeded(t)
  <2>1. StartSlot(r, t)
    BY <1>3, <1>5, <1>9 DEF SplitRecord
  <2>2. windows' = Keep /\ current' = <<r>>
    BY <2>1 DEF StartSlot
  <2>3. PICK x \in Nat : x = t - windowStart
    BY <1>1, <1>5
  <2>4. x % TrainWindow \in 0 .. TrainWindow - 1
    BY <2>3, ModBounds, ConstantTypes
  <2>5. windowStart' = t - (x % TrainWindow)
    BY <2>1, <2>3 DEF StartSlot
  <2>6. cumulative' - windowStart' = x % TrainWindow
    BY <1>6, <2>4, <2>5, ConstantTypes
  <2>7. SlotOpen'
    <3>1. Tail(<<r>>) = <<>> /\ Total(<<>>) = 0
      <4>1. Total(<<>>) = 0
        BY <1>1, <1>4, TotalAppend
      <4> QED
        BY <4>1
    <3>2. Total(Tail(current')) = 0
      BY <2>2, <3>1
    <3>3. cumulative' - windowStart' \in 0 .. TrainWindow - 1
      BY <2>4, <2>6
    <3> QED
      BY <3>2, <3>3, ConstantTypes DEF SlotOpen
  <2>8. SplitKeepsRecords'
    <3>1. FlattenSeq(Keep) = SubSeq(file, 1, read)
      BY KeepWindows
    <3>2. SubSeq(file, 1, read) \in Seq(DumpRecord)
      BY <1>1, <1>2
    <3>3. SubSeq(file, 1, read) \o <<r>> = Append(SubSeq(file, 1, read), r)
      BY <3>2
    <3> QED
      BY <1>7, <2>2, <3>1, <3>3 DEF SplitKeepsRecords
  <2>9. SplitInSlots'
    BY <2>2, KeepWindows DEF SplitInSlots
  <2> QED
    BY <2>7, <2>8, <2>9 DEF SplitOK
<1>10. CASE ~Exceeded(t)
  <2>1. current' = Append(current, r) /\ UNCHANGED <<windows, windowStart>>
    BY <1>3, <1>5, <1>10 DEF SplitRecord
  <2>2. t - windowStart < TrainWindow
    BY <1>1, <1>10, ConstantTypes DEF Exceeded
  <2>3. SlotOpen'
    <3>1. CASE current = <<>>
      <4>1. Total(<<>>) = 0
        BY <1>1, <1>4, TotalAppend
      <4>2. Tail(Append(<<>>, r)) = <<>>
        OBVIOUS
      <4>3. Total(Tail(current')) = 0
        BY <2>1, <3>1, <4>1, <4>2
      <4> QED
        BY <1>1, <1>5, <1>6, <2>1, <2>2, <4>3 DEF SlotOpen
    <3>2. CASE current # <<>>
      <4>1. Tail(current) \in Seq(Record)
        BY <1>1, <3>2
      <4>2. Tail(Append(current, r)) = Append(Tail(current), r)
        BY <1>1, <1>4, <3>2
      <4>3. /\ Total(Append(Tail(current), r)) = Total(Tail(current)) + r.delta
            /\ Total(Tail(current)) \in Nat
        BY <1>4, <4>1, TotalAppend
      <4>4. Total(Tail(current)) <= cumulative - windowStart
        BY <3>2 DEF SplitOK, SlotOpen
      <4>5. Total(Tail(current')) <= t - windowStart
        <5>1. PICK m \in Nat : m = Total(Tail(current))
          BY <4>3
        <5>2. m + r.delta <= t - windowStart
          <6>1. /\ r.delta \in Nat /\ windowStart \in Nat /\ cumulative \in Nat
                /\ t = cumulative + r.delta /\ m <= cumulative - windowStart
            BY <1>1, <1>4, <1>5, <4>4, <5>1
          <6> QED
            BY <6>1
        <5> QED
          BY <2>1, <4>2, <4>3, <5>1, <5>2
      <4> QED
        BY <1>6, <2>1, <2>2, <4>5 DEF SlotOpen
    <3> QED
      BY <3>1, <3>2
  <2>4. SplitKeepsRecords'
    <3>1. FlattenSeq(windows) \o Append(current, r)
            = Append(FlattenSeq(windows) \o current, r)
      BY <1>1, <1>4, <1>8
    <3> QED
      BY <1>7, <2>1, <3>1 DEF SplitOK, SplitKeepsRecords
  <2>5. SplitInSlots'
    BY <2>1 DEF SplitOK, SplitInSlots
  <2> QED
    BY <2>3, <2>4, <2>5 DEF SplitOK
<1> QED
  BY <1>9, <1>10

\* The last window is kept when the records have been read.
LEMMA SplitEndsOK ==
    ASSUME FeaturesInv, SplitOK, SplitEnds
    PROVE  SplitOK'
<1>1. /\ windows' = Keep /\ current' = <<>>
      /\ UNCHANGED <<file, read, cumulative, windowStart>>
  BY DEF SplitEnds
<1>2. FlattenSeq(Keep) \o <<>> = FlattenSeq(Keep)
  <2>1. file \in Seq(DumpRecord) /\ read \in 0 .. Len(file)
    BY DEF FeaturesInv, TypeOK, DumpRecord
  <2>2. FlattenSeq(Keep) \in Seq(DumpRecord)
    BY <2>1, KeepWindows
  <2> QED
    BY <2>2, ConcatEmptySeq
<1>3. SplitKeepsRecords'
  BY <1>1, <1>2, KeepWindows DEF SplitKeepsRecords
<1>4. SplitInSlots'
  BY <1>1, KeepWindows DEF SplitInSlots
<1>5. SlotOpen'
  BY <1>1 DEF SplitOK, SlotOpen
<1> QED
  BY <1>3, <1>4, <1>5 DEF SplitOK

\* While the dump is written or cut nothing of it has been read.
LEMMA OtherSplitOK ==
    ASSUME FeaturesInv, SplitOK, [Next]_vars, ~SplitRecord, ~SplitEnds
    PROVE  SplitOK'
<1>1. UNCHANGED splitVars
  BY DEF Next, handleEvent, StartDump, CloseDump, Crash, vars
<1>2. SplitInSlots' /\ SlotOpen'
  BY <1>1 DEF SplitOK, SplitInSlots, SlotOpen, splitVars
<1>3. SubSeq(file', 1, read') = SubSeq(file, 1, read)
  <2>1. CASE UNCHANGED vars
    BY <2>1 DEF vars, dumpVars, splitVars
  <2>2. CASE read = 0
    BY <1>1, <2>2 DEF splitVars
  <2>3. UNCHANGED vars \/ read = 0
    BY DEF Next, handleEvent, StartDump, CloseDump, Crash, FeaturesInv, WhileOpen
  <2> QED
    BY <2>1, <2>2, <2>3
<1> QED
  BY <1>1, <1>2, <1>3 DEF SplitOK, SplitKeepsRecords, splitVars

\* SplitOK holds in every state.
LEMMA SplitInvariance == Spec => []SplitOK
<1>1. ASSUME Init PROVE SplitOK
  <2>1. FlattenSeq(<<>>) = <<>>
    BY FlattenUnfolded
  <2>2. <<>> \o <<>> = <<>> /\ SubSeq(<<>>, 1, 0) = <<>>
    OBVIOUS
  <2>3. SplitKeepsRecords
    BY <1>1, <2>1, <2>2 DEF Init, SplitKeepsRecords
  <2>4. SplitInSlots /\ SlotOpen
    BY <1>1, ConstantTypes DEF Init, SplitInSlots, SlotOpen, Range
  <2> QED
    BY <2>3, <2>4 DEF SplitOK
<1>2. ASSUME FeaturesInv, SplitOK, [Next]_vars PROVE SplitOK'
  BY <1>2, SplitRecordOK, SplitEndsOK, OtherSplitOK
<1> QED
  BY <1>1, <1>2, Invariance, PTL DEF Spec

\* The windows a model is trained on, one after the other, are the records read
\* so far: none lost, none repeated, in their order (split_into_windows).
THEOREM SplitLosesNothing == Spec => []SplitKeepsRecords
<1>1. SplitOK => SplitKeepsRecords
  BY DEF SplitOK
<1> QED
  BY <1>1, SplitInvariance, PTL

\* No window is empty, and none lasts as long as window_duration_us
\* (split_into_windows).
THEOREM WindowsInSlots == Spec => []SplitInSlots
<1>1. SplitOK => SplitInSlots
  BY DEF SplitOK
<1> QED
  BY <1>1, SplitInvariance, PTL

=============================================================================
