--------------------------- MODULE TrainingProofs ---------------------------
(***************************************************************************)
(* Theorems about Training for every set of containers and request threads. *)
(* TypeOK needs one strengthening: a handler past its first step knows the  *)
(* container it works for (HandlerOK), so the maps are read inside their    *)
(* domains.  What READY entries stand for needs another: what a handler     *)
(* remembers stays true while the other handlers run (LocalsOK).            *)
(***************************************************************************)
EXTENDS Training, SequenceTheorems, TLAPS

\* A handler that has started works for one of the containers.
HandlerOK ==
    \A w \in Workers :
        worker[w].pc \notin {"idle", "query"} => worker[w].c \in Containers

Inv == TypeOK /\ HandlerOK

-----------------------------------------------------------------------------
(* Facts about the operators.                                               *)

\* The entries that update and setStatus store are entries.
LEMMA EntriesAreEntries ==
    ASSUME NEW v \in Nat
    PROVE  Trained(v) \in Entry /\ InTraining(v) \in Entry
BY DEF Trained, InTraining, Entry

\* CopyOnWriteArrayList.set keeps a list a list.
LEMMA SetKeepsSeq ==
    ASSUME NEW S, NEW s \in Seq(S), NEW i, NEW e \in S
    PROVE  [s EXCEPT ![i] = e] \in Seq(S)
<1>1. s \in [1 .. Len(s) -> S] /\ Len(s) \in Nat
  OBVIOUS
<1>2. [s EXCEPT ![i] = e] \in [1 .. Len(s) -> S]
  BY <1>1
<1>3. [s EXCEPT ![i] = e] \in UNION {[1 .. n -> S] : n \in Nat}
  BY <1>1, <1>2
<1> QED
  BY <1>3, SeqDef, Zenon

\* An update appends an entry to one container's list.
LEMMA UpdateKeepsVersions ==
    ASSUME versions \in [Containers -> Seq(Entry)], NEW c, NEW e \in Entry,
           Update(c, e)
    PROVE  versions' \in [Containers -> Seq(Entry)]
<1>1. CASE c \in Containers
  <2>1. Append(versions[c], e) \in Seq(Entry)
    BY <1>1
  <2> QED
    BY <1>1, <2>1 DEF Update
<1>2. CASE c \notin Containers
  BY <1>2 DEF Update
<1> QED
  BY <1>1, <1>2

\* The latest entry of a list that has one is an entry.
LEMMA LatestIsEntry ==
    ASSUME versions \in [Containers -> Seq(Entry)], NEW c \in Containers,
           versions[c] # <<>>
    PROVE  Latest(c) \in Entry /\ Latest(c).version \in Nat
<1>1. versions[c] \in Seq(Entry) /\ Len(versions[c]) \in 1 .. Len(versions[c])
  BY EmptySeq
<1>2. Latest(c) \in Entry
  BY <1>1 DEF Latest
<1> QED
  BY <1>2 DEF Entry

\* A handler's record after any change of its fields.
LEMMA WorkerFields ==
    ASSUME NEW r \in Worker
    PROVE  /\ r.c \in Containers \union {NoContainer} /\ r.version \in Nat
           /\ r.compared \in Nat /\ r.index \in Nat /\ r.epoch \in Nat /\ r.todo \in SUBSET Containers
           /\ IdleWorker \in Worker
BY DEF Worker, IdleWorker

\* Replacing one handler's record by a proper one keeps Inv's part about
\* handlers.
LEMMA WorkerStep ==
    ASSUME Inv, NEW w \in Workers, NEW r \in Worker,
           r.pc \notin {"idle", "query"} => r.c \in Containers,
           worker' = [worker EXCEPT ![w] = r]
    PROVE  worker' \in [Workers -> Worker] /\ HandlerOK'
<1>1. worker \in [Workers -> Worker]
  BY DEF Inv, TypeOK
<1>2. worker' \in [Workers -> Worker]
  BY <1>1
<1>3. \A u \in Workers : worker'[u] = IF u = w THEN r ELSE worker[u]
  BY <1>1
<1> QED
  BY <1>2, <1>3 DEF Inv, HandlerOK

\* A handler that returns is idle again.
LEMMA FinishKeepsInv ==
    ASSUME Inv, NEW w \in Workers, Finish(w)
    PROVE  worker' \in [Workers -> Worker] /\ HandlerOK'
<1>1. IdleWorker \in Worker /\ IdleWorker.pc = "idle"
  BY DEF IdleWorker, Worker
<1> QED
  BY <1>1, WorkerStep DEF Finish

\* getMeta's return.
LEMMA AfterMetaKeepsInv ==
    ASSUME Inv, NEW w \in Workers, NEW v \in Nat, AfterMeta(w, v),
           worker[w].pc \notin {"idle", "query"}
    PROVE  worker' \in [Workers -> Worker] /\ HandlerOK'
<1> DEFINE old == worker[w]
           r == [old EXCEPT !.pc = "mark", !.version = v]
<1>1. old \in Worker /\ old.c \in Containers
  BY DEF Inv, TypeOK, HandlerOK
<1>2. CASE old.op = "train"
  <2>1. worker' = [worker EXCEPT ![w] = r]
    BY <1>2 DEF AfterMeta
  <2>2. r \in Worker /\ r.c \in Containers
    BY <1>1 DEF Worker
  <2> QED
    BY <2>1, <2>2, WorkerStep
<1>3. CASE old.op # "train"
  <2>1. Finish(w)
    BY <1>3 DEF AfterMeta, Finish
  <2> QED
    BY <2>1, FinishKeepsInv
<1> QED
  BY <1>2, <1>3

-----------------------------------------------------------------------------
(* Inv is inductive: the requests, the handlers' steps and the environment. *)

\* What is accepted from outside: requests, completions, the agent's and the
\* ML service's own steps.
LEMMA RequestKeepsInv ==
    ASSUME Inv, NEW w \in Workers, Request(w)
    PROVE  Inv'
<1> USE DEF Inv, TypeOK
<1>0. IdleWorker \in Worker
  BY DEF IdleWorker, Worker
<1>s. ASSUME NEW k, Accept(w, k)
      PROVE  served' \in [DOMAIN Limit -> Nat]
  <2>1. served' = [served EXCEPT ![k] = served[k] + 1]
    BY <1>s DEF Accept
  <2>2. CASE k \in DOMAIN Limit
    BY <2>1, <2>2
  <2>3. CASE k \notin DOMAIN Limit
    <3>1. served' = served
      BY <2>1, <2>3
    <3> QED
      BY <3>1
  <2> QED
    BY <2>2, <2>3
<1>1. CASE \E c \in Containers : StartTraining(w, c)
  <2>1. PICK c \in Containers : StartTraining(w, c)
    BY <1>1
  <2> DEFINE r == [IdleWorker EXCEPT !.op = "train", !.pc = "meta", !.c = c]
  <2>2. r \in Worker /\ r.c \in Containers
    BY DEF IdleWorker, Worker
  <2>3. worker' \in [Workers -> Worker] /\ HandlerOK'
    BY <2>1, <2>2, WorkerStep DEF StartTraining
  <2> QED
    BY <1>s, <2>1, <2>3 DEF StartTraining, historyVars
<1>2. CASE \E c \in Containers : PollView(w, c)
  <2>1. PICK c \in Containers : PollView(w, c)
    BY <1>2
  <2> DEFINE r == [IdleWorker EXCEPT !.op = "poll", !.pc = "meta", !.c = c]
  <2>2. r \in Worker /\ r.c \in Containers
    BY DEF IdleWorker, Worker
  <2>3. worker' \in [Workers -> Worker] /\ HandlerOK'
    BY <2>1, <2>2, WorkerStep DEF PollView
  <2> QED
    BY <1>s, <2>1, <2>3 DEF PollView, historyVars
<1>3. CASE StartSync(w)
  <2> DEFINE r == [IdleWorker EXCEPT !.op = "sync", !.pc = "query",
                                     !.todo = Containers]
  <2>1. r \in Worker /\ r.pc = "query"
    BY DEF IdleWorker, Worker
  <2>2. worker' \in [Workers -> Worker] /\ HandlerOK'
    BY <1>3, <2>1, WorkerStep DEF StartSync
  <2> QED
    BY <1>3, <1>s, <2>2 DEF StartSync, historyVars
<1>4. CASE ClearCache(w)
  <2>1. <<>> \in Seq(Entry)
    OBVIOUS
  <2>2. versions' \in [Containers -> Seq(Entry)] /\ epoch' \in Nat
    BY <1>4, <2>1 DEF ClearCache
  <2> QED
    BY <1>4, <1>s, <2>2 DEF ClearCache, HandlerOK, historyVars
<1>5. CASE \E c \in Containers : PostCompletion(w, c)
  <2>1. PICK c \in Containers : PostCompletion(w, c)
    BY <1>5
  <2> DEFINE r == [IdleWorker EXCEPT !.op = "complete", !.pc = "claim", !.c = c]
  <2>2. r \in Worker /\ r.c \in Containers
    BY DEF IdleWorker, Worker
  <2>3. worker' \in [Workers -> Worker] /\ HandlerOK'
    BY <2>1, <2>2, WorkerStep DEF PostCompletion
  <2> QED
    BY <1>s, <2>1, <2>3 DEF PostCompletion, historyVars
<1> QED
  BY <1>1, <1>2, <1>3, <1>4, <1>5 DEF Request

\* The agent and the tools that train the ML service's models.
LEMMA EnvironmentKeepsInv ==
    ASSUME Inv, NEW c \in Containers, AgentReports(c) \/ MlTrain(c)
    PROVE  Inv'
<1> USE DEF Inv, TypeOK
<1>1. CASE AgentReports(c)
  BY <1>1 DEF AgentReports, HandlerOK, historyVars
<1>2. CASE MlTrain(c)
  BY <1>2 DEF MlTrain, HandlerOK, historyVars
<1> QED
  BY <1>1, <1>2

\* The steps of a handler.
LEMMA HandlerKeepsInv ==
    ASSUME Inv, NEW w \in Workers, HandlerStep(w)
    PROVE  Inv'
<1> USE DEF Inv, TypeOK
<1> DEFINE old == worker[w]
           c == old.c
<1>0. old \in Worker /\ old.version \in Nat /\ old.index \in Nat
      /\ (old.pc \notin {"idle", "query"} => c \in Containers)
  BY WorkerFields DEF HandlerOK
<1>1. CASE GetMeta(w)
  <2>1. c \in Containers /\ old.pc = "meta"
    BY <1>0, <1>1 DEF GetMeta
  <2>2. CASE versions[c] # <<>>
    <3>1. AfterMeta(w, Latest(c).version)
      BY <1>1, <2>2 DEF GetMeta
    <3>2. Latest(c).version \in Nat
      BY <2>1, <2>2, LatestIsEntry
    <3>3. worker' \in [Workers -> Worker] /\ HandlerOK'
      BY <2>1, <3>1, <3>2, AfterMetaKeepsInv
    <3> QED
      BY <1>1, <3>3 DEF GetMeta, historyVars
  <2>3. CASE versions[c] = <<>>
    <3>1. PICK v \in RemoteVersion(c) :
             IF v = 0 THEN AfterMeta(w, 0)
             ELSE worker' = [worker EXCEPT ![w].pc = "cache", ![w].version = v]
      BY <1>1, <2>3 DEF GetMeta
    <3>2. v \in Nat
      BY <2>1 DEF RemoteVersion
    <3>3. CASE v = 0
      <4>1. worker' \in [Workers -> Worker] /\ HandlerOK'
        BY <2>1, <3>1, <3>3, AfterMetaKeepsInv
      <4> QED
        BY <1>1, <4>1 DEF GetMeta, historyVars
    <3>4. CASE v # 0
      <4> DEFINE r == [old EXCEPT !.pc = "cache", !.version = v]
      <4>1. r \in Worker /\ r.c \in Containers
        BY <1>0, <2>1, <3>2 DEF Worker
      <4>2. worker' = [worker EXCEPT ![w] = r]
        BY <3>1, <3>4
      <4>3. worker' \in [Workers -> Worker] /\ HandlerOK'
        BY <4>1, <4>2, WorkerStep
      <4> QED
        BY <1>1, <4>3 DEF GetMeta, historyVars
    <3> QED
      BY <3>3, <3>4
  <2> QED
    BY <2>2, <2>3
<1>2. CASE CacheMeta(w)
  <2>1. versions' \in [Containers -> Seq(Entry)]
    BY <1>0, <1>2, EntriesAreEntries, UpdateKeepsVersions DEF CacheMeta
  <2>2. worker' \in [Workers -> Worker] /\ HandlerOK'
    BY <1>0, <1>2, AfterMetaKeepsInv DEF CacheMeta
  <2> QED
    BY <1>2, <2>1, <2>2 DEF CacheMeta, historyVars
<1>3. CASE MarkTraining(w)
  <2> DEFINE v == old.version + 1
             r == [old EXCEPT !.pc = "put", !.version = v]
  <2>1. v \in Nat /\ c \in Containers
    BY <1>0, <1>3 DEF MarkTraining
  <2>2. versions' \in [Containers -> Seq(Entry)]
    BY <1>3, <2>1, EntriesAreEntries, UpdateKeepsVersions DEF MarkTraining
  <2>3. worker' = [worker EXCEPT ![w] = r]
    BY <1>3 DEF MarkTraining
  <2>4. r \in Worker /\ r.c \in Containers
    BY <1>0, <2>1 DEF Worker
  <2>5. worker' \in [Workers -> Worker] /\ HandlerOK'
    BY <2>3, <2>4, WorkerStep
  <2> QED
    BY <1>3, <2>2, <2>5 DEF MarkTraining, historyVars
<1>4. CASE PutJob(w)
  <2> DEFINE r == [old EXCEPT !.pc = "request"]
  <2>1. c \in Containers
    BY <1>0, <1>4 DEF PutJob
  <2>2. r \in Worker /\ r.c \in Containers
    BY <1>0, <2>1 DEF Worker
  <2>3. worker' \in [Workers -> Worker] /\ HandlerOK'
    BY <1>4, <2>2, WorkerStep DEF PutJob, Goto
  <2>4. jobs' \in [Containers -> Nat] /\ puts' \in [Containers -> Nat]
    BY <1>0, <1>4, <2>1 DEF PutJob
  <2> QED
    BY <1>4, <2>3, <2>4 DEF PutJob
<1>5. CASE RequestDump(w)
  <2>1. worker' \in [Workers -> Worker] /\ HandlerOK'
    BY <1>5, FinishKeepsInv DEF RequestDump
  <2>2. dumping' \in SUBSET Containers
    BY <1>0, <1>5 DEF RequestDump
  <2> QED
    BY <1>5, <2>1, <2>2 DEF RequestDump, historyVars
<1>6. CASE ClaimJob(w)
  <2> DEFINE r == [old EXCEPT !.pc = "read", !.version = jobs[c]]
  <2>1. c \in Containers /\ jobs[c] \in Nat
    BY <1>0, <1>6 DEF ClaimJob
  <2>2. r \in Worker /\ r.c \in Containers
    BY <1>0, <2>1 DEF Worker
  <2>3. jobs' \in [Containers -> Nat]
    BY <1>6, <2>1 DEF ClaimJob, NoJob
  <2>4. claimed' \in [Containers -> Nat]
    <3>1. claimed' = claimed \/ claimed' = [claimed EXCEPT ![c] = claimed[c] + 1]
      BY <1>6 DEF ClaimJob, Claim
    <3>2. claimed \in [Containers -> Nat] /\ claimed[c] + 1 \in Nat
      BY <2>1
    <3> HIDE DEF c, Inv, TypeOK
    <3> QED
      BY <2>1, <3>1, <3>2
  <2>5. Finish(w) \/ worker' = [worker EXCEPT ![w] = r]
    BY <1>6 DEF ClaimJob, Claim
  <2>7. done' \in [Containers -> SUBSET Nat]
    <3>1. done' = done \/ done' = [done EXCEPT ![c] = done[c] \union {jobs[c]}]
      BY <1>6 DEF ClaimJob, Claim
    <3>2. done \in [Containers -> SUBSET Nat] /\ done[c] \union {jobs[c]} \in SUBSET Nat
      BY <2>1
    <3> HIDE DEF c, Inv, TypeOK
    <3> QED
      BY <2>1, <3>1, <3>2
  <2>6. worker' \in [Workers -> Worker] /\ HandlerOK'
    BY <2>2, <2>5, FinishKeepsInv, WorkerStep
  <2> QED
    BY <1>6, <2>3, <2>4, <2>6, <2>7 DEF ClaimJob
<1>7. CASE ReadLatest(w)
  <2> DEFINE r == [old EXCEPT !.pc = "size", !.epoch = epoch,
                              !.compared = Len(versions[c])]
  <2>0. c \in Containers /\ Len(versions[c]) \in Nat
    BY <1>0, <1>7 DEF ReadLatest
  <2>1. r \in Worker /\ r.c \in Containers
    BY <1>0, <2>0 DEF Worker
  <2>2. Finish(w) \/ worker' = [worker EXCEPT ![w] = r]
    BY <1>7 DEF ReadLatest
  <2>3. worker' \in [Workers -> Worker] /\ HandlerOK'
    BY <2>1, <2>2, FinishKeepsInv, WorkerStep
  <2> QED
    BY <1>7, <2>3 DEF ReadLatest, historyVars
<1>8. CASE ReadSize(w)
  <2> DEFINE r == [old EXCEPT !.pc = "set", !.index = Len(versions[c])]
  <2>1. c \in Containers
    BY <1>0, <1>8 DEF ReadSize
  <2>2. Len(versions[c]) \in Nat
    BY <2>1
  <2>3. r \in Worker /\ r.c \in Containers
    BY <1>0, <2>1, <2>2 DEF Worker
  <2>4. Finish(w) \/ worker' = [worker EXCEPT ![w] = r]
    BY <1>8 DEF ReadSize
  <2>5. worker' \in [Workers -> Worker] /\ HandlerOK'
    BY <2>3, <2>4, FinishKeepsInv, WorkerStep
  <2> QED
    BY <1>8, <2>5 DEF ReadSize, historyVars
<1>9. CASE SetReady(w)
  <2> DEFINE list == [versions[c] EXCEPT ![old.index] = Trained(old.version)]
  <2>1. c \in Containers /\ versions[c] \in Seq(Entry)
    BY <1>0, <1>9 DEF SetReady
  <2>2. list \in Seq(Entry)
    BY <1>0, <2>1, EntriesAreEntries, SetKeepsSeq
  <2>3. versions' = versions \/ versions' = [versions EXCEPT ![c] = list]
    BY <1>9 DEF SetReady
  <2>4. versions' \in [Containers -> Seq(Entry)]
    BY <2>1, <2>2, <2>3
  <2>5. worker' \in [Workers -> Worker] /\ HandlerOK'
    BY <1>9, FinishKeepsInv DEF SetReady
  <2> QED
    BY <1>9, <2>4, <2>5 DEF SetReady, historyVars
<1>10. CASE SyncQuery(w)
  <2>1. CASE Finish(w)
    BY <1>10, <2>1, FinishKeepsInv DEF SyncQuery, historyVars
  <2>2. CASE ~Finish(w)
    <3>0. PICK d \in old.todo : \E v \in RemoteVersion(d) :
             worker' = [worker EXCEPT ![w].todo = @ \ {d}, ![w].c = d,
                                      ![w].version = v,
                                      ![w].pc = IF v = 0 THEN "query" ELSE "append"]
      BY <1>10, <2>2 DEF SyncQuery
    <3>1. PICK v \in RemoteVersion(d) :
             worker' = [worker EXCEPT ![w].todo = @ \ {d}, ![w].c = d,
                                      ![w].version = v,
                                      ![w].pc = IF v = 0 THEN "query" ELSE "append"]
      BY <3>0
    <3> DEFINE next == IF v = 0 THEN "query" ELSE "append"
               r == [old EXCEPT !.todo = old.todo \ {d}, !.c = d, !.version = v,
                                !.pc = next]
    <3>2. d \in Containers /\ old.todo \ {d} \in SUBSET Containers
      BY <1>0, WorkerFields
    <3>3. v \in Nat
      BY <3>2 DEF RemoteVersion
    <3>4. r \in Worker /\ r.c \in Containers
      BY <1>0, <3>2, <3>3 DEF Worker
    <3>5. worker' = [worker EXCEPT ![w] = r]
      BY <3>1
    <3>6. worker' \in [Workers -> Worker] /\ HandlerOK'
      BY <3>4, <3>5, WorkerStep
    <3> QED
      BY <1>10, <3>6 DEF SyncQuery, historyVars
  <2> QED
    BY <2>1, <2>2
<1>11. CASE SyncAppend(w)
  <2> DEFINE r == [old EXCEPT !.pc = "query"]
  <2>1. versions' \in [Containers -> Seq(Entry)]
    BY <1>0, <1>11, EntriesAreEntries, UpdateKeepsVersions DEF SyncAppend
  <2>2. r \in Worker /\ r.pc = "query"
    BY <1>0 DEF Worker
  <2>3. worker' \in [Workers -> Worker] /\ HandlerOK'
    BY <1>11, <2>2, WorkerStep DEF SyncAppend, Goto
  <2> QED
    BY <1>11, <2>1, <2>3 DEF SyncAppend, historyVars
<1> QED
  BY <1>1, <1>2, <1>3, <1>4, <1>5, <1>6, <1>7, <1>8, <1>9, <1>10, <1>11
  DEF HandlerStep

\* Inv holds of a server that has just started.
LEMMA InitEstablishesInv == Init => Inv
<1> SUFFICES ASSUME Init PROVE Inv
  OBVIOUS
<1>1. IdleWorker \in Worker /\ IdleWorker.pc = "idle"
  BY DEF IdleWorker, Worker
<1>2. <<>> \in Seq(Entry)
  OBVIOUS
<1> QED
  BY <1>1, <1>2 DEF Init, Inv, TypeOK, HandlerOK, NoJob

\* Every step keeps Inv.
LEMMA NextKeepsInv == Inv /\ [Next]_vars => Inv'
<1> SUFFICES ASSUME Inv, [Next]_vars PROVE Inv'
  OBVIOUS
<1>1. CASE UNCHANGED vars
  BY <1>1 DEF vars, historyVars, Inv, TypeOK, HandlerOK
<1> QED
  BY <1>1, RequestKeepsInv, HandlerKeepsInv, EnvironmentKeepsInv DEF Next

\* The job table, the version lists and the handlers' locals keep their types
\* under every interleaving of the request threads.
THEOREM TypeCorrect == Spec => []TypeOK
<1>1. Inv => TypeOK
  BY DEF Inv
<1> QED
  BY <1>1, InitEstablishesInv, NextKeepsInv, PTL DEF Spec

\* The strengthened form.
THEOREM Invariance == Spec => []Inv
BY InitEstablishesInv, NextKeepsInv, PTL DEF Spec

-----------------------------------------------------------------------------

\* A job enters the table with a put and leaves it with at most one claim:
\* only PutJob and ClaimJob touch the table, the counters and their balance.
LEMMA StepKeepsClaims ==
    ASSUME Inv, ClaimedOnce, [Next]_vars
    PROVE  ClaimedOnce'
<1> SUFFICES ASSUME NEW k \in Containers
             PROVE  claimed'[k] + (IF jobs'[k] = NoJob THEN 0 ELSE 1) <= puts'[k]
  BY DEF ClaimedOnce
<1>0. /\ claimed \in [Containers -> Nat] /\ puts \in [Containers -> Nat]
      /\ jobs \in [Containers -> Nat]
      /\ claimed[k] + (IF jobs[k] = NoJob THEN 0 ELSE 1) <= puts[k]
  BY DEF Inv, TypeOK, ClaimedOnce
<1>1. CASE \E w \in Workers : PutJob(w)
  <2>1. PICK w \in Workers : PutJob(w)
    BY <1>1
  <2>2. worker[w].c \in Containers
    BY <2>1 DEF PutJob, Inv, HandlerOK
  <2>3. CASE worker[w].c = k
    <3>1. puts'[k] = puts[k] + 1 /\ claimed' = claimed
      BY <1>0, <2>1, <2>3 DEF PutJob
    <3> QED
      BY <1>0, <3>1
  <2>4. CASE worker[w].c # k
    <3>1. puts'[k] = puts[k] /\ claimed' = claimed /\ jobs'[k] = jobs[k]
      BY <1>0, <2>1, <2>4 DEF PutJob
    <3> QED
      BY <1>0, <3>1
  <2> QED
    BY <2>3, <2>4
<1>2. CASE \E w \in Workers : ClaimJob(w)
  <2>1. PICK w \in Workers : ClaimJob(w)
    BY <1>2
  <2>2. worker[w].c \in Containers
    BY <2>1 DEF ClaimJob, Inv, HandlerOK
  <2>3. CASE worker[w].c = k
    <3>1. puts' = puts /\ jobs'[k] = NoJob
      BY <1>0, <2>1, <2>3 DEF ClaimJob
    <3>2. claimed'[k] = claimed[k] + (IF jobs[k] = NoJob THEN 0 ELSE 1)
      BY <1>0, <2>1, <2>3 DEF ClaimJob, Claim
    <3> QED
      BY <1>0, <3>1, <3>2
  <2>4. CASE worker[w].c # k
    <3>1. puts' = puts /\ claimed'[k] = claimed[k] /\ jobs'[k] = jobs[k]
      BY <1>0, <2>1, <2>4 DEF ClaimJob, Claim
    <3> QED
      BY <1>0, <3>1
  <2> QED
    BY <2>3, <2>4
<1>3. CASE UNCHANGED <<jobs, puts, claimed>>
  BY <1>0, <1>3
<1>4. \/ \E w \in Workers : PutJob(w)
      \/ \E w \in Workers : ClaimJob(w)
      \/ UNCHANGED <<jobs, puts, claimed>>
  BY ZenonT(60) DEF Next, Request, HandlerStep, StartTraining, PollView,
         StartSync, ClearCache, PostCompletion, GetMeta, CacheMeta,
         MarkTraining, RequestDump, ReadLatest, ReadSize, SetReady, SyncQuery,
         SyncAppend, AgentReports, MlTrain, vars, historyVars
<1> QED
  BY <1>1, <1>2, <1>3, <1>4

\* However many completions arrive, late, repeated or side by side, no training
\* job is finalised twice.
THEOREM JobsClaimedOnce == Spec => []ClaimedOnce
<1>1. Init => ClaimedOnce
  <2> SUFFICES ASSUME Init, NEW c \in Containers
               PROVE  claimed[c] + (IF jobs[c] = NoJob THEN 0 ELSE 1) <= puts[c]
    BY DEF ClaimedOnce
  <2>1. claimed[c] = 0 /\ puts[c] = 0 /\ jobs[c] = NoJob
    BY DEF Init
  <2> QED
    BY <2>1
<1>2. Inv /\ ClaimedOnce /\ [Next]_vars => ClaimedOnce'
  BY StepKeepsClaims
<1> QED
  BY <1>1, <1>2, Invariance, PTL DEF Spec

-----------------------------------------------------------------------------
(* What a handler remembers of the ML service's answer, of the job it took   *)
(* and of the list it looked at stays true while other handlers run: the     *)
(* ML service's versions and the finished jobs only grow, and so do the      *)
(* lists until the map is cleared, which the epoch tells.                    *)

\* What the locals of handler w say about the rest of the state.
LocalOK(w) ==
    LET r == worker[w]
    IN  /\ r.pc \in {"cache", "append"} => r.version \in 1 .. mlVersion[r.c]
        /\ r.pc \in {"read", "size", "set"} => r.version \in done[r.c]
        /\ r.pc \in {"size", "set"} => r.epoch <= epoch
        /\ r.pc = "size" /\ r.epoch = epoch => r.compared <= Len(versions[r.c])
        /\ r.pc = "set" /\ r.epoch = epoch => r.compared <= r.index

LocalsOK == \A w \in Workers : LocalOK(w)

\* The ways a step may change one container's list.
ListStep(c) ==
    \/ versions'[c] = versions[c]
    \/ versions'[c] = <<>> /\ epoch' = epoch + 1
    \/ \E w \in Workers :
          /\ worker[w].c = c /\ worker[w].pc \in {"cache", "append"}
          /\ versions'[c] = Append(versions[c], Trained(worker[w].version))
    \/ \E w \in Workers :
          /\ worker[w].c = c /\ worker[w].pc = "mark"
          /\ versions'[c] = Append(versions[c], InTraining(worker[w].version + 1))
    \/ \E w \in Workers :
          /\ worker[w].c = c /\ worker[w].pc = "set" /\ worker[w].epoch = epoch
          /\ versions'[c] = [versions[c] EXCEPT ![worker[w].index] =
                                                   Trained(worker[w].version)]

\* Every step changes every list in one of these ways.
LEMMA StepOnLists ==
    ASSUME Inv, [Next]_vars, NEW k \in Containers
    PROVE  ListStep(k)
<1>0. /\ versions \in [Containers -> Seq(Entry)] /\ worker \in [Workers -> Worker]
      /\ \A w \in Workers : worker[w].version \in Nat
  BY WorkerFields DEF Inv, TypeOK
<1>1. CASE versions' = versions
  BY <1>1 DEF ListStep
<1>2. ASSUME NEW w \in Workers, CacheMeta(w) PROVE ListStep(k)
  <2>1. /\ worker[w].c \in Containers /\ worker[w].pc = "cache"
        /\ versions' = [versions EXCEPT ![worker[w].c] =
                           Append(@, Trained(worker[w].version))]
    BY <1>2 DEF CacheMeta, Update, Inv, HandlerOK
  <2>2. CASE worker[w].c = k
    BY <1>0, <2>1, <2>2 DEF ListStep
  <2>3. CASE worker[w].c # k
    BY <1>0, <2>1, <2>3 DEF ListStep
  <2> QED
    BY <2>2, <2>3
<1>3. ASSUME NEW w \in Workers, SyncAppend(w) PROVE ListStep(k)
  <2>1. /\ worker[w].c \in Containers /\ worker[w].pc = "append"
        /\ versions' = [versions EXCEPT ![worker[w].c] =
                           Append(@, Trained(worker[w].version))]
    BY <1>3 DEF SyncAppend, Update, Inv, HandlerOK
  <2>2. CASE worker[w].c = k
    BY <1>0, <2>1, <2>2 DEF ListStep
  <2>3. CASE worker[w].c # k
    BY <1>0, <2>1, <2>3 DEF ListStep
  <2> QED
    BY <2>2, <2>3
<1>4. ASSUME NEW w \in Workers, MarkTraining(w) PROVE ListStep(k)
  <2>1. /\ worker[w].c \in Containers /\ worker[w].pc = "mark"
        /\ versions' = [versions EXCEPT ![worker[w].c] =
                           Append(@, InTraining(worker[w].version + 1))]
    BY <1>4 DEF MarkTraining, Update, Inv, HandlerOK
  <2>2. CASE worker[w].c = k
    BY <1>0, <2>1, <2>2 DEF ListStep
  <2>3. CASE worker[w].c # k
    BY <1>0, <2>1, <2>3 DEF ListStep
  <2> QED
    BY <2>2, <2>3
<1>5. ASSUME NEW w \in Workers, SetReady(w), versions' # versions PROVE ListStep(k)
  <2> DEFINE c == worker[w].c
             s == versions[c]
  <2>1. /\ c \in Containers /\ worker[w].pc = "set" /\ worker[w].epoch = epoch
        /\ versions' = [versions EXCEPT ![c] =
               [s EXCEPT ![worker[w].index] = Trained(worker[w].version)]]
    BY <1>5 DEF SetReady, Inv, HandlerOK
  <2>3. CASE c = k
    BY <1>0, <2>1, <2>3 DEF ListStep
  <2>4. CASE c # k
    BY <1>0, <2>1, <2>4 DEF ListStep
  <2> QED
    BY <2>3, <2>4
<1>6. ASSUME NEW w \in Workers, ClearCache(w) PROVE ListStep(k)
  BY <1>6 DEF ClearCache, ListStep
<1> QED
  BY <1>1, <1>2, <1>3, <1>4, <1>5, <1>6
  DEF Next, Request, HandlerStep, StartTraining, PollView,
      StartSync, PostCompletion, GetMeta, PutJob, RequestDump, ClaimJob,
      ReadLatest, ReadSize, SyncQuery, AgentReports, MlTrain, vars

\* Setting an entry does not change which entries there are.
LEMMA SetKeepsLen ==
    ASSUME NEW S, NEW s \in Seq(S), NEW i, NEW e \in S
    PROVE  Len([s EXCEPT ![i] = e]) = Len(s)
<1>1. [s EXCEPT ![i] = e] \in Seq(S)
  BY SetKeepsSeq
<1>2. DOMAIN [s EXCEPT ![i] = e] = DOMAIN s
  OBVIOUS
<1>3. DOMAIN s = 1 .. Len(s) /\ Len(s) \in Nat
  OBVIOUS
<1>4. /\ DOMAIN [s EXCEPT ![i] = e] = 1 .. Len([s EXCEPT ![i] = e])
      /\ Len([s EXCEPT ![i] = e]) \in Nat
  BY <1>1
<1> QED
  BY <1>2, <1>3, <1>4

\* What handlers rely on only grows.
LEMMA SharedStateGrows ==
    ASSUME Inv, [Next]_vars, NEW k \in Containers
    PROVE  /\ mlVersion[k] <= mlVersion'[k] /\ done[k] \subseteq done'[k]
           /\ epoch <= epoch'
           /\ epoch' = epoch => Len(versions[k]) <= Len(versions'[k])
<1>0. /\ versions[k] \in Seq(Entry) /\ epoch \in Nat /\ mlVersion \in [Containers -> Nat]
      /\ done \in [Containers -> SUBSET Nat]
      /\ \A w \in Workers : worker[w].version \in Nat
  BY WorkerFields DEF Inv, TypeOK
<1>1. mlVersion[k] <= mlVersion'[k]
  <2>1. CASE mlVersion' = mlVersion
    BY <1>0, <2>1
  <2>2. ASSUME NEW c \in Containers, MlTrain(c) PROVE mlVersion[k] <= mlVersion'[k]
    BY <1>0, <2>2 DEF MlTrain
  <2>3. mlVersion' = mlVersion \/ \E c \in Containers : MlTrain(c)
    BY ZenonT(60) DEF Next, Request, HandlerStep, StartTraining, PollView, StartSync,
        ClearCache, PostCompletion, GetMeta, CacheMeta, MarkTraining, PutJob,
        RequestDump, ClaimJob, ReadLatest, ReadSize, SetReady, SyncQuery,
        SyncAppend, AgentReports, vars
  <2> QED
    BY <2>1, <2>2, <2>3
<1>2. done[k] \subseteq done'[k]
  <2>1. CASE done' = done
    BY <2>1
  <2>2. ASSUME NEW w \in Workers, ClaimJob(w) PROVE done[k] \subseteq done'[k]
    <3>1. \/ done' = done
          \/ done' = [done EXCEPT ![worker[w].c] = @ \union {jobs[worker[w].c]}]
      BY <2>2 DEF ClaimJob, Claim
    <3> QED
      BY <1>0, <3>1
  <2>3. done' = done \/ \E w \in Workers : ClaimJob(w)
    BY ZenonT(60) DEF Next, Request, HandlerStep, StartTraining, PollView, StartSync,
        ClearCache, PostCompletion, GetMeta, CacheMeta, MarkTraining, PutJob,
        RequestDump, ReadLatest, ReadSize, SetReady, SyncQuery,
        SyncAppend, AgentReports, MlTrain, vars, historyVars
  <2> QED
    BY <2>1, <2>2, <2>3
<1>3. epoch <= epoch'
  <2>1. epoch' = epoch \/ epoch' = epoch + 1
    BY ZenonT(60) DEF Next, Request, HandlerStep, StartTraining, PollView, StartSync,
        ClearCache, PostCompletion, GetMeta, CacheMeta, MarkTraining, PutJob,
        RequestDump, ClaimJob, ReadLatest, ReadSize, SetReady, SyncQuery,
        SyncAppend, AgentReports, MlTrain, vars
  <2> QED
    BY <1>0, <2>1
<1>4. ASSUME epoch' = epoch PROVE Len(versions[k]) <= Len(versions'[k])
  <2>1. ASSUME NEW v \in Nat
        PROVE  /\ Len(Append(versions[k], Trained(v))) = Len(versions[k]) + 1
               /\ Len(Append(versions[k], InTraining(v))) = Len(versions[k]) + 1
    BY <1>0, <2>1, EntriesAreEntries
  <2>2. Len(versions[k]) \in Nat
    BY <1>0
  <2>3. epoch' # epoch + 1
    BY <1>0, <1>4
  <2>4. ASSUME NEW w \in Workers
        PROVE  worker[w].version \in Nat /\ worker[w].version + 1 \in Nat
    BY <1>0
  <2>5. CASE versions'[k] = versions[k]
    BY <2>2, <2>5
  <2>6. ASSUME NEW w \in Workers,
               \/ versions'[k] = Append(versions[k], Trained(worker[w].version))
               \/ versions'[k] = Append(versions[k], InTraining(worker[w].version + 1))
        PROVE  Len(versions[k]) <= Len(versions'[k])
    BY <2>1, <2>2, <2>4, <2>6
  <2>7. ASSUME NEW w \in Workers,
               versions'[k] = [versions[k] EXCEPT ![worker[w].index] =
                                                     Trained(worker[w].version)]
        PROVE  Len(versions[k]) <= Len(versions'[k])
    <3>1. Trained(worker[w].version) \in Entry
      BY <2>4, EntriesAreEntries
    <3>2. Len(versions'[k]) = Len(versions[k])
      BY <1>0, <2>7, <3>1, SetKeepsLen
    <3> QED
      BY <2>2, <3>2
  <2>8. ListStep(k)
    BY StepOnLists
  <2> QED
    BY <2>3, <2>5, <2>6, <2>7, <2>8 DEF ListStep
<1> QED
  BY <1>1, <1>2, <1>3, <1>4

\* A handler that does not move keeps what it knows.
LEMMA LocalStays ==
    ASSUME Inv, [Next]_vars, NEW w \in Workers, LocalOK(w), worker'[w] = worker[w]
    PROVE  LocalOK(w)'
<1> DEFINE r == worker[w]
<1>1. CASE r.pc \in {"idle", "query"}
  BY <1>1 DEF LocalOK
<1>2. CASE r.pc \notin {"idle", "query"}
  <2>1. r.c \in Containers
    BY <1>2 DEF Inv, HandlerOK
  <2>2. /\ mlVersion[r.c] <= mlVersion'[r.c] /\ done[r.c] \subseteq done'[r.c]
        /\ epoch <= epoch'
        /\ epoch' = epoch => Len(versions[r.c]) <= Len(versions'[r.c])
    BY <2>1, SharedStateGrows
  <2>3. /\ mlVersion[r.c] \in Nat /\ mlVersion'[r.c] \in Nat /\ epoch \in Nat
        /\ epoch' \in Nat /\ versions[r.c] \in Seq(Entry) /\ versions'[r.c] \in Seq(Entry)
    BY <2>1, NextKeepsInv DEF Inv, TypeOK
  <2>4. r \in Worker /\ r.version \in Nat /\ r.compared \in Nat /\ r.index \in Nat
        /\ r.epoch \in Nat
    BY WorkerFields DEF Inv, TypeOK
  <2>5. Len(versions[r.c]) \in Nat /\ Len(versions'[r.c]) \in Nat
    BY <2>3
  <2> QED
    BY <2>2, <2>3, <2>4, <2>5, SMTT(20) DEF LocalOK
<1> QED
  BY <1>1, <1>2

\* The steps of a handler that leave it with nothing to know, or with what it
\* has just read.
LEMMA HandlerMoves ==
    ASSUME Inv, NEW w \in Workers, LocalOK(w), HandlerStep(w)
    PROVE  LocalOK(w)' /\ \A u \in Workers \ {w} : worker'[u] = worker[u]
<1> DEFINE old == worker[w]
           c == old.c
<1>0. /\ worker \in [Workers -> Worker] /\ old \in Worker /\ old.version \in Nat
      /\ old.pc \notin {"idle", "query"} => c \in Containers
  BY WorkerFields DEF Inv, TypeOK, HandlerOK
<1>f. ASSUME Finish(w) PROVE LocalOK(w)' /\ \A u \in Workers \ {w} : worker'[u] = worker[u]
  BY <1>0, <1>f DEF Finish, IdleWorker, LocalOK
<1>a. ASSUME NEW v \in Nat, AfterMeta(w, v)
      PROVE  LocalOK(w)' /\ \A u \in Workers \ {w} : worker'[u] = worker[u]
  <2> DEFINE r == [old EXCEPT !.pc = "mark", !.version = v]
  <2>1. worker' = [worker EXCEPT ![w] = r] \/ worker' = [worker EXCEPT ![w] = IdleWorker]
    BY <1>a DEF AfterMeta
  <2>2. r.pc = "mark" /\ IdleWorker.pc = "idle"
    BY <1>0 DEF Worker, IdleWorker
  <2> HIDE DEF r
  <2> QED
    BY <1>0, <2>1, <2>2 DEF LocalOK
<1>1. CASE GetMeta(w)
  <2>1. c \in Containers /\ versions \in [Containers -> Seq(Entry)]
        /\ mlVersion[c] \in Nat /\ mlVersion' = mlVersion
    BY <1>0, <1>1 DEF GetMeta, Inv, TypeOK
  <2>2. CASE versions[c] # <<>>
    BY <1>1, <1>a, <2>1, <2>2, LatestIsEntry DEF GetMeta
  <2>3. CASE versions[c] = <<>>
    <3>1. PICK v \in RemoteVersion(c) :
             IF v = 0 THEN AfterMeta(w, 0)
             ELSE worker' = [worker EXCEPT ![w].pc = "cache", ![w].version = v]
      BY <1>1, <2>3 DEF GetMeta
    <3>2. CASE v = 0
      BY <1>a, <3>1, <3>2
    <3>3. CASE v # 0
      <4> DEFINE r == [old EXCEPT !.pc = "cache", !.version = v]
      <4>1. worker' = [worker EXCEPT ![w] = r]
        BY <3>1, <3>3
      <4>2. r.pc = "cache" /\ r.version = v /\ r.c = c /\ v \in 1 .. mlVersion'[c]
        BY <1>0, <2>1, <3>3 DEF Worker, RemoteVersion
      <4> HIDE DEF r
      <4> QED
        BY <1>0, <4>1, <4>2 DEF LocalOK
    <3> QED
      BY <3>2, <3>3
  <2> QED
    BY <2>2, <2>3
<1>2. CASE CacheMeta(w)
  BY <1>0, <1>2, <1>a DEF CacheMeta
<1>3. CASE MarkTraining(w)
  BY <1>0, <1>3 DEF MarkTraining, LocalOK, Worker
<1>4. CASE PutJob(w)
  BY <1>0, <1>4 DEF PutJob, Goto, LocalOK, Worker
<1>5. CASE RequestDump(w)
  BY <1>5, <1>f DEF RequestDump
<1>6. CASE ClaimJob(w)
  <2>1. CASE Finish(w)
    BY <1>f, <2>1
  <2>2. CASE Claim(w, c, jobs[c])
    <3> DEFINE r == [old EXCEPT !.pc = "read", !.version = jobs[c]]
    <3>1. worker' = [worker EXCEPT ![w] = r]
      BY <2>2 DEF Claim
    <3>2. r.pc = "read" /\ r.version = jobs[c] /\ r.c = c
      BY <1>0 DEF Worker
    <3>3. c \in Containers
      BY <1>0, <1>6 DEF ClaimJob
    <3>4. jobs[c] \in done'[c]
      BY <2>2, <3>3 DEF Claim, Inv, TypeOK
    <3> HIDE DEF r
    <3> QED
      BY <1>0, <3>1, <3>2, <3>4 DEF LocalOK
  <2> QED
    BY <1>6, <2>1, <2>2 DEF ClaimJob
<1>7. CASE ReadLatest(w)
  <2> DEFINE r == [old EXCEPT !.pc = "size", !.epoch = epoch,
                              !.compared = Len(versions[c])]
  <2>1. CASE Finish(w)
    BY <1>f, <2>1
  <2>2. CASE worker' = [worker EXCEPT ![w] = r]
    <3>1. r.pc = "size" /\ r.version = old.version /\ r.c = c /\ r.epoch = epoch
          /\ r.compared = Len(versions[c])
      BY <1>0 DEF Worker
    <3>2. c \in Containers /\ Len(versions[c]) \in Nat /\ epoch \in Nat
      BY <1>0, <1>7 DEF ReadLatest, Inv, TypeOK
    <3>3. old.version \in done[c] /\ done' = done /\ epoch' = epoch /\ versions' = versions
      BY <1>7 DEF ReadLatest, LocalOK, historyVars
    <3> HIDE DEF r
    <3> QED
      BY <1>0, <2>2, <3>1, <3>2, <3>3 DEF LocalOK
  <2> QED
    BY <1>7, <2>1, <2>2 DEF ReadLatest
<1>8. CASE ReadSize(w)
  <2> DEFINE r == [old EXCEPT !.pc = "set", !.index = Len(versions[c])]
  <2>1. CASE Finish(w)
    BY <1>f, <2>1
  <2>2. CASE worker' = [worker EXCEPT ![w] = r] /\ old.epoch = epoch
    <3>1. r.pc = "set" /\ r.version = old.version /\ r.c = c /\ r.epoch = old.epoch
          /\ r.compared = old.compared /\ r.index = Len(versions[c])
      BY <1>0 DEF Worker
    <3>2. old.pc = "size" /\ old.compared <= Len(versions[c]) /\ old.epoch <= epoch
      BY <1>8, <2>2 DEF ReadSize, LocalOK
    <3>3. old.version \in done[c] /\ done' = done /\ epoch' = epoch
      BY <1>8 DEF ReadSize, LocalOK, historyVars
    <3> HIDE DEF r
    <3> QED
      BY <1>0, <2>2, <3>1, <3>2, <3>3 DEF LocalOK
  <2> QED
    BY <1>8, <2>1, <2>2 DEF ReadSize
<1>9. CASE SetReady(w)
  BY <1>9, <1>f DEF SetReady
<1>10. CASE SyncQuery(w)
  <2>1. CASE Finish(w)
    BY <1>f, <2>1
  <2>2. CASE ~Finish(w)
    <3>0. PICK d \in old.todo : \E v \in RemoteVersion(d) :
             worker' = [worker EXCEPT ![w].todo = @ \ {d}, ![w].c = d,
                                      ![w].version = v,
                                      ![w].pc = IF v = 0 THEN "query" ELSE "append"]
      BY <1>10, <2>2 DEF SyncQuery
    <3>1. PICK v \in RemoteVersion(d) :
             worker' = [worker EXCEPT ![w].todo = @ \ {d}, ![w].c = d,
                                      ![w].version = v,
                                      ![w].pc = IF v = 0 THEN "query" ELSE "append"]
      BY <3>0
    <3> DEFINE next == IF v = 0 THEN "query" ELSE "append"
               r == [old EXCEPT !.todo = old.todo \ {d}, !.c = d, !.version = v,
                                !.pc = next]
    <3>2. worker' = [worker EXCEPT ![w] = r]
      BY <3>1
    <3>3. d \in Containers /\ mlVersion[d] \in Nat /\ mlVersion' = mlVersion
      BY <1>0, <1>10, WorkerFields DEF SyncQuery, Inv, TypeOK
    <3>4. r.pc = next /\ r.c = d /\ r.version = v /\ v \in 0 .. mlVersion'[d]
      BY <1>0, <3>3 DEF Worker, RemoteVersion
    <3>5. \/ next = "query"
          \/ next = "append" /\ v # 0
      BY Zenon
    <3> HIDE DEF r, next
    <3> QED
      BY <1>0, <3>2, <3>3, <3>4, <3>5 DEF LocalOK
  <2> QED
    BY <2>1, <2>2
<1>11. CASE SyncAppend(w)
  BY <1>0, <1>11 DEF SyncAppend, Goto, LocalOK, Worker
<1> QED
  BY <1>1, <1>2, <1>3, <1>4, <1>5, <1>6, <1>7, <1>8, <1>9, <1>10, <1>11
  DEF HandlerStep

\* A request that is accepted starts with nothing to know.
LEMMA RequestMoves ==
    ASSUME Inv, NEW w \in Workers, Request(w)
    PROVE  \/ worker' = worker
           \/ LocalOK(w)' /\ \A u \in Workers \ {w} : worker'[u] = worker[u]
<1>0. worker \in [Workers -> Worker]
  BY DEF Inv, TypeOK
<1>1. ASSUME NEW c \in Containers, StartTraining(w, c)
      PROVE  LocalOK(w)' /\ \A u \in Workers \ {w} : worker'[u] = worker[u]
  BY <1>0, <1>1 DEF StartTraining, IdleWorker, LocalOK
<1>5. ASSUME NEW c \in Containers, PollView(w, c)
      PROVE  LocalOK(w)' /\ \A u \in Workers \ {w} : worker'[u] = worker[u]
  BY <1>0, <1>5 DEF PollView, IdleWorker, LocalOK
<1>2. ASSUME NEW c \in Containers, PostCompletion(w, c)
      PROVE  LocalOK(w)' /\ \A u \in Workers \ {w} : worker'[u] = worker[u]
  BY <1>0, <1>2 DEF PostCompletion, IdleWorker, LocalOK
<1>3. ASSUME StartSync(w)
      PROVE  LocalOK(w)' /\ \A u \in Workers \ {w} : worker'[u] = worker[u]
  BY <1>0, <1>3 DEF StartSync, IdleWorker, LocalOK
<1>4. ClearCache(w) => worker' = worker
  BY DEF ClearCache
<1> QED
  BY <1>1, <1>2, <1>3, <1>4, <1>5 DEF Request

\* LocalsOK is inductive.
LEMMA StepKeepsLocals ==
    ASSUME Inv, LocalsOK, [Next]_vars
    PROVE  LocalsOK'
<1> SUFFICES ASSUME NEW u \in Workers PROVE LocalOK(u)'
  BY DEF LocalsOK
<1>1. LocalOK(u)
  BY DEF LocalsOK
<1>2. worker'[u] = worker[u] \/ LocalOK(u)'
  <2>1. CASE \E w \in Workers : HandlerStep(w)
    BY <2>1, HandlerMoves DEF LocalsOK
  <2>2. CASE \E w \in Workers : Request(w)
    BY <2>2, RequestMoves
  <2>3. CASE \E c \in Containers : AgentReports(c) \/ MlTrain(c)
    BY <2>3 DEF AgentReports, MlTrain
  <2>4. CASE UNCHANGED vars
    BY <2>4 DEF vars
  <2> QED
    BY <2>1, <2>2, <2>3, <2>4 DEF Next
<1> QED
  BY <1>1, <1>2, LocalStays

\* No handler knows anything at the start.
LEMMA InitEstablishesLocals == Init => LocalsOK
BY DEF Init, LocalsOK, LocalOK, IdleWorker

\* What handlers remember stays true under every interleaving.
THEOREM LocalsInvariance == Spec => []LocalsOK
<1>1. Inv /\ LocalsOK /\ [Next]_vars => LocalsOK'
  BY StepKeepsLocals
<1> QED
  BY <1>1, InitEstablishesLocals, Invariance, PTL DEF Spec

\* An entry after a step is an entry from before, or a handler has just
\* written it: from the ML service's answer, as TRAINING, or as READY for the
\* job it took.
LEMMA StepKeepsCause ==
    ASSUME Inv, LocalsOK, ReadyHasCause, [Next]_vars
    PROVE  ReadyHasCause'
<1> SUFFICES ASSUME NEW k \in Containers, NEW i \in DOMAIN versions'[k],
                    versions'[k][i].status = "READY"
             PROVE  versions'[k][i].version \in done'[k] \union 1 .. mlVersion'[k]
  BY DEF ReadyHasCause
<1> DEFINE s == versions[k]
<1>0. /\ s \in Seq(Entry) /\ mlVersion[k] \in Nat /\ mlVersion'[k] \in Nat
      /\ done[k] \subseteq Nat
      /\ \A w \in Workers : worker[w].version \in Nat
  BY WorkerFields, NextKeepsInv DEF Inv, TypeOK
<1>1. mlVersion[k] <= mlVersion'[k] /\ done[k] \subseteq done'[k]
  BY SharedStateGrows
<1>2. ASSUME i \in DOMAIN s, versions'[k][i] = s[i]
      PROVE  versions'[k][i].version \in done'[k] \union 1 .. mlVersion'[k]
  <2>1. s[i].version \in done[k] \union 1 .. mlVersion[k]
    BY <1>2 DEF ReadyHasCause
  <2> QED
    BY <1>0, <1>1, <1>2, <2>1
<1>3. ASSUME NEW w \in Workers, worker[w].c = k,
             worker[w].pc \in {"cache", "append", "set"},
             versions'[k][i] = Trained(worker[w].version)
      PROVE  versions'[k][i].version \in done'[k] \union 1 .. mlVersion'[k]
  <2>1. worker[w].version \in done[k] \union 1 .. mlVersion[k]
    BY <1>3 DEF LocalsOK, LocalOK
  <2>2. versions'[k][i].version = worker[w].version
    BY <1>3 DEF Trained
  <2> QED
    BY <1>0, <1>1, <2>1, <2>2
<1>4. ASSUME NEW e \in Entry, versions'[k] = Append(s, e)
      PROVE  \/ versions'[k][i] = e
             \/ i \in DOMAIN s /\ versions'[k][i] = s[i]
  <2>1. Len(Append(s, e)) = Len(s) + 1 /\ Append(s, e)[Len(s) + 1] = e
        /\ \A j \in 1 .. Len(s) : Append(s, e)[j] = s[j]
    BY <1>0, AppendProperties
  <2>2. DOMAIN s = 1 .. Len(s) /\ Len(s) \in Nat
    BY <1>0
  <2>3. i \in 1 .. Len(s) + 1
    <3>1. Append(s, e) \in Seq(Entry)
      BY <1>0
    <3> QED
      BY <1>4, <2>1, <3>1
  <2>4. CASE i = Len(s) + 1
    BY <1>4, <2>1, <2>4, Zenon
  <2>5. CASE i \in 1 .. Len(s)
    BY <1>4, <2>1, <2>2, <2>5
  <2> QED
    BY <2>2, <2>3, <2>4, <2>5
<1>5. \A w \in Workers : /\ Trained(worker[w].version) \in Entry
                         /\ InTraining(worker[w].version + 1) \in Entry
                         /\ InTraining(worker[w].version + 1).status # "READY"
  <2> TAKE w \in Workers
  <2>1. worker[w].version \in Nat /\ worker[w].version + 1 \in Nat
    BY <1>0
  <2>2. InTraining(worker[w].version + 1).status = "TRAINING"
    BY DEF InTraining
  <2> QED
    BY <2>1, <2>2, EntriesAreEntries
<1>6. CASE versions'[k] = s
  BY <1>2, <1>6
<1>7. CASE versions'[k] = <<>>
  BY <1>7
<1>8. ASSUME NEW w \in Workers, worker[w].c = k, worker[w].pc \in {"cache", "append"},
             versions'[k] = Append(s, Trained(worker[w].version))
      PROVE  versions'[k][i].version \in done'[k] \union 1 .. mlVersion'[k]
  BY <1>2, <1>3, <1>4, <1>5, <1>8
<1>9. ASSUME NEW w \in Workers, versions'[k] = Append(s, InTraining(worker[w].version + 1))
      PROVE  versions'[k][i].version \in done'[k] \union 1 .. mlVersion'[k]
  BY <1>2, <1>4, <1>5, <1>9
<1>10. ASSUME NEW w \in Workers, worker[w].c = k, worker[w].pc = "set",
              versions'[k] = [s EXCEPT ![worker[w].index] = Trained(worker[w].version)]
       PROVE  versions'[k][i].version \in done'[k] \union 1 .. mlVersion'[k]
  <2>1. i \in DOMAIN s
    BY <1>10
  <2>2. CASE i = worker[w].index
    BY <1>3, <1>10, <2>1, <2>2
  <2>3. CASE i # worker[w].index
    BY <1>2, <1>10, <2>1, <2>3
  <2> QED
    BY <2>2, <2>3
<1>11. ListStep(k)
  BY StepOnLists
<1> QED
  BY <1>6, <1>7, <1>8, <1>9, <1>10, <1>11 DEF ListStep

\* A READY version was reported by the ML service, or a completion took the job
\* of that very version, whatever the handlers in between did.
THEOREM ReadyIsCaused == Spec => []ReadyHasCause
<1>1. Init => ReadyHasCause
  BY DEF Init, ReadyHasCause
<1>2. Inv /\ LocalsOK /\ ReadyHasCause /\ [Next]_vars => ReadyHasCause'
  BY StepKeepsCause
<1> QED
  BY <1>1, <1>2, Invariance, LocalsInvariance, PTL DEF Spec

\* Only setStatus changes an entry that is there, and the entry is not older
\* than the one whose version it compared.
LEMMA StepMovesForward ==
    ASSUME Inv, LocalsOK, [Next]_vars, NEW c \in Containers,
           NEW i \in DOMAIN versions[c] \intersect DOMAIN versions'[c],
           versions'[c][i] # versions[c][i]
    PROVE  \E w \in Workers : /\ worker[w].pc = "set" /\ worker[w].c = c
                              /\ worker[w].compared <= i
<1> DEFINE s == versions[c]
<1>0. s \in Seq(Entry) /\ \A w \in Workers : worker[w].version \in Nat
  BY WorkerFields DEF Inv, TypeOK
<1>1. versions'[c] # s /\ versions'[c] # <<>>
  OBVIOUS
<1>2. ASSUME NEW e \in Entry, versions'[c] = Append(s, e)
      PROVE  FALSE
  BY <1>0, <1>2, AppendProperties
<1>3. \A w \in Workers : /\ Trained(worker[w].version) \in Entry
                         /\ InTraining(worker[w].version + 1) \in Entry
  BY <1>0, EntriesAreEntries
<1>4. PICK w \in Workers :
          /\ worker[w].c = c /\ worker[w].pc = "set" /\ worker[w].epoch = epoch
          /\ versions'[c] = [s EXCEPT ![worker[w].index] = Trained(worker[w].version)]
  BY <1>1, <1>2, <1>3, StepOnLists DEF ListStep
<1>5. i = worker[w].index
  BY <1>4
<1>6. worker[w].compared <= worker[w].index
  BY <1>4 DEF LocalsOK, LocalOK
<1> QED
  BY <1>4, <1>5, <1>6

\* setStatus never goes back: the entry it writes is the one it compared or a
\* later one, for any number of handlers appending meanwhile.
THEOREM StatusNeverGoesBack == Spec => StatusMovesForward
<1> DEFINE Step == \A c \in Containers :
                     \A i \in DOMAIN versions[c] \intersect DOMAIN versions'[c] :
                        versions'[c][i] # versions[c][i]
                          => \E w \in Workers : /\ worker[w].pc = "set" /\ worker[w].c = c
                                                /\ worker[w].compared <= i
<1>1. Inv /\ LocalsOK /\ [Next]_vars => [Step]_vars
  BY StepMovesForward
<1> QED
  BY <1>1, Invariance, LocalsInvariance, PTL DEF Spec, StatusMovesForward

=============================================================================
