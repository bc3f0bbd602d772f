------------------------- MODULE EnforcementProofs -------------------------
(***************************************************************************)
(* Theorems about Enforcement, for any containers, number of attempts and    *)
(* bounds.                                                                  *)
(***************************************************************************)
EXTENDS Enforcement, FiniteSetTheorems, TLAPS

\* A sequence of which every element is replaced by one of the same set.
LEMMA SeqRewritten ==
    ASSUME NEW S, NEW s \in Seq(S), NEW t,
           t = [i \in DOMAIN s |-> t[i]], \A i \in DOMAIN s : t[i] \in S
    PROVE  t \in Seq(S) /\ DOMAIN t = DOMAIN s
<1>1. DOMAIN s = 1 .. Len(s) /\ Len(s) \in Nat
  OBVIOUS
<1> QED
  BY <1>1

\* The same of one element (an assignment to ingest[i]).
LEMMA SeqUpdated ==
    ASSUME NEW S, NEW s \in Seq(S), NEW i \in DOMAIN s, NEW e \in S
    PROVE  /\ [s EXCEPT ![i] = e] \in Seq(S)
           /\ DOMAIN [s EXCEPT ![i] = e] = DOMAIN s
BY SeqRewritten

\* What Append does to a sequence of the model.
LEMMA SeqAppended ==
    ASSUME NEW S, NEW s \in Seq(S), NEW e \in S
    PROVE  /\ Append(s, e) \in Seq(S)
           /\ DOMAIN s \subseteq DOMAIN Append(s, e)
           /\ \A i \in DOMAIN s : Append(s, e)[i] = s[i]
           /\ DOMAIN Append(s, e) = DOMAIN s \union {Len(s) + 1}
           /\ Append(s, e)[Len(s) + 1] = e
           /\ Len(s) + 1 \in Nat
OBVIOUS

\* What accepting a connection does to the backlog.
LEMMA SeqTail ==
    ASSUME NEW S, NEW s \in Seq(S), s # <<>>
    PROVE  /\ Head(s) \in S
           /\ Head(s) = s[1]
           /\ 1 \in DOMAIN s
           /\ Tail(s) \in Seq(S)
           /\ \A n \in DOMAIN Tail(s) : n + 1 \in DOMAIN s /\ Tail(s)[n] = s[n + 1]
OBVIOUS

-----------------------------------------------------------------------------
(* How the window requests change: their number only grows, and container   *)
(* and window of a request never change.                                    *)

\* A handler's own step.
LEMMA HandlerStep ==
    ASSUME TypeOK, NEW i \in DOMAIN ingest, NEW p \in {"store", "call", "wait", "done"},
           ingest' = [ingest EXCEPT ![i].pc = p]
    PROVE  /\ ingest' \in Seq(Ingest)
           /\ DOMAIN ingest' = DOMAIN ingest
           /\ \A j \in DOMAIN ingest : /\ ingest'[j].c = ingest[j].c
                                       /\ ingest'[j].window = ingest[j].window
                                       /\ ingest'[j].reply = ingest[j].reply
                                       /\ ingest'[j].pc = IF j = i THEN p
                                                          ELSE ingest[j].pc
<1> DEFINE e == [ingest[i] EXCEPT !.pc = p]
<1>1. ingest \in Seq(Ingest) /\ ingest[i] \in Ingest
  BY DEF TypeOK
<1>2. e \in Ingest
  BY <1>1 DEF Ingest
<1>3. ingest' = [ingest EXCEPT ![i] = e]
  OBVIOUS
<1> HIDE DEF e
<1>4. ingest' \in Seq(Ingest) /\ DOMAIN ingest' = DOMAIN ingest
  BY <1>1, <1>2, <1>3, SeqUpdated
<1>5. ASSUME NEW j \in DOMAIN ingest
      PROVE  /\ ingest'[j].c = ingest[j].c
             /\ ingest'[j].window = ingest[j].window
             /\ ingest'[j].reply = ingest[j].reply
             /\ ingest'[j].pc = IF j = i THEN p ELSE ingest[j].pc
  BY <1>1, <1>3 DEF e, Ingest
<1> QED
  BY <1>4, <1>5

\* An answer of the agent, or the end of its connections.
LEMMA ReplyStep ==
    ASSUME TypeOK, NEW ids, NEW r \in {"APPLIED", "FAILED", "rejected", "broken"},
           Reply(ids, r)
    PROVE  /\ ingest' \in Seq(Ingest)
           /\ DOMAIN ingest' = DOMAIN ingest
           /\ \A j \in DOMAIN ingest : /\ ingest'[j].c = ingest[j].c
                                       /\ ingest'[j].window = ingest[j].window
                                       /\ ingest'[j].pc = ingest[j].pc
                                       /\ ingest'[j].reply = IF j \in ids THEN r
                                                             ELSE ingest[j].reply
<1>1. ingest \in Seq(Ingest)
  BY DEF TypeOK
<1>2. ingest' = [i \in DOMAIN ingest |->
                   IF i \in ids THEN [ingest[i] EXCEPT !.reply = r] ELSE ingest[i]]
  BY DEF Reply
<1>3. ASSUME NEW j \in DOMAIN ingest
      PROVE  /\ ingest'[j] \in Ingest
             /\ ingest'[j].c = ingest[j].c
             /\ ingest'[j].window = ingest[j].window
             /\ ingest'[j].pc = ingest[j].pc
             /\ ingest'[j].reply = IF j \in ids THEN r ELSE ingest[j].reply
  <2>1. ingest[j] \in Ingest
    BY <1>1
  <2>2. ingest'[j] = IF j \in ids THEN [ingest[j] EXCEPT !.reply = r] ELSE ingest[j]
    BY <1>2
  <2>3. CASE j \in ids
    BY <2>1, <2>2, <2>3 DEF Ingest
  <2>4. CASE j \notin ids
    BY <2>1, <2>2, <2>4 DEF Ingest
  <2> QED
    BY <2>3, <2>4
<1>4. ingest' = [i \in DOMAIN ingest |-> ingest'[i]]
  BY <1>2
<1> QED
  BY <1>1, <1>3, <1>4, SeqRewritten

-----------------------------------------------------------------------------
(* Types.                                                                   *)

\* A step of the command thread within a request.
LEMMA CmdStep ==
    ASSUME NEW m \in Cmd, NEW p \in CmdPc
    PROVE  /\ [m EXCEPT !.pc = p] \in Cmd
           /\ [m EXCEPT !.pc = p].pc = p
           /\ [m EXCEPT !.pc = p].req = m.req
BY DEF Cmd

\* A step of the event loop within a POST.
LEMMA PostStep ==
    ASSUME NEW m \in Post, NEW p \in {"idle", "send", "wait", "failed"}, NEW n \in Nat
    PROVE  /\ [m EXCEPT !.pc = p] \in Post
           /\ [m EXCEPT !.pc = p, !.call = n] \in Post
           /\ [m EXCEPT !.pc = p, !.attempt = @ + 1] \in Post
<1>1. m.attempt + 1 \in Nat
  BY DEF Post
<1>2. ASSUME NEW q \in Post, NEW k \in Nat
      PROVE  [q EXCEPT !.pc = p] \in Post /\ [q EXCEPT !.call = k] \in Post
  BY DEF Post
<1>3. ASSUME NEW q \in Post, NEW k \in Nat
      PROVE  [q EXCEPT !.attempt = k] \in Post
  BY DEF Post
<1>4. /\ [m EXCEPT !.pc = p, !.call = n] = [[m EXCEPT !.pc = p] EXCEPT !.call = n]
      /\ [m EXCEPT !.pc = p, !.attempt = @ + 1]
           = [[m EXCEPT !.pc = p] EXCEPT !.attempt = m.attempt + 1]
  BY DEF Post
<1> QED
  BY <1>1, <1>2, <1>3, <1>4

\* The event loop's steps keep the types.
LEMMA TypeEventLoop ==
    ASSUME TypeOK, EventLoop \/ \E c \in Containers : PostWindow(c)
    PROVE  TypeOK'
<1>0. post \in Post
  BY DEF TypeOK
<1>1. ASSUME NEW c \in Containers, PostWindow(c) PROVE TypeOK'
  <2>1. post.window + 1 \in 0 .. MaxWindows
    BY <1>0, <1>1, EnforcementAssumption DEF PostWindow, Post
  <2> QED
    BY <2>1, <1>1 DEF TypeOK, PostWindow, Post
<1>2. ASSUME SendAttempt PROVE TypeOK'
  <2>1. CASE /\ ingest' = Append(ingest, [window |-> post.window, c |-> post.c,
                                          pc |-> "triage", reply |-> "none"])
             /\ post' = [post EXCEPT !.pc = "wait", !.call = Len(ingest) + 1]
    <3>1. [window |-> post.window, c |-> post.c, pc |-> "triage", reply |-> "none"]
             \in Ingest
      BY <1>0, EnforcementAssumption DEF Post, Ingest
    <3>2. ingest' \in Seq(Ingest) /\ Len(ingest) + 1 \in Nat
      BY <2>1, <3>1, SeqAppended DEF TypeOK
    <3>3. post' \in Post
      BY <2>1, <1>0, <3>2, PostStep
    <3> QED
      BY <3>2, <3>3, <1>2 DEF TypeOK, SendAttempt
  <2>2. CASE post' = [post EXCEPT !.pc = "failed"] /\ UNCHANGED ingest
    <3>1. post' \in Post
      BY <2>2, <1>0, PostStep
    <3> QED
      BY <2>2, <3>1, <1>2 DEF TypeOK, SendAttempt
  <2> QED
    BY <2>1, <2>2, <1>2 DEF SendAttempt
<1>3. ASSUME PostAnswered \/ PostTimesOut \/ RetryPost PROVE TypeOK'
  <2>1. post' \in Post
    BY <1>0, <1>3, PostStep DEF PostAnswered, PostTimesOut, RetryPost
  <2> QED
    BY <2>1, <1>3 DEF TypeOK, PostAnswered, PostTimesOut, RetryPost
<1> QED
  BY <1>1, <1>2, <1>3 DEF EventLoop

\* The server's steps, and another client's, keep the types.
LEMMA TypeServer ==
    ASSUME TypeOK,
           \/ \E i \in DOMAIN ingest : Handler(i)
           \/ \E c \in Containers : OtherPolicy(c)
    PROVE  TypeOK'
<1>1. ASSUME NEW i \in DOMAIN ingest, Handler(i) PROVE TypeOK'
  <2>1. ingest' \in Seq(Ingest)
    BY <1>1, HandlerStep DEF Handler, Triage, StorePolicy, CallAgent, CallReturns
  <2>2. i \in Ids /\ ingest[i].c \in Containers
    <3>1. ingest \in Seq(Ingest)
      BY DEF TypeOK
    <3>2. i \in 1 .. Len(ingest) /\ ingest[i] \in Ingest
      BY <3>1
    <3> QED
      BY <3>1, <3>2 DEF Ids, Ingest
  <2>3. CASE Triage(i) \/ CallReturns(i)
    BY <2>1, <2>3 DEF TypeOK, Triage, CallReturns
  <2>4. CASE StorePolicy(i)
    <3>1. policies' \in Seq(Ids)
      BY <2>2, <2>4, SeqAppended DEF TypeOK, StorePolicy
    <3> QED
      BY <2>1, <3>1, <2>4 DEF TypeOK, StorePolicy
  <2>5. CASE CallAgent(i)
    <3>1. [id |-> i, c |-> ingest[i].c, type |-> "SECCOMP"] \in Request
      BY <2>2 DEF Request
    <3>2. Append(backlog, [id |-> i, c |-> ingest[i].c, type |-> "SECCOMP"])
             \in Seq(Request)
      BY <3>1, SeqAppended DEF TypeOK
    <3>3. backlog' \in Seq(Request)
      BY <3>2, <2>5 DEF TypeOK, CallAgent
    <3> QED
      BY <2>1, <3>3, <2>5 DEF TypeOK, CallAgent
  <2> QED
    BY <1>1, <2>3, <2>4, <2>5 DEF Handler
<1>2. ASSUME NEW c \in Containers, OtherPolicy(c) PROVE TypeOK'
  <2>1. [id |-> 0, c |-> c, type |-> "NETWORK"] \in Request
    BY DEF Request, Ids
  <2>2. backlog' \in Seq(Request)
    BY <2>1, <1>2, SeqAppended DEF TypeOK, OtherPolicy
  <2>3. others' \in 0 .. MaxOthers
    BY <1>2, EnforcementAssumption DEF TypeOK, OtherPolicy
  <2> QED
    BY <2>2, <2>3, <1>2 DEF TypeOK, OtherPolicy
<1> QED
  BY <1>1, <1>2

\* An entry of appliedPolicies_.
LEMMA RecordType ==
    ASSUME TypeOK, Record
    PROVE  applied' \in SUBSET [id : Ids, type : {"SECCOMP", "NETWORK"}]
BY DEF TypeOK, Record, Cmd, Request

\* The command thread's steps keep the types.
LEMMA TypeCommandThread ==
    ASSUME TypeOK, CommandThread \/ SelectFails
    PROVE  TypeOK'
<1>0. /\ cmd \in Cmd /\ cmd.req \in Request /\ cmd.req.id \in Ids
      /\ cmd.req.c \in Containers
  BY DEF TypeOK, Cmd, Request
<1>p. ASSUME NEW p \in CmdPc, cmd' = [cmd EXCEPT !.pc = p] PROVE cmd' \in Cmd
  BY <1>0, <1>p, CmdStep
<1>1. CASE AcceptClient
  <2>1. backlog' \in Seq(Request) /\ Head(backlog) \in Request
    BY <1>1, SeqTail DEF TypeOK, AcceptClient
  <2>2. cmd' \in Cmd
    BY <1>1, <2>1 DEF AcceptClient, Cmd, CmdPc
  <2> QED
    BY <1>1, <2>1, <2>2 DEF TypeOK, AcceptClient
<1>2. CASE RecvRequest
  <2>1. cmd' \in Cmd
    BY <1>p, <1>2 DEF RecvRequest, Respond, CmdPc
  <2>2. ingest' \in Seq(Ingest)
    BY <1>2, ReplyStep DEF RecvRequest, Respond, TypeOK
  <2> QED
    BY <1>2, <2>1, <2>2 DEF TypeOK, RecvRequest
<1>3. CASE ApplyPolicy
  <2>1. cmd' \in Cmd
    BY <1>p, <1>3 DEF ApplyPolicy, Respond, CmdPc
  <2>2. ingest' \in Seq(Ingest)
    BY <1>3, ReplyStep DEF ApplyPolicy, Respond, TypeOK
  <2>3. applied' \in SUBSET [id : Ids, type : {"SECCOMP", "NETWORK"}]
    BY <1>3, RecordType DEF ApplyPolicy, TypeOK
  <2>4. profiles' \in SUBSET Ids /\ short' \in SUBSET profiles'
    BY <1>0, <1>3 DEF ApplyPolicy, WriteProfile, TypeOK
  <2> QED
    BY <1>3, <2>1, <2>2, <2>3, <2>4 DEF TypeOK, ApplyPolicy
<1>4. CASE LookUpContainer \/ ThreadExits \/ SelectFails
  <2>1. cmd' \in Cmd
    BY <1>p, <1>4 DEF LookUpContainer, ThreadExits, SelectFails, CmdPc
  <2> QED
    BY <1>4, <2>1 DEF TypeOK, LookUpContainer, ThreadExits, SelectFails
<1>5. CASE UpdateContainer \/ RestartContainer
  <2>1. cmd' \in Cmd
    BY <1>p, <1>5 DEF UpdateContainer, RestartContainer, CmdPc
  <2>2. docker' \in [Containers -> [set : Ids, runs : Ids]]
    BY <1>0, <1>5 DEF TypeOK, UpdateContainer, RestartContainer
  <2> QED
    BY <1>5, <2>1, <2>2 DEF TypeOK, UpdateContainer, RestartContainer
<1>6. CASE RecordPolicy
  <2>1. cmd' \in Cmd
    BY <1>p, <1>6 DEF RecordPolicy, Respond, CmdPc
  <2>2. ingest' \in Seq(Ingest)
    BY <1>6, ReplyStep DEF RecordPolicy, Respond
  <2>3. applied' \in SUBSET [id : Ids, type : {"SECCOMP", "NETWORK"}]
    BY <1>6, RecordType DEF RecordPolicy
  <2> QED
    BY <1>6, <2>1, <2>2, <2>3 DEF TypeOK, RecordPolicy
<1> QED
  BY <1>1, <1>2, <1>3, <1>4, <1>5, <1>6 DEF CommandThread, Prompt

\* Stopping, killing and starting the agent, and Docker, keep the types.
LEMMA TypeLife ==
    ASSUME TypeOK,
           \/ StopServer \/ JoinThread \/ Crash \/ StartAgent
           \/ \E c \in Containers : DockerRestart(c)
    PROVE  TypeOK'
<1>0. /\ cmd \in Cmd /\ post \in Post /\ <<>> \in Seq(Request)
      /\ agent \in [life : {"up", "stopping", "down"}, listening : BOOLEAN,
                    starts : 0 .. MaxStarts]
  BY DEF TypeOK
<1>1. CASE StopServer
  <2>1. ingest' \in Seq(Ingest)
    BY <1>1, ReplyStep DEF StopServer
  <2> QED
    BY <1>0, <1>1, <2>1 DEF TypeOK, StopServer
<1>2. CASE JoinThread
  BY <1>0, <1>2 DEF TypeOK, JoinThread
<1>3. CASE Crash
  <2>1. ingest' \in Seq(Ingest)
    BY <1>3, ReplyStep DEF Crash
  <2>2. cmd' \in Cmd /\ post' \in Post
    BY <1>0, <1>3, CmdStep, PostStep DEF Crash, CmdPc
  <2>3. agent' \in [life : {"up", "stopping", "down"}, listening : BOOLEAN,
                    starts : 0 .. MaxStarts]
    BY <1>0, <1>3 DEF Crash
  <2> QED
    BY <1>0, <1>3, <2>1, <2>2, <2>3 DEF TypeOK, Crash
<1>4. CASE StartAgent
  <2>1. cmd' \in Cmd
    <3>1. PICK p \in {"select", "exited"} : cmd' = [cmd EXCEPT !.pc = p]
      BY <1>4 DEF StartAgent
    <3> QED
      BY <1>0, <3>1, CmdStep DEF CmdPc
  <2>2. agent.starts + 1 \in 0 .. MaxStarts
    BY <1>0, <1>4, EnforcementAssumption DEF StartAgent
  <2>3. agent' \in [life : {"up", "stopping", "down"}, listening : BOOLEAN,
                    starts : 0 .. MaxStarts]
    BY <2>2, <1>4 DEF StartAgent
  <2> QED
    BY <1>4, <2>1, <2>3 DEF TypeOK, StartAgent
<1>5. ASSUME NEW c \in Containers, DockerRestart(c) PROVE TypeOK'
  <2>1. docker' \in [Containers -> [set : Ids, runs : Ids]]
    BY <1>5 DEF TypeOK, DockerRestart
  <2> QED
    BY <1>5, <2>1 DEF TypeOK, DockerRestart
<1> QED
  BY <1>1, <1>2, <1>3, <1>4, <1>5

\* The types hold at the start.
LEMMA TypeInit == Init => TypeOK
<1> SUFFICES ASSUME Init PROVE TypeOK
  OBVIOUS
<1>1. PICK c \in Containers :
        /\ post = [pc |-> "idle", c |-> c, window |-> 0, attempt |-> 0, call |-> 0]
        /\ cmd = [pc |-> "exited", req |-> [id |-> 0, c |-> c, type |-> "NETWORK"]]
  BY DEF Init
<1>2. post \in Post
  BY <1>1, EnforcementAssumption DEF Post
<1>3. cmd \in Cmd
  BY <1>1 DEF Cmd, CmdPc, Request, Ids
<1>4. agent \in [life : {"up", "stopping", "down"}, listening : BOOLEAN,
                starts : 0 .. MaxStarts]
  BY EnforcementAssumption DEF Init
<1> QED
  BY <1>2, <1>3, <1>4, EnforcementAssumption DEF Init, TypeOK, Ids, NoPolicy

\* One step of any thread keeps the types.
LEMMA TypeNext ==
    ASSUME TypeOK, [Next]_vars
    PROVE  TypeOK'
<1>1. CASE UNCHANGED vars
  BY <1>1 DEF TypeOK, vars
<1>2. CASE Next
  BY <1>2, TypeEventLoop, TypeServer, TypeCommandThread, TypeLife DEF Next
<1> QED
  BY <1>1, <1>2

\* The locals of the three threads, the repositories and the files keep their
\* shapes (postJsonWithRetry, ingestWindow, handleClient, apply).
THEOREM EnforcementTypes == Spec => []TypeOK
<1>1. TypeOK /\ [Next]_vars => TypeOK'
  BY TypeNext
<1> QED
  BY TypeInit, <1>1, PTL DEF Spec

-----------------------------------------------------------------------------
(* What is ordered, written and enforced.                                   *)

\* The server generated policy id for container c, and has stored it.
Known(id, c) == /\ id \in DOMAIN ingest
                /\ ingest[id].c = c
                /\ Stored(id)

RequestOK(r) == IF r.type = "SECCOMP" THEN Known(r.id, r.c) ELSE r.id = 0

\* Only stored policies are on their way to Docker.
OrdersKnown ==
    /\ \A i \in DOMAIN ingest : ingest[i].pc \in {"call", "wait"} => Stored(i)
    /\ \A n \in DOMAIN backlog : RequestOK(backlog[n])
    /\ RequestOK(cmd.req)

\* Past the write, the profile of the request being served exists.
ProfileWritten ==
    cmd.pc \in {"lookup", "update", "restart", "record"} =>
        cmd.req.type = "SECCOMP" /\ cmd.req.id \in profiles

DockerKnown ==
    \A c \in Containers : \A id \in {docker[c].set, docker[c].runs} :
        id # NoPolicy => Known(id, c) /\ id \in profiles

\* The inductive invariant.
EnforcementInv ==
    /\ TypeOK
    /\ OrdersKnown
    /\ ProfileWritten
    /\ DockerKnown
    /\ AppliedMeansFile
    /\ NoWorkAfterStop

\* No step takes back a window request, a stored policy or a profile.
LEMMA HistoryKept ==
    ASSUME TypeOK, Next
    PROVE  /\ \A id, c : Known(id, c) => Known(id, c)'
           /\ \A id : Stored(id) => Stored(id)'
           /\ profiles \subseteq profiles'
<1>1. /\ DOMAIN ingest \subseteq DOMAIN ingest'
      /\ \A i \in DOMAIN ingest : ingest'[i].c = ingest[i].c
  <2>1. CASE UNCHANGED ingest
    BY <2>1
  <2>2. ASSUME NEW i \in DOMAIN ingest, Handler(i) PROVE <1>1
    <3>1. \E p \in {"store", "call", "wait", "done"} :
             ingest' = [ingest EXCEPT ![i].pc = p]
      BY <2>2 DEF Handler, Triage, StorePolicy, CallAgent, CallReturns
    <3> QED
      BY <3>1, HandlerStep
  <2>3. ASSUME NEW ids, NEW r \in {"APPLIED", "FAILED", "rejected", "broken"},
               Reply(ids, r)
        PROVE  <1>1
    BY <2>3, ReplyStep
  <2>4. CASE SendAttempt
    <3>1. ASSUME ingest' = Append(ingest, [window |-> post.window, c |-> post.c,
                                           pc |-> "triage", reply |-> "none"])
          PROVE  <1>1
      <4>1. [window |-> post.window, c |-> post.c, pc |-> "triage",
             reply |-> "none"] \in Ingest
        BY EnforcementAssumption DEF TypeOK, Post, Ingest
      <4> QED
        BY <3>1, <4>1, SeqAppended DEF TypeOK
    <3> QED
      BY <2>1, <3>1, <2>4 DEF SendAttempt
  <2>5. CASE EventLoop
    BY <2>1, <2>4, <2>5 DEF EventLoop, PostAnswered, PostTimesOut, RetryPost
  <2>6. CASE CommandThread
    BY <2>1, <2>3, <2>6 DEF CommandThread, Prompt, AcceptClient, RecvRequest, ApplyPolicy, WriteProfile,
       LookUpContainer, UpdateContainer, RestartContainer, RecordPolicy, ThreadExits,
       Respond
  <2>7. CASE SelectFails \/ StopServer \/ JoinThread \/ Crash \/ StartAgent
    BY <2>1, <2>3, <2>7 DEF SelectFails, StopServer, JoinThread, Crash, StartAgent
  <2>8. CASE \E c \in Containers : PostWindow(c) \/ OtherPolicy(c) \/ DockerRestart(c)
    BY <2>1, <2>8 DEF PostWindow, OtherPolicy, DockerRestart
  <2> QED
    BY <2>2, <2>5, <2>6, <2>7, <2>8 DEF Next
<1>2. \A id : Stored(id) => Stored(id)'
  <2>1. CASE UNCHANGED policies
    BY <2>1 DEF Stored
  <2>2. ASSUME NEW i \in DOMAIN ingest, StorePolicy(i) PROVE <1>2
    <3>1. i \in Ids /\ policies \in Seq(Ids)
      BY DEF TypeOK, Ids
    <3>2. /\ DOMAIN policies \subseteq DOMAIN policies'
          /\ \A n \in DOMAIN policies : policies'[n] = policies[n]
      BY <2>2, <3>1, SeqAppended DEF StorePolicy
    <3> QED
      BY <3>2 DEF Stored
  <2>3. CASE \E i \in DOMAIN ingest : Handler(i)
    BY <2>1, <2>2, <2>3 DEF Handler, Triage, CallAgent, CallReturns
  <2>4. CASE EventLoop \/ CommandThread
    BY <2>1, <2>4 DEF EventLoop, SendAttempt, PostAnswered, PostTimesOut, RetryPost,
       CommandThread, Prompt, AcceptClient, RecvRequest, ApplyPolicy, WriteProfile, LookUpContainer,
       UpdateContainer, RestartContainer, RecordPolicy, ThreadExits
  <2>5. CASE SelectFails \/ StopServer \/ JoinThread \/ Crash \/ StartAgent
    BY <2>1, <2>5 DEF SelectFails, StopServer, JoinThread, Crash, StartAgent
  <2>6. CASE \E c \in Containers : PostWindow(c) \/ OtherPolicy(c) \/ DockerRestart(c)
    BY <2>1, <2>6 DEF PostWindow, OtherPolicy, DockerRestart
  <2> QED
    BY <2>3, <2>4, <2>5, <2>6 DEF Next
<1>3. profiles \subseteq profiles'
  BY DEF Next, EventLoop, SendAttempt, PostAnswered, PostTimesOut, RetryPost,
     CommandThread, Prompt, AcceptClient, RecvRequest, ApplyPolicy, WriteProfile, LookUpContainer,
     UpdateContainer, RestartContainer, RecordPolicy, ThreadExits,
     SelectFails, StopServer, JoinThread, Crash, StartAgent,
     PostWindow, OtherPolicy, DockerRestart, Handler, Triage, StorePolicy, CallAgent,
     CallReturns
<1> QED
  BY <1>1, <1>2, <1>3 DEF Known

\* Neither do the requests of the agent lose what was known of them.
LEMMA RequestsStayOK ==
    ASSUME TypeOK, Next
    PROVE  \A r : RequestOK(r) => RequestOK(r)'
BY HistoryKept DEF RequestOK

\* The handlers about to call the agent, or waiting for it, have stored.
LEMMA CallersStored ==
    ASSUME EnforcementInv, Next
    PROVE  \A i \in DOMAIN ingest' : ingest'[i].pc \in {"call", "wait"} => Stored(i)'
<1> DEFINE Goal == \A i \in DOMAIN ingest' :
                      ingest'[i].pc \in {"call", "wait"} => Stored(i)'
<1> SUFFICES Goal
  OBVIOUS
<1>0. /\ TypeOK
      /\ \A i \in DOMAIN ingest : ingest[i].pc \in {"call", "wait"} => Stored(i)
      /\ \A id : Stored(id) => Stored(id)'
  BY HistoryKept DEF EnforcementInv, OrdersKnown
<1>1. CASE UNCHANGED ingest
  BY <1>0, <1>1
<1>2. ASSUME NEW i \in DOMAIN ingest, Handler(i) PROVE Goal
  <2>1. ASSUME NEW p \in {"store", "call", "wait", "done"},
               ingest' = [ingest EXCEPT ![i].pc = p],
               p \in {"call", "wait"} => Stored(i)'
        PROVE  Goal
    <3>1. /\ DOMAIN ingest' = DOMAIN ingest
          /\ \A j \in DOMAIN ingest : ingest'[j].pc = IF j = i THEN p ELSE ingest[j].pc
      BY <1>0, <2>1, HandlerStep
    <3> QED
      BY <1>0, <2>1, <3>1
  <2>2. CASE Triage(i)
    BY <2>1, <2>2 DEF Triage
  <2>3. CASE StorePolicy(i)
    <3>1. i \in Ids /\ policies \in Seq(Ids)
      BY <1>0 DEF TypeOK, Ids
    <3>2. \E n \in DOMAIN policies' : policies'[n] = i
      BY <2>3, <3>1, SeqAppended DEF StorePolicy
    <3>3. Stored(i)'
      BY <3>2 DEF Stored
    <3> QED
      BY <2>1, <2>3, <3>3 DEF StorePolicy
  <2>4. CASE CallAgent(i)
    <3>1. Stored(i)'
      BY <1>0, <2>4 DEF CallAgent
    <3> QED
      BY <2>1, <2>4, <3>1 DEF CallAgent
  <2>5. CASE CallReturns(i)
    BY <2>1, <2>5 DEF CallReturns
  <2> QED
    BY <1>2, <2>2, <2>3, <2>4, <2>5 DEF Handler
<1>3. ASSUME NEW ids, NEW r \in {"APPLIED", "FAILED", "rejected", "broken"},
             Reply(ids, r)
      PROVE  Goal
  <2>1. /\ DOMAIN ingest' = DOMAIN ingest
        /\ \A j \in DOMAIN ingest : ingest'[j].pc = ingest[j].pc
    BY <1>0, <1>3, ReplyStep
  <2> QED
    BY <1>0, <2>1
<1>4. CASE SendAttempt
  <2>1. CASE UNCHANGED ingest
    BY <2>1, <1>1
  <2>2. CASE ingest' = Append(ingest, [window |-> post.window, c |-> post.c,
                                       pc |-> "triage", reply |-> "none"])
    <3> DEFINE e == [window |-> post.window, c |-> post.c, pc |-> "triage",
                     reply |-> "none"]
    <3>1. e \in Ingest /\ e.pc = "triage"
      BY <1>0, EnforcementAssumption DEF TypeOK, Post, Ingest
    <3> HIDE DEF e
    <3>2. ingest' = Append(ingest, e)
      BY <2>2 DEF e
    <3>3. /\ \A i \in DOMAIN ingest : ingest'[i] = ingest[i]
          /\ DOMAIN ingest' = DOMAIN ingest \union {Len(ingest) + 1}
          /\ ingest'[Len(ingest) + 1] = e
      BY <1>0, <3>1, <3>2, SeqAppended DEF TypeOK
    <3> QED
      BY <1>0, <3>1, <3>3
  <2> QED
    BY <1>4, <2>1, <2>2 DEF SendAttempt
<1> HIDE DEF Goal
<1>5. CASE EventLoop
  BY <1>1, <1>4, <1>5 DEF EventLoop, PostAnswered, PostTimesOut, RetryPost
<1>6. CASE CommandThread
  BY <1>1, <1>3, <1>6 DEF CommandThread, Prompt, AcceptClient, RecvRequest, ApplyPolicy, WriteProfile,
     LookUpContainer, UpdateContainer, RestartContainer, RecordPolicy, ThreadExits,
     Respond
<1>7. CASE SelectFails \/ StopServer \/ JoinThread \/ Crash \/ StartAgent
  BY <1>1, <1>3, <1>7 DEF SelectFails, StopServer, JoinThread, Crash, StartAgent
<1>8. CASE \E c \in Containers : PostWindow(c) \/ OtherPolicy(c) \/ DockerRestart(c)
  BY <1>1, <1>8 DEF PostWindow, OtherPolicy, DockerRestart
<1> QED
  BY <1>2, <1>5, <1>6, <1>7, <1>8 DEF Next

\* What is queued at the agent, and what it is serving, has been stored.
LEMMA QueuedKnown ==
    ASSUME EnforcementInv, Next
    PROVE  /\ \A n \in DOMAIN backlog' : \A r : r = backlog'[n] => RequestOK(r)'
           /\ \A r : r = cmd'.req => RequestOK(r)'
<1> DEFINE Goal == \A n \in DOMAIN backlog' : \A r : r = backlog'[n] => RequestOK(r)'
<1>0. /\ TypeOK
      /\ \A n \in DOMAIN backlog : RequestOK(backlog[n])
      /\ RequestOK(cmd.req)
      /\ \A r : RequestOK(r) => RequestOK(r)'
      /\ backlog \in Seq(Request) /\ cmd \in Cmd
  BY RequestsStayOK DEF EnforcementInv, OrdersKnown, TypeOK
<1>a. \A n \in DOMAIN backlog : \A r : r = backlog[n] => RequestOK(r)'
  <2> TAKE n \in DOMAIN backlog
  <2> TAKE r
  <2> HAVE r = backlog[n]
  <2>1. RequestOK(r)
    BY <1>0
  <2> QED
    BY <1>0, <2>1
<1>1. ASSUME backlog' = backlog \/ backlog' = <<>> PROVE Goal
  BY <1>a, <1>1
<1>2. ASSUME NEW e \in Request, backlog' = Append(backlog, e), RequestOK(e)'
      PROVE  Goal
  <2>1. /\ \A n \in DOMAIN backlog : backlog'[n] = backlog[n]
        /\ DOMAIN backlog' = DOMAIN backlog \union {Len(backlog) + 1}
        /\ backlog'[Len(backlog) + 1] = e
    BY <1>0, <1>2, SeqAppended
  <2> QED
    BY <1>a, <1>2, <2>1
<1>3. ASSUME NEW i \in DOMAIN ingest, Handler(i) PROVE Goal
  <2>1. CASE CallAgent(i)
    <3>e. PICK e : e = [id |-> i, c |-> ingest[i].c, type |-> "SECCOMP"]
      OBVIOUS
    <3>1. ingest \in Seq(Ingest) /\ i \in Nat /\ ingest[i] \in Ingest
      BY <1>0 DEF TypeOK
    <3>2. e \in Request
      BY <3>e, <3>1 DEF Request, Ids, Ingest
    <3>3. Known(i, ingest[i].c)
      BY <2>1 DEF EnforcementInv, OrdersKnown, Known, CallAgent
    <3>4. RequestOK(e)
      BY <3>e, <3>3 DEF RequestOK
    <3>5. backlog' = Append(backlog, e) \/ backlog' = backlog
      BY <3>e, <2>1 DEF CallAgent
    <3> QED
      BY <1>0, <1>1, <1>2, <3>2, <3>4, <3>5
  <2>2. CASE Triage(i) \/ StorePolicy(i) \/ CallReturns(i)
    BY <1>1, <2>2 DEF Triage, StorePolicy, CallReturns
  <2> QED
    BY <1>3, <2>1, <2>2 DEF Handler
<1>4. ASSUME NEW c \in Containers, OtherPolicy(c) PROVE Goal
  <2> DEFINE e == [id |-> 0, c |-> c, type |-> "NETWORK"]
  <2>1. e \in Request
    BY DEF Request, Ids
  <2>2. RequestOK(e)
    BY DEF RequestOK
  <2> HIDE DEF e
  <2>3. backlog' = Append(backlog, e)
    BY <1>4 DEF OtherPolicy, e
  <2> QED
    BY <1>0, <1>2, <2>1, <2>2, <2>3
<1>5. ASSUME AcceptClient
      PROVE  Goal /\ \A r : r = cmd'.req => RequestOK(r)'
  <2>1. /\ backlog' = Tail(backlog) /\ backlog # <<>>
        /\ cmd' = [pc |-> "recv", req |-> Head(backlog)]
    BY <1>5 DEF AcceptClient
  <2>2. /\ Head(backlog) = backlog[1]
        /\ 1 \in DOMAIN backlog
        /\ \A n \in DOMAIN Tail(backlog) : /\ n + 1 \in DOMAIN backlog
                                            /\ Tail(backlog)[n] = backlog[n + 1]
    BY <1>0, <2>1, SeqTail
  <2> QED
    BY <1>a, <2>1, <2>2
<1>6. cmd'.req = cmd.req \/ AcceptClient
  <2>1. ASSUME NEW p \in CmdPc, cmd' = [cmd EXCEPT !.pc = p] PROVE cmd'.req = cmd.req
    BY <1>0, <2>1, CmdStep
  <2>2. CASE CommandThread /\ ~AcceptClient
    BY <2>1, <2>2 DEF CommandThread, Prompt, RecvRequest, ApplyPolicy, WriteProfile,
       LookUpContainer, UpdateContainer, RestartContainer, RecordPolicy, ThreadExits,
       Respond, CmdPc
  <2>3. CASE SelectFails \/ StopServer \/ JoinThread \/ Crash
    BY <2>1, <2>3 DEF SelectFails, StopServer, JoinThread, Crash, CmdPc
  <2>4. CASE StartAgent
    <3>1. PICK p \in {"select", "exited"} : cmd' = [cmd EXCEPT !.pc = p]
      BY <2>4 DEF StartAgent
    <3> QED
      BY <2>1, <3>1 DEF CmdPc
  <2>5. CASE EventLoop \/ \E i \in DOMAIN ingest : Handler(i)
    BY <2>5 DEF EventLoop, SendAttempt, PostAnswered, PostTimesOut, RetryPost,
       Handler, Triage, StorePolicy, CallAgent, CallReturns
  <2>6. CASE \E c \in Containers : PostWindow(c) \/ OtherPolicy(c) \/ DockerRestart(c)
    BY <2>6 DEF PostWindow, OtherPolicy, DockerRestart
  <2> QED
    BY <2>2, <2>3, <2>4, <2>5, <2>6 DEF Next
<1>7. ASSUME NEW r, r = cmd.req PROVE RequestOK(r)'
  <2>1. RequestOK(r)
    BY <1>0, <1>7
  <2> QED
    BY <1>0, <2>1
<1> HIDE DEF Goal
<1>8. Goal
  <2>2. CASE EventLoop
    BY <1>1, <2>2 DEF EventLoop, SendAttempt, PostAnswered, PostTimesOut, RetryPost
  <2>3. CASE CommandThread /\ ~AcceptClient
    BY <1>1, <2>3 DEF CommandThread, Prompt, RecvRequest, ApplyPolicy, WriteProfile,
       LookUpContainer, UpdateContainer, RestartContainer, RecordPolicy, ThreadExits
  <2>4. CASE SelectFails \/ StopServer \/ JoinThread \/ Crash \/ StartAgent
    BY <1>1, <2>4 DEF SelectFails, StopServer, JoinThread, Crash, StartAgent
  <2>5. CASE \E c \in Containers : PostWindow(c) \/ DockerRestart(c)
    BY <1>1, <2>5 DEF PostWindow, DockerRestart
  <2>6. CASE AcceptClient
    BY <2>6, <1>5
  <2> QED
    BY <1>3, <1>4, <2>2, <2>3, <2>4, <2>5, <2>6 DEF Next
<1> QED
  BY <1>5, <1>6, <1>7, <1>8 DEF Goal

\* The steps that leave the command thread, its request and Docker alone.
Elsewhere ==
    \/ EventLoop
    \/ \E i \in DOMAIN ingest : Handler(i)
    \/ \E c \in Containers : PostWindow(c) \/ OtherPolicy(c)

\* They do.
LEMMA ElsewhereLeaves == Elsewhere => UNCHANGED <<agent, cmd, applied, profiles, docker>>
BY DEF Elsewhere, EventLoop, SendAttempt, PostAnswered, PostTimesOut, RetryPost,
   Handler, Triage, StorePolicy, CallAgent, CallReturns, PostWindow, OtherPolicy

\* A policy is looked up, updated, restarted and recorded with its profile on
\* disk (apply), and not while the agent is down.
LEMMA ThreadInvariants ==
    ASSUME EnforcementInv, Next
    PROVE  ProfileWritten' /\ NoWorkAfterStop'
<1>0. /\ TypeOK /\ ProfileWritten /\ NoWorkAfterStop
      /\ cmd \in Cmd /\ agent.life \in {"up", "stopping", "down"}
  BY DEF EnforcementInv, TypeOK
<1>1. CASE Elsewhere
  BY <1>0, <1>1, ElsewhereLeaves DEF ProfileWritten, NoWorkAfterStop
<1>2. CASE CommandThread \/ SelectFails
  <2>1. UNCHANGED agent /\ profiles \subseteq profiles'
    BY <1>2, HistoryKept, <1>0 DEF CommandThread, Prompt, AcceptClient, RecvRequest,
       ApplyPolicy, WriteProfile, LookUpContainer, UpdateContainer, RestartContainer, RecordPolicy,
       ThreadExits, SelectFails
  <2>2. agent.life # "down" \/ cmd'.pc \notin Working
    <3>1. AcceptClient => agent.life # "down"
      BY DEF AcceptClient
    <3>2. ThreadExits \/ SelectFails => cmd'.pc = "exited"
      BY <1>0 DEF ThreadExits, SelectFails, Cmd
    <3>3. CommandThread /\ ~AcceptClient /\ ~ThreadExits => cmd.pc \in Working
      BY DEF CommandThread, Prompt, RecvRequest, ApplyPolicy, WriteProfile, LookUpContainer, UpdateContainer,
         RestartContainer, RecordPolicy, Working, CmdPc
    <3> QED
      BY <1>0, <1>2, <3>1, <3>2, <3>3 DEF NoWorkAfterStop, Working
  <2>3. ProfileWritten'
    <3>1. ASSUME NEW p \in CmdPc, cmd' = [cmd EXCEPT !.pc = p]
          PROVE  cmd'.pc = p /\ cmd'.req = cmd.req
      BY <1>0, <3>1, CmdStep
    <3>2. CASE AcceptClient
      BY <3>2 DEF AcceptClient, ProfileWritten
    <3>3. CASE RecvRequest
      BY <3>1, <3>3 DEF RecvRequest, Respond, ProfileWritten, CmdPc
    <3>4. CASE ApplyPolicy
      BY <3>1, <3>4 DEF ApplyPolicy, WriteProfile, Respond, ProfileWritten, CmdPc
    <3>5. CASE LookUpContainer \/ UpdateContainer \/ RestartContainer
      BY <1>0, <2>1, <3>1, <3>5 DEF LookUpContainer, UpdateContainer, RestartContainer,
         ProfileWritten, CmdPc
    <3>6. CASE RecordPolicy \/ ThreadExits \/ SelectFails
      BY <3>1, <3>6 DEF RecordPolicy, ThreadExits, SelectFails, Respond, ProfileWritten,
         CmdPc
    <3> QED
      BY <1>2, <3>2, <3>3, <3>4, <3>5, <3>6 DEF CommandThread, Prompt
  <2> QED
    BY <2>1, <2>2, <2>3 DEF NoWorkAfterStop
<1>3. CASE StopServer \/ JoinThread \/ \E c \in Containers : DockerRestart(c)
  BY <1>0, <1>3 DEF StopServer, JoinThread, DockerRestart, ProfileWritten,
     NoWorkAfterStop, Working, TypeOK
<1>4. CASE Crash
  <2>1. cmd'.pc = "exited"
    BY <1>0, <1>4 DEF Crash, Cmd
  <2> QED
    BY <2>1 DEF ProfileWritten, NoWorkAfterStop, Working
<1>5. CASE StartAgent
  <2>1. cmd'.pc \in {"select", "exited"}
    BY <1>0, <1>5 DEF StartAgent, Cmd
  <2> QED
    BY <2>1 DEF ProfileWritten, NoWorkAfterStop, Working
<1> QED
  BY <1>1, <1>2, <1>3, <1>4, <1>5 DEF Next, Elsewhere

\* Docker only ever hears of stored policies with a profile on disk.
LEMMA DockerStaysKnown ==
    ASSUME EnforcementInv, Next
    PROVE  \A c \in Containers : \A id : id \in {docker'[c].set, docker'[c].runs} =>
               (id # NoPolicy => Known(id, c)' /\ id \in profiles')
<1>0. /\ TypeOK /\ cmd.req \in Request
      /\ docker \in [Containers -> [set : Ids, runs : Ids]]
      /\ \A id, c : Known(id, c) => Known(id, c)'
      /\ profiles \subseteq profiles'
  BY HistoryKept DEF EnforcementInv, TypeOK, Cmd
<1> SUFFICES ASSUME NEW c \in Containers, NEW id,
                    id \in {docker'[c].set, docker'[c].runs}, id # NoPolicy
             PROVE  Known(id, c) /\ id \in profiles
  BY <1>0
<1>1. CASE id \in {docker[c].set, docker[c].runs}
  BY <1>1 DEF EnforcementInv, DockerKnown
<1>2. CASE UNCHANGED docker
  BY <1>1, <1>2
<1>3. CASE UpdateContainer
  <2>1. \/ id \in {docker[c].set, docker[c].runs}
        \/ c = cmd.req.c /\ id = cmd.req.id
    BY <1>0, <1>3 DEF UpdateContainer
  <2>2. /\ cmd.req.type = "SECCOMP" /\ cmd.req.id \in profiles
        /\ Known(cmd.req.id, cmd.req.c)
    BY <1>3 DEF UpdateContainer, EnforcementInv, ProfileWritten, OrdersKnown, RequestOK
  <2> QED
    BY <1>1, <2>1, <2>2
<1>4. CASE RestartContainer
  <2>1. id \in {docker[c].set, docker[c].runs}
    BY <1>0, <1>4 DEF RestartContainer
  <2> QED
    BY <1>1, <2>1
<1>5. ASSUME NEW d \in Containers, DockerRestart(d)
      PROVE  Known(id, c) /\ id \in profiles
  <2>1. id \in {docker[c].set, docker[c].runs}
    BY <1>0, <1>5 DEF DockerRestart
  <2> QED
    BY <1>1, <2>1
<1>6. CASE CommandThread
  BY <1>2, <1>3, <1>4, <1>6 DEF CommandThread, Prompt, AcceptClient, RecvRequest, ApplyPolicy, WriteProfile,
     LookUpContainer, RecordPolicy, ThreadExits
<1>7. CASE SelectFails \/ StopServer \/ JoinThread \/ Crash \/ StartAgent
  BY <1>2, <1>7 DEF SelectFails, StopServer, JoinThread, Crash, StartAgent
<1>8. CASE Elsewhere
  BY <1>2, <1>8, ElsewhereLeaves
<1> QED
  BY <1>5, <1>6, <1>7, <1>8 DEF Next, Elsewhere

\* Only a request whose profile is on disk is answered with APPLIED.
LEMMA AnswersStayTrue ==
    ASSUME EnforcementInv, Next
    PROVE  AppliedMeansFile'
<1>0. /\ TypeOK /\ AppliedMeansFile /\ cmd.req \in Request
      /\ profiles \subseteq profiles'
      /\ cmd.req.type # "SECCOMP" => cmd.req.id = 0
      /\ ingest \in Seq(Ingest)
  BY HistoryKept DEF EnforcementInv, TypeOK, Cmd, OrdersKnown, RequestOK
<1> DEFINE A == \A i \in DOMAIN ingest' : ingest'[i].reply = "APPLIED" => i \in profiles'
           B == \A a \in applied' : a.type = "SECCOMP" => a.id \in profiles'
<1>1. ASSUME UNCHANGED ingest PROVE A
  BY <1>0, <1>1 DEF AppliedMeansFile
<1>2. ASSUME UNCHANGED applied \/ applied' = {} PROVE B
  BY <1>0, <1>2 DEF AppliedMeansFile
<1>3. ASSUME NEW ids, NEW r \in {"APPLIED", "FAILED", "rejected", "broken"},
             Reply(ids, r),
             r = "APPLIED" => \A i \in ids \cap DOMAIN ingest : i \in profiles
      PROVE  A
  <2>1. /\ DOMAIN ingest' = DOMAIN ingest
        /\ \A j \in DOMAIN ingest :
              ingest'[j].reply = IF j \in ids THEN r ELSE ingest[j].reply
    BY <1>0, <1>3, ReplyStep
  <2> QED
    BY <1>0, <1>3, <2>1 DEF AppliedMeansFile
<1>4. ASSUME NEW i \in DOMAIN ingest, Handler(i) PROVE A /\ B
  <2>1. \E p \in {"store", "call", "wait", "done"} : ingest' = [ingest EXCEPT ![i].pc = p]
    BY <1>4 DEF Handler, Triage, StorePolicy, CallAgent, CallReturns
  <2>2. /\ DOMAIN ingest' = DOMAIN ingest
        /\ \A j \in DOMAIN ingest : ingest'[j].reply = ingest[j].reply
    BY <1>0, <2>1, HandlerStep
  <2>3. UNCHANGED applied
    BY <1>4, ElsewhereLeaves DEF Elsewhere
  <2> QED
    BY <1>0, <1>2, <2>2, <2>3 DEF AppliedMeansFile
<1>5. ASSUME SendAttempt PROVE A
  <2>1. PICK e : e = [window |-> post.window, c |-> post.c, pc |-> "triage",
                      reply |-> "none"]
    OBVIOUS
  <2>2. e \in Ingest /\ e.reply = "none"
    BY <1>0, <2>1, EnforcementAssumption DEF TypeOK, Post, Ingest
  <2>3. CASE ingest' = Append(ingest, e)
    <3>1. /\ \A i \in DOMAIN ingest : ingest'[i] = ingest[i]
          /\ DOMAIN ingest' = DOMAIN ingest \union {Len(ingest) + 1}
          /\ ingest'[Len(ingest) + 1] = e
      BY <1>0, <2>2, <2>3, SeqAppended
    <3> QED
      BY <1>0, <2>2, <3>1 DEF AppliedMeansFile
  <2> QED
    BY <1>1, <1>5, <2>1, <2>3 DEF SendAttempt
<1>6. ASSUME RecordPolicy PROVE A /\ B
  <2>1. cmd.req.id \in profiles
    BY <1>6 DEF RecordPolicy, EnforcementInv, ProfileWritten
  <2>2. Reply({cmd.req.id}, "APPLIED") /\ Record
    BY <1>6 DEF RecordPolicy, Respond
  <2>3. A
    BY <1>0, <2>1, <2>2, <1>3
  <2>4. B
    BY <1>0, <2>1, <2>2 DEF Record, AppliedMeansFile
  <2> QED
    BY <2>3, <2>4
<1>7. ASSUME ApplyPolicy PROVE A /\ B
  <2>1. CASE cmd.req.type # "SECCOMP" /\ Record /\ Respond("APPLIED")
    <3>1. cmd.req.id \notin DOMAIN ingest
      BY <1>0, <2>1
    <3>2. A
      BY <1>3, <2>1, <3>1 DEF Respond
    <3>3. B
      BY <1>0, <2>1 DEF Record, AppliedMeansFile
    <3> QED
      BY <3>2, <3>3
  <2>2. CASE UNCHANGED <<ingest, applied>>
    BY <1>1, <1>2, <2>2
  <2>3. CASE Respond("FAILED") /\ UNCHANGED applied
    BY <1>2, <1>3, <2>3 DEF Respond
  <2> QED
    BY <1>7, <2>1, <2>2, <2>3 DEF ApplyPolicy
<1> HIDE DEF A, B
<1>8. ASSUME EventLoop PROVE A /\ B
  BY <1>1, <1>2, <1>5, <1>8 DEF EventLoop, SendAttempt, PostAnswered, PostTimesOut,
     RetryPost
<1>9. ASSUME CommandThread PROVE A /\ B
  <2>1. CASE RecvRequest
    BY <1>1, <1>2, <1>3, <2>1 DEF RecvRequest, Respond
  <2> QED
    BY <1>1, <1>2, <1>6, <1>7, <1>9, <2>1 DEF CommandThread, Prompt, AcceptClient,
       LookUpContainer, UpdateContainer, RestartContainer, ThreadExits
<1>10. ASSUME SelectFails \/ JoinThread \/ StartAgent PROVE A /\ B
  BY <1>1, <1>2, <1>10 DEF SelectFails, JoinThread, StartAgent
<1>11. ASSUME StopServer \/ Crash PROVE A /\ B
  BY <1>2, <1>3, <1>11 DEF StopServer, Crash
<1>12. ASSUME NEW c \in Containers, PostWindow(c) \/ OtherPolicy(c) \/ DockerRestart(c)
       PROVE  A /\ B
  BY <1>1, <1>2, <1>12 DEF PostWindow, OtherPolicy, DockerRestart
<1>13. A /\ B
  BY <1>4, <1>8, <1>9, <1>10, <1>11, <1>12 DEF Next
<1> QED
  BY <1>13 DEF A, B, AppliedMeansFile

\* The invariant holds at the start: nothing is ordered, written or enforced.
LEMMA EnforcementInvInit == Init => EnforcementInv
<1> SUFFICES ASSUME Init PROVE EnforcementInv
  OBVIOUS
<1>1. TypeOK
  BY TypeInit
<1>2. cmd.pc = "exited" /\ cmd.req.type = "NETWORK" /\ cmd.req.id = 0
  BY DEF Init
<1>3. OrdersKnown
  BY <1>2 DEF Init, OrdersKnown, RequestOK
<1>4. ProfileWritten /\ NoWorkAfterStop
  BY <1>2 DEF ProfileWritten, NoWorkAfterStop, Working
<1>5. DockerKnown
  BY DEF Init, DockerKnown
<1>6. AppliedMeansFile
  BY DEF Init, AppliedMeansFile
<1> QED
  BY <1>1, <1>3, <1>4, <1>5, <1>6 DEF EnforcementInv

\* Every step keeps the invariant.
LEMMA EnforcementInvNext ==
    ASSUME EnforcementInv, [Next]_vars
    PROVE  EnforcementInv'
<1>1. CASE UNCHANGED vars
  BY <1>1 DEF EnforcementInv, vars, TypeOK, OrdersKnown, RequestOK, Known, Stored,
     ProfileWritten, DockerKnown, AppliedMeansFile, NoWorkAfterStop
<1>2. CASE Next
  <2>1. TypeOK'
    BY <1>2, TypeNext DEF EnforcementInv
  <2>2. OrdersKnown'
    BY <1>2, CallersStored, QueuedKnown DEF OrdersKnown, RequestOK, Known, Stored
  <2>3. ProfileWritten' /\ NoWorkAfterStop'
    BY <1>2, ThreadInvariants
  <2>4. DockerKnown'
    BY <1>2, DockerStaysKnown DEF DockerKnown, Known, Stored
  <2>5. AppliedMeansFile'
    BY <1>2, AnswersStayTrue
  <2> QED
    BY <2>1, <2>2, <2>3, <2>4, <2>5 DEF EnforcementInv
<1> QED
  BY <1>1, <1>2

\* The invariant of every behaviour.
LEMMA EnforcementInvAlways == Spec => []EnforcementInv
<1>1. EnforcementInv /\ [Next]_vars => EnforcementInv'
  BY EnforcementInvNext
<1> QED
  BY EnforcementInvInit, <1>1, PTL DEF Spec

\* The profile a container runs with is one the server stored for it, and its
\* file exists, for any number of retries, restarts and containers
\* (ingestWindow, apply).
THEOREM EnforcedPoliciesOrdered == Spec => []EnforcedWasOrdered
<1>1. EnforcementInv => EnforcedWasOrdered
  BY DEF EnforcementInv, DockerKnown, Known, EnforcedWasOrdered
<1> QED
  BY EnforcementInvAlways, <1>1, PTL

\* APPLIED means that the file of the profile was created (handleClient, apply).
THEOREM AppliedPoliciesHaveFile == Spec => []AppliedMeansFile
<1>1. EnforcementInv => AppliedMeansFile
  BY DEF EnforcementInv
<1> QED
  BY EnforcementInvAlways, <1>1, PTL

\* No handler runs when the agent's objects are destroyed (stop, ~Agent).
THEOREM StoppedAgentIdle == Spec => []NoWorkAfterStop
<1>1. EnforcementInv => NoWorkAfterStop
  BY DEF EnforcementInv
<1> QED
  BY EnforcementInvAlways, <1>1, PTL

-----------------------------------------------------------------------------
(* How many policies one window can cause.  Every attempt of the POST makes  *)
(* at most one request, every request at most one policy.                   *)

\* The requests that carry window w.
Copies(w) == {i \in DOMAIN ingest : ingest[i].window = w}

\* How many of them the POST can have made so far.
Budget(w) ==
    IF w > post.window THEN 0
    ELSE IF w < post.window THEN Attempts
    ELSE IF post.pc = "send" THEN post.attempt - 1 ELSE post.attempt

AttemptsOK == /\ post.attempt <= Attempts
              /\ post.pc = "send" => post.attempt > 0

CopiesOK == \A w \in 1 .. MaxWindows : Cardinality(Copies(w)) <= Budget(w)

\* A request is past the point where it stores its policy.
Decided(i) == i \in DOMAIN ingest /\ ingest[i].pc \in {"call", "wait", "done"}

PoliciesOK ==
    /\ \A n \in DOMAIN policies : Decided(policies[n])
    /\ \A m, n \in DOMAIN policies : policies[m] = policies[n] => m = n

\* The requests are finitely many.
LEMMA CopiesFinite ==
    ASSUME TypeOK, NEW w
    PROVE  IsFiniteSet(Copies(w)) /\ Cardinality(Copies(w)) \in Nat
<1>1. DOMAIN ingest = 1 .. Len(ingest) /\ Len(ingest) \in Nat
  BY DEF TypeOK
<1>2. IsFiniteSet(DOMAIN ingest)
  BY <1>1, FS_Interval
<1>3. Copies(w) \in SUBSET (DOMAIN ingest)
  BY DEF Copies
<1> QED
  BY <1>2, <1>3, FS_Subset, FS_CardinalityType

\* What a step does to the requests: one attempt adds one, no other step adds
\* any; none changes its window and none forgets that it was decided.
RequestsGrow ==
    /\ \A i : Decided(i) => Decided(i)'
    /\ \/ /\ SendAttempt
          /\ Len(ingest) + 1 \notin DOMAIN ingest
          /\ DOMAIN ingest' = DOMAIN ingest \union {Len(ingest) + 1}
          /\ ingest'[Len(ingest) + 1].window = post.window
          /\ \A i \in DOMAIN ingest : ingest'[i].window = ingest[i].window
          /\ post' = [post EXCEPT !.pc = "wait", !.call = Len(ingest) + 1]
       \/ /\ DOMAIN ingest' = DOMAIN ingest
          /\ \A i \in DOMAIN ingest : ingest'[i].window = ingest[i].window
          /\ SendAttempt => post' = [post EXCEPT !.pc = "failed"]

\* Every step is such a step.
LEMMA StepOnRequests ==
    ASSUME TypeOK, [Next]_vars
    PROVE  RequestsGrow
<1>1. ASSUME ~SendAttempt, UNCHANGED ingest PROVE RequestsGrow
  BY <1>1 DEF RequestsGrow, Decided
<1>2. ASSUME NEW i \in DOMAIN ingest, Handler(i), ~SendAttempt PROVE RequestsGrow
  <2>1. \E p \in {"store", "call", "wait", "done"} :
           /\ ingest' = [ingest EXCEPT ![i].pc = p]
           /\ ingest[i].pc \in {"call", "wait", "done"} => p # "store"
    BY <1>2 DEF Handler, Triage, StorePolicy, CallAgent, CallReturns
  <2> QED
    BY <1>2, <2>1, HandlerStep DEF RequestsGrow, Decided
<1>3. ASSUME NEW ids, NEW r \in {"APPLIED", "FAILED", "rejected", "broken"},
             Reply(ids, r), ~SendAttempt
      PROVE  RequestsGrow
  BY <1>3, ReplyStep DEF RequestsGrow, Decided
<1>4. CASE SendAttempt
  <2> DEFINE e == [window |-> post.window, c |-> post.c, pc |-> "triage",
                   reply |-> "none"]
  <2>1. CASE /\ ingest' = Append(ingest, e)
             /\ post' = [post EXCEPT !.pc = "wait", !.call = Len(ingest) + 1]
    <3>1. e \in Ingest /\ e.window = post.window
      BY EnforcementAssumption DEF TypeOK, Post, Ingest
    <3> HIDE DEF e
    <3>2. ingest \in Seq(Ingest) /\ Len(ingest) + 1 \notin DOMAIN ingest
      BY DEF TypeOK
    <3>3. /\ \A i \in DOMAIN ingest : ingest'[i] = ingest[i]
          /\ DOMAIN ingest' = DOMAIN ingest \union {Len(ingest) + 1}
          /\ ingest'[Len(ingest) + 1] = e
      BY <2>1, <3>1, <3>2, SeqAppended
    <3> QED
      BY <1>4, <2>1, <3>1, <3>2, <3>3 DEF RequestsGrow, Decided
  <2>2. CASE post' = [post EXCEPT !.pc = "failed"] /\ UNCHANGED ingest
    BY <2>2 DEF RequestsGrow, Decided
  <2> QED
    BY <1>4, <2>1, <2>2 DEF SendAttempt
<1>5. ASSUME ~SendAttempt PROVE RequestsGrow
  <2>1. CASE EventLoop
    BY <1>1, <1>5, <2>1 DEF EventLoop, PostAnswered, PostTimesOut, RetryPost
  <2>2. CASE CommandThread
    BY <1>1, <1>3, <1>5, <2>2 DEF CommandThread, Prompt, AcceptClient, RecvRequest,
       ApplyPolicy, WriteProfile, LookUpContainer, UpdateContainer, RestartContainer,
       RecordPolicy, ThreadExits, Respond
  <2>3. CASE SelectFails \/ StopServer \/ JoinThread \/ Crash \/ StartAgent
    BY <1>1, <1>3, <1>5, <2>3 DEF SelectFails, StopServer, JoinThread, Crash,
       StartAgent
  <2>4. CASE \E c \in Containers : PostWindow(c) \/ OtherPolicy(c) \/ DockerRestart(c)
    BY <1>1, <1>5, <2>4 DEF PostWindow, OtherPolicy, DockerRestart
  <2>5. CASE UNCHANGED vars
    BY <1>1, <1>5, <2>5 DEF vars
  <2> QED
    BY <1>2, <1>5, <2>1, <2>2, <2>3, <2>4, <2>5 DEF Next
<1> QED
  BY <1>4, <1>5

\* The fields of the POST under way.
LEMMA PostFields ==
    ASSUME TypeOK
    PROVE  /\ post.attempt \in Nat /\ post.window \in Nat
           /\ post.pc \in {"idle", "send", "wait", "failed"}
           /\ post \in Post /\ Attempts \in Nat \ {0}
BY EnforcementAssumption DEF TypeOK, Post

\* How a step moves the POST.
LEMMA StepOnPost ==
    ASSUME TypeOK, [Next]_vars
    PROVE  \/ post' = post
           \/ \E p \in {"idle", "wait", "failed"}, n \in Nat :
                 post' = [post EXCEPT !.pc = p, !.call = n]
           \/ /\ post.pc = "failed" /\ post.attempt < Attempts
              /\ post' = [post EXCEPT !.pc = "send", !.attempt = @ + 1]
           \/ /\ post.pc = "idle"
              /\ \E c \in Containers :
                    post' = [pc |-> "send", c |-> c, window |-> post.window + 1,
                             attempt |-> 1, call |-> 0]
<1>0. post \in Post /\ post.call \in Nat /\ Len(ingest) + 1 \in Nat
  BY DEF TypeOK, Post
<1>1. ASSUME NEW p \in {"idle", "wait", "failed"}, post' = [post EXCEPT !.pc = p]
      PROVE  post' = [post EXCEPT !.pc = p, !.call = post.call]
  BY <1>0, <1>1 DEF Post
<1>2. CASE EventLoop
  BY <1>0, <1>1, <1>2 DEF EventLoop, SendAttempt, PostAnswered, PostTimesOut,
     RetryPost, MoreAttempts
<1>3. CASE \E c \in Containers : PostWindow(c) \/ OtherPolicy(c) \/ DockerRestart(c)
  BY <1>3 DEF PostWindow, OtherPolicy, DockerRestart
<1>4. CASE Crash
  BY <1>0, <1>1, <1>4 DEF Crash
<1>5. CASE \/ CommandThread \/ SelectFails \/ StopServer \/ JoinThread \/ StartAgent
           \/ \E i \in DOMAIN ingest : Handler(i)
           \/ UNCHANGED vars
  BY <1>5 DEF vars, CommandThread, Prompt, AcceptClient, RecvRequest, ApplyPolicy, WriteProfile,
     LookUpContainer, UpdateContainer, RestartContainer, RecordPolicy, ThreadExits,
     SelectFails, StopServer, JoinThread, StartAgent, Handler, Triage, StorePolicy,
     CallAgent, CallReturns
<1> QED
  BY <1>2, <1>3, <1>4, <1>5 DEF Next

\* The budget of a window never shrinks, and an attempt raises its own.
LEMMA StepOnBudget ==
    ASSUME TypeOK, AttemptsOK, [Next]_vars
    PROVE  /\ AttemptsOK'
           /\ \A w \in Nat : Budget(w) \in Int /\ Budget(w)' \in Int
                             /\ Budget(w) <= Budget(w)'
           /\ SendAttempt => /\ Budget(post.window)' = Budget(post.window) + 1
                             /\ post'.window = post.window
<1>0. /\ post.attempt \in Nat /\ post.window \in Nat
      /\ post.pc \in {"idle", "send", "wait", "failed"}
      /\ post \in Post /\ Attempts \in Nat \ {0}
  BY PostFields
<1>1. CASE post' = post
  <2>1. ~SendAttempt
    <3>1. ASSUME SendAttempt PROVE post.pc = "send" /\ post'.pc \in {"wait", "failed"}
      BY <1>0, <3>1 DEF SendAttempt, Post
    <3> QED
      BY <1>1, <3>1
  <2> QED
    BY <1>0, <1>1, <2>1 DEF AttemptsOK, Budget
<1>2. ASSUME NEW p \in {"idle", "wait", "failed"}, NEW n \in Nat,
             post' = [post EXCEPT !.pc = p, !.call = n]
      PROVE  /\ AttemptsOK'
             /\ \A w \in Nat : Budget(w) \in Int /\ Budget(w)' \in Int
                               /\ Budget(w) <= Budget(w)'
             /\ SendAttempt => /\ Budget(post.window)' = Budget(post.window) + 1
                               /\ post'.window = post.window
  <2>1. post'.pc = p /\ post'.attempt = post.attempt /\ post'.window = post.window
    BY <1>0, <1>2 DEF Post
  <2>2. SendAttempt => post.pc = "send"
    BY DEF SendAttempt
  <2> QED
    BY <1>0, <2>1, <2>2 DEF AttemptsOK, Budget
<1>3. CASE /\ post.pc = "failed" /\ post.attempt < Attempts
           /\ post' = [post EXCEPT !.pc = "send", !.attempt = @ + 1]
  <2>1. /\ post'.pc = "send" /\ post'.attempt = post.attempt + 1
        /\ post'.window = post.window
    BY <1>0, <1>3 DEF Post
  <2>2. ~SendAttempt
    BY <1>3 DEF SendAttempt
  <2> QED
    BY <1>0, <1>3, <2>1, <2>2 DEF AttemptsOK, Budget
<1>4. ASSUME post.pc = "idle", NEW c \in Containers,
             post' = [pc |-> "send", c |-> c, window |-> post.window + 1,
                      attempt |-> 1, call |-> 0]
      PROVE  /\ AttemptsOK'
             /\ \A w \in Nat : Budget(w) \in Int /\ Budget(w)' \in Int
                               /\ Budget(w) <= Budget(w)'
             /\ ~SendAttempt
  <2>1. /\ post'.pc = "send" /\ post'.attempt = 1
        /\ post'.window = post.window + 1
    BY <1>4
  <2>2. ~SendAttempt
    BY <1>4 DEF SendAttempt
  <2> QED
    BY <1>0, <1>4, <2>1, <2>2 DEF AttemptsOK, Budget
<1> QED
  BY <1>1, <1>2, <1>3, <1>4, StepOnPost

\* No window has more requests than its POST had attempts.
LEMMA CopiesStayOK ==
    ASSUME TypeOK, TypeOK', AttemptsOK, CopiesOK, [Next]_vars
    PROVE  CopiesOK'
<1> SUFFICES ASSUME NEW w \in 1 .. MaxWindows
             PROVE  Cardinality(Copies(w))' <= Budget(w)'
  BY DEF CopiesOK
<1>0. /\ w \in Nat /\ Cardinality(Copies(w)) <= Budget(w)
      /\ IsFiniteSet(Copies(w)) /\ Cardinality(Copies(w)) \in Nat
      /\ Budget(w) \in Int /\ Budget(w)' \in Int /\ Budget(w) <= Budget(w)'
  BY CopiesFinite, StepOnBudget, EnforcementAssumption DEF CopiesOK
<1>1. CASE /\ DOMAIN ingest' = DOMAIN ingest
           /\ \A i \in DOMAIN ingest : ingest'[i].window = ingest[i].window
  <2>1. Copies(w)' = Copies(w)
    BY <1>1 DEF Copies
  <2> QED
    BY <1>0, <2>1
<1>2. CASE /\ SendAttempt
           /\ Len(ingest) + 1 \notin DOMAIN ingest
           /\ DOMAIN ingest' = DOMAIN ingest \union {Len(ingest) + 1}
           /\ ingest'[Len(ingest) + 1].window = post.window
           /\ \A i \in DOMAIN ingest : ingest'[i].window = ingest[i].window
  <2>1. CASE w = post.window
    <3>1. Copies(w)' = Copies(w) \union {Len(ingest) + 1}
      BY <1>2, <2>1 DEF Copies
    <3>2. Cardinality(Copies(w) \union {Len(ingest) + 1}) = Cardinality(Copies(w)) + 1
      <4>1. Len(ingest) + 1 \notin Copies(w)
        BY <1>2 DEF Copies
      <4> QED
        BY <1>0, <4>1, FS_AddElement
    <3>3. Budget(w)' = Budget(w) + 1
      <4>1. Budget(post.window)' = Budget(post.window) + 1 /\ post'.window = post.window
        BY <1>2, StepOnBudget
      <4> QED
        BY <2>1, <4>1 DEF Budget
    <3> QED
      BY <1>0, <3>1, <3>2, <3>3
  <2>2. CASE w # post.window
    <3>1. Copies(w)' = Copies(w)
      BY <1>2, <2>2 DEF Copies
    <3> QED
      BY <1>0, <3>1
  <2> QED
    BY <2>1, <2>2
<1> QED
  BY <1>1, <1>2, StepOnRequests DEF RequestsGrow

\* A request stores one policy, on its way from "store" to "call".
LEMMA PoliciesStayOK ==
    ASSUME TypeOK, PoliciesOK, [Next]_vars
    PROVE  PoliciesOK'
<1>0. \A i : Decided(i) => Decided(i)'
  BY StepOnRequests DEF RequestsGrow
<1>1. CASE UNCHANGED policies
  BY <1>0, <1>1 DEF PoliciesOK
<1>2. ASSUME NEW i \in DOMAIN ingest, StorePolicy(i) PROVE PoliciesOK'
  <2>1. i \in Ids /\ policies \in Seq(Ids) /\ ingest \in Seq(Ingest)
    BY DEF TypeOK, Ids
  <2>2. /\ \A n \in DOMAIN policies : policies'[n] = policies[n]
        /\ DOMAIN policies' = DOMAIN policies \union {Len(policies) + 1}
        /\ policies'[Len(policies) + 1] = i
    BY <1>2, <2>1, SeqAppended DEF StorePolicy
  <2>3. ~Decided(i)
    BY <1>2 DEF StorePolicy, Decided
  <2>4. Decided(i)'
    <3>1. ingest' = [ingest EXCEPT ![i].pc = "call"]
      BY <1>2 DEF StorePolicy
    <3>2. PICK p \in {"store", "call", "wait", "done"} : p = "call"
      OBVIOUS
    <3>3. ingest' = [ingest EXCEPT ![i].pc = p]
      BY <3>1, <3>2
    <3>4. /\ DOMAIN ingest' = DOMAIN ingest
          /\ \A j \in DOMAIN ingest : ingest'[j].pc = IF j = i THEN p ELSE ingest[j].pc
      BY <3>3, HandlerStep
    <3>5. i \in DOMAIN ingest' /\ ingest'[i].pc = p
      BY <3>4
    <3> QED
      BY <3>2, <3>5 DEF Decided
  <2>5. \A n \in DOMAIN policies : policies[n] # i
    BY <2>3 DEF PoliciesOK
  <2> QED
    BY <1>0, <2>2, <2>4, <2>5 DEF PoliciesOK
<1>3. CASE \E i \in DOMAIN ingest : Handler(i)
  BY <1>1, <1>2, <1>3 DEF Handler, Triage, CallAgent, CallReturns
<1>4. CASE ~\E i \in DOMAIN ingest : Handler(i)
  BY <1>1, <1>4 DEF Next, EventLoop, SendAttempt, PostAnswered, PostTimesOut,
     RetryPost, CommandThread, Prompt, AcceptClient, RecvRequest, ApplyPolicy, WriteProfile,
     LookUpContainer, UpdateContainer, RestartContainer, RecordPolicy, ThreadExits,
     SelectFails, StopServer, JoinThread, Crash, StartAgent, PostWindow,
     OtherPolicy, DockerRestart, vars
<1> QED
  BY <1>3, <1>4

\* Different policies of a window come from different requests that carry it.
LEMMA PoliciesWithinBudget ==
    ASSUME TypeOK, AttemptsOK, CopiesOK, PoliciesOK
    PROVE  PoliciesPerWindow
<1> SUFFICES ASSUME NEW w \in 1 .. MaxWindows
             PROVE  Cardinality({n \in DOMAIN policies : ingest[policies[n]].window = w})
                      <= Attempts
  BY DEF PoliciesPerWindow
<1> DEFINE P == {n \in DOMAIN policies : ingest[policies[n]].window = w}
           f == [n \in P |-> policies[n]]
<1>1. f \in Injection(P, Copies(w))
  <2>1. \A n \in P : policies[n] \in Copies(w)
    BY DEF PoliciesOK, Decided, Copies
  <2>2. \A m, n \in P : f[m] = f[n] => m = n
    BY DEF PoliciesOK
  <2>3. f \in [P -> Copies(w)]
    BY <2>1
  <2> QED
    BY <2>2, <2>3 DEF Injection, IsInjective
<1>2. IsFiniteSet(Copies(w)) /\ Cardinality(Copies(w)) \in Nat
  BY CopiesFinite
<1>3. IsFiniteSet(P) /\ Cardinality(P) <= Cardinality(Copies(w))
  BY <1>1, <1>2, FS_Injection
<1>4. Cardinality(P) \in Nat
  BY <1>3, FS_CardinalityType
<1>5. Cardinality(Copies(w)) <= Budget(w)
  BY DEF CopiesOK
<1>6. Budget(w) \in Int /\ Budget(w) <= Attempts
  BY PostFields, EnforcementAssumption DEF Budget, AttemptsOK
<1>7. Attempts \in Nat
  BY EnforcementAssumption
<1> HIDE DEF P
<1>8. Cardinality(P) <= Attempts
  BY <1>2, <1>3, <1>4, <1>5, <1>6, <1>7
<1> QED
  BY <1>8 DEF P

\* However late the answers and however often the agent dies in between, one
\* window causes no more policies than its POST has attempts.
THEOREM WindowPoliciesBounded == Spec => []PoliciesPerWindow
<1> DEFINE Counted == AttemptsOK /\ CopiesOK /\ PoliciesOK
<1>1. Init => Counted
  <2> SUFFICES ASSUME Init PROVE Counted
    OBVIOUS
  <2>1. post.attempt = 0 /\ post.window = 0 /\ post.pc = "idle"
    BY DEF Init
  <2>2. AttemptsOK
    BY <2>1, EnforcementAssumption DEF AttemptsOK
  <2>3. ASSUME NEW w \in 1 .. MaxWindows PROVE Cardinality(Copies(w)) <= Budget(w)
    <3>1. Copies(w) = {}
      BY DEF Init, Copies
    <3>2. Budget(w) = 0
      BY <2>1 DEF Budget
    <3> QED
      BY <3>1, <3>2, FS_EmptySet
  <2>4. PoliciesOK
    BY DEF Init, PoliciesOK
  <2> QED
    BY <2>2, <2>3, <2>4 DEF CopiesOK
<1>2. TypeOK /\ TypeOK' /\ Counted /\ [Next]_vars => Counted'
  BY StepOnBudget, CopiesStayOK, PoliciesStayOK
<1>3. TypeOK /\ Counted => PoliciesPerWindow
  BY PoliciesWithinBudget
<1> HIDE DEF Counted
<1> QED
  BY <1>1, <1>2, <1>3, EnforcementTypes, PTL DEF Spec

=============================================================================
