---------------------------- MODULE Enforcement ----------------------------
(***************************************************************************)
(* From a suspicious window to a contained container, across two programs:  *)
(*   - the agent's event loop POSTs a window and repeats the POST when no    *)
(*     answer comes in time (agent/src/http_client.cpp);                    *)
(*   - each copy that arrives is a request of its own to the server, which  *)
(*     triages it, stores and announces a policy, and calls the agent       *)
(*     (AgentWindowController.ingestWindow, HttpAgentAdapter.applyPolicy);   *)
(*   - the agent's command thread serves one connection at a time           *)
(*     (agent/src/agent_server.cpp) and applies policies with Docker        *)
(*     (agent/src/policy_enforcer.cpp), while the agent may be stopped,      *)
(*     killed and started again.                                            *)
(* A policy's id is the number of the window request that generated it; the *)
(* unsupported policies of other clients have id 0, which Docker never sees. *)
(***************************************************************************)
EXTENDS Naturals, Sequences, FiniteSets

CONSTANTS Containers,
          Attempts,      \* maxRetries: how often a POST is tried
          MaxWindows,    \* bound: windows posted
          MaxOthers,     \* bound: policies other clients send
          MaxStarts      \* bound: starts of the agent

ASSUME EnforcementAssumption ==
    /\ Attempts \in Nat \ {0}
    /\ MaxWindows \in Nat
    /\ MaxOthers \in Nat
    /\ MaxStarts \in Nat

VARIABLES
    post,       \* the event loop inside postJsonWithRetry
    ingest,     \* the server's window requests, in order of arrival
    policies,   \* PolicyRepository: the stored ids, all with status APPLIED
    agent,      \* the agent process: its life and its listening socket
    backlog,    \* connections nobody has accepted yet
    cmd,        \* the command thread: the step of handleClient and its request
    applied,    \* appliedPolicies_ of the running agent
    profiles,   \* the policies that have a file in policyDir
    short,      \* those whose file lacks a part of the text; nobody looks
    docker,     \* per container: the profile set, and the one it runs with
    others      \* policies other clients have sent (bounds the model)

vars == <<post, ingest, policies, agent, backlog, cmd, applied, profiles, short,
          docker, others>>

NoPolicy == 0
Ids == Nat

\* What handleClient reads from a connection to POST /policies.
Request == [id : Ids, c : Containers, type : {"SECCOMP", "NETWORK"}]

Ingest == [window : Nat, c : Containers,
           pc : {"triage", "store", "call", "wait", "done"},
           reply : {"none", "APPLIED", "FAILED", "rejected", "broken"}]

Post == [pc : {"idle", "send", "wait", "failed"}, c : Containers,
         window : 0 .. MaxWindows, attempt : Nat, call : Nat]

CmdPc == {"select", "recv", "apply", "lookup", "update", "restart", "record",
          "exited"}
Working == CmdPc \ {"select", "exited"}
Cmd == [pc : CmdPc, req : Request]

-----------------------------------------------------------------------------
(* The event loop: HttpClient::postJsonWithRetry.                           *)

PostWindow(c) ==
    /\ agent.life = "up"
    /\ post.pc = "idle"
    /\ post.window < MaxWindows
    /\ post' = [pc |-> "send", c |-> c, window |-> post.window + 1,
                attempt |-> 1, call |-> 0]
    /\ UNCHANGED <<ingest, policies, agent, backlog, cmd, applied, profiles, short,
                   docker, others>>

\* One postJson: the request reaches the server or it does not.
SendAttempt ==
    /\ post.pc = "send"
    /\ \/ /\ ingest' = Append(ingest, [window |-> post.window, c |-> post.c,
                                       pc |-> "triage", reply |-> "none"])
          /\ post' = [post EXCEPT !.pc = "wait", !.call = Len(ingest) + 1]
       \/ /\ post' = [post EXCEPT !.pc = "failed"]
          /\ UNCHANGED ingest
    /\ UNCHANGED <<policies, agent, backlog, cmd, applied, profiles, short, docker, others>>

\* Any answer at all ends the POST: the status is not looked at.
PostAnswered ==
    /\ post.pc = "wait"
    /\ ingest[post.call].pc = "done"
    /\ post' = [post EXCEPT !.pc = "idle"]
    /\ UNCHANGED <<ingest, policies, agent, backlog, cmd, applied, profiles, short,
                   docker, others>>

NeverTimesOut ==                       \* mutation: no CURLOPT_TIMEOUT
    /\ FALSE
    /\ UNCHANGED vars
\* The timeout passes first; the server goes on with the request.
PostTimesOut ==
    /\ post.pc = "wait"
    /\ post' = [post EXCEPT !.pc = "failed"]
    /\ UNCHANGED <<ingest, policies, agent, backlog, cmd, applied, profiles, short,
                   docker, others>>

OneTooMany == post.attempt <= Attempts   \* mutation: one attempt too many
MoreAttempts == post.attempt < Attempts

RetryPost ==
    /\ post.pc = "failed"
    /\ post' = IF MoreAttempts
                 THEN [post EXCEPT !.pc = "send", !.attempt = @ + 1]
                 ELSE [post EXCEPT !.pc = "idle"]
    /\ UNCHANGED <<ingest, policies, agent, backlog, cmd, applied, profiles, short,
                   docker, others>>

-----------------------------------------------------------------------------
(* The server: ingestWindow, one thread per request.                         *)

\* Scoring, triage and generatePolicy: a THREAT yields a policy, any other
\* verdict, or an exception, ends the request.
Triage(i) ==
    /\ ingest[i].pc = "triage"
    /\ \E next \in {"store", "done"} : ingest' = [ingest EXCEPT ![i].pc = next]
    /\ UNCHANGED <<post, policies, agent, backlog, cmd, applied, profiles, short,
                   docker, others>>

SkipStore(i) ==                      \* mutation: the policy is not stored
    /\ ingest[i].pc = "store"
    /\ ingest' = [ingest EXCEPT ![i].pc = "call"]
    /\ UNCHANGED <<post, policies, agent, backlog, cmd, applied, profiles, short,
                   docker, others>>
\* The policy is stored and announced as APPLIED before the agent is called.
StorePolicy(i) ==
    /\ ingest[i].pc = "store"
    /\ policies' = Append(policies, i)
    /\ ingest' = [ingest EXCEPT ![i].pc = "call"]
    /\ UNCHANGED <<post, agent, backlog, cmd, applied, profiles, short, docker, others>>

\* HttpAgentAdapter.applyPolicy connects, or fails to and swallows it.
CallAgent(i) ==
    /\ ingest[i].pc = "call"
    /\ \/ /\ agent.listening
          /\ backlog' = Append(backlog, [id |-> i, c |-> ingest[i].c,
                                         type |-> "SECCOMP"])
          /\ ingest' = [ingest EXCEPT ![i].pc = "wait"]
       \/ /\ ingest' = [ingest EXCEPT ![i].pc = "done"]
          /\ UNCHANGED backlog
    /\ UNCHANGED <<post, policies, agent, cmd, applied, profiles, short, docker, others>>

\* The RestTemplate has no timeout: it waits for the answer or the end of the
\* connection, and whatever comes the window request is done.
CallReturns(i) ==
    /\ ingest[i].pc = "wait"
    /\ ingest[i].reply # "none"
    /\ ingest' = [ingest EXCEPT ![i].pc = "done"]
    /\ UNCHANGED <<post, policies, agent, backlog, cmd, applied, profiles, short,
                   docker, others>>

\* Another client posts a policy of a type the enforcer does not support.
OtherPolicy(c) ==
    /\ agent.listening
    /\ others < MaxOthers
    /\ others' = others + 1
    /\ backlog' = Append(backlog, [id |-> 0, c |-> c, type |-> "NETWORK"])
    /\ UNCHANGED <<post, ingest, policies, agent, cmd, applied, profiles, short, docker>>

-----------------------------------------------------------------------------
(* The agent's command thread: serverLoop, handleClient and apply.           *)

\* The server's requests that were waiting on the given connections learn r.
Reply(ids, r) ==
    ingest' = [i \in DOMAIN ingest |->
                 IF i \in ids THEN [ingest[i] EXCEPT !.reply = r] ELSE ingest[i]]

\* handleClient sends its response and returns to select.
Respond(r) ==
    /\ Reply({cmd.req.id}, r)
    /\ cmd' = [cmd EXCEPT !.pc = "select"]

AcceptClient ==
    /\ cmd.pc = "select"
    /\ agent.life = "up"
    /\ backlog # <<>>
    /\ cmd' = [pc |-> "recv", req |-> Head(backlog)]
    /\ backlog' = Tail(backlog)
    /\ UNCHANGED <<post, ingest, policies, agent, applied, profiles, short, docker, others>>

\* One recv: the whole request; or a part, in which the container id is missing
\* (the server writes it behind the policy's id and type), answered with 400;
\* or nothing.
RecvRequest ==
    /\ cmd.pc = "recv"
    /\ \/ cmd' = [cmd EXCEPT !.pc = "apply"] /\ UNCHANGED ingest
       \/ Respond("rejected")
    /\ UNCHANGED <<post, policies, agent, backlog, applied, profiles, short, docker, others>>

RecordContainer ==                   \* mutation: keyed by the container
    applied' = applied \union {[id |-> cmd.req.c, type |-> cmd.req.type]}
Record ==
    applied' = applied \union {[id |-> cmd.req.id, type |-> cmd.req.type]}

\* writeSeccompProfile once the file is open: the stream is not looked at
\* again, so a full disk goes unnoticed.
WriteProfile ==
    /\ profiles' = profiles \union {cmd.req.id}
    /\ short' \in {short \ {cmd.req.id}, short \union {cmd.req.id}}

ApplyUnopened ==                     \* mutation: is_open() is not looked at
    /\ cmd.pc = "apply"
    /\ \/ /\ cmd.req.type # "SECCOMP"
          /\ Record
          /\ Respond("APPLIED")
          /\ UNCHANGED <<profiles, short>>
       \/ /\ cmd.req.type = "SECCOMP"
          /\ cmd' = [cmd EXCEPT !.pc = "lookup"]
          /\ WriteProfile \/ UNCHANGED <<profiles, short>>
          /\ UNCHANGED <<ingest, applied>>
    /\ UNCHANGED <<post, policies, agent, backlog, docker, others>>
\* apply: an unsupported type is recorded and called applied; the profile of
\* a supported one is written, or its file cannot be opened.
ApplyPolicy ==
    /\ cmd.pc = "apply"
    /\ \/ /\ cmd.req.type # "SECCOMP"
          /\ Record
          /\ Respond("APPLIED")
          /\ UNCHANGED <<profiles, short>>
       \/ /\ cmd.req.type = "SECCOMP"
          /\ WriteProfile
          /\ cmd' = [cmd EXCEPT !.pc = "lookup"]
          /\ UNCHANGED <<ingest, applied>>
       \/ /\ cmd.req.type = "SECCOMP"
          /\ Respond("FAILED")
          /\ UNCHANGED <<applied, profiles, short>>
    /\ UNCHANGED <<post, policies, agent, backlog, docker, others>>

\* getContainerIdFromName: Docker knows the container, or it does not and the
\* policy is only recorded.
LookUpContainer ==
    /\ cmd.pc = "lookup"
    /\ \E next \in {"update", "record"} : cmd' = [cmd EXCEPT !.pc = next]
    /\ UNCHANGED <<post, ingest, policies, agent, backlog, applied, profiles, short,
                   docker, others>>

\* docker update, and docker restart only if that succeeded.
UpdateContainer ==
    /\ cmd.pc = "update"
    /\ \/ /\ docker' = [docker EXCEPT ![cmd.req.c].set = cmd.req.id]
          /\ cmd' = [cmd EXCEPT !.pc = "restart"]
       \/ /\ cmd' = [cmd EXCEPT !.pc = "record"]
          /\ UNCHANGED docker
    /\ UNCHANGED <<post, ingest, policies, agent, backlog, applied, profiles, short, others>>

RestartContainer ==
    /\ cmd.pc = "restart"
    /\ \/ docker' = [docker EXCEPT ![cmd.req.c].runs = docker[cmd.req.c].set]
       \/ UNCHANGED docker
    /\ cmd' = [cmd EXCEPT !.pc = "record"]
    /\ UNCHANGED <<post, ingest, policies, agent, backlog, applied, profiles, short, others>>

\* Whatever Docker did, the policy is recorded and answered with APPLIED.
RecordPolicy ==
    /\ cmd.pc = "record"
    /\ Record
    /\ Respond("APPLIED")
    /\ UNCHANGED <<post, policies, agent, backlog, profiles, short, docker, others>>

\* select fails: the thread ends, and the socket stays open behind it.
SelectFails ==
    /\ cmd.pc = "select"
    /\ agent.life = "up"
    /\ cmd' = [cmd EXCEPT !.pc = "exited"]
    /\ UNCHANGED <<post, ingest, policies, agent, backlog, applied, profiles, short,
                   docker, others>>

-----------------------------------------------------------------------------
(* Stopping and starting the agent.                                          *)

Pending == {backlog[n].id : n \in DOMAIN backlog}

\* run() leaves its loop between two events and calls AgentServer::stop, which
\* clears running_ and closes the socket; what was not accepted is reset.
StopServer ==
    /\ agent.life = "up"
    /\ post.pc = "idle"
    /\ agent' = [agent EXCEPT !.life = "stopping", !.listening = FALSE]
    /\ Reply(Pending, "broken")
    /\ backlog' = <<>>
    /\ UNCHANGED <<post, policies, cmd, applied, profiles, short, docker, others>>

KeepServing ==                       \* mutation: the loop ignores running_
    /\ FALSE
    /\ UNCHANGED vars
ThreadExits ==
    /\ cmd.pc = "select"
    /\ agent.life = "stopping"
    /\ cmd' = [cmd EXCEPT !.pc = "exited"]
    /\ UNCHANGED <<post, ingest, policies, agent, backlog, applied, profiles, short,
                   docker, others>>

LeaveThread ==                       \* mutation: the thread is not joined
    /\ agent.life = "stopping"
    /\ agent' = [agent EXCEPT !.life = "down"]
    /\ applied' = {}
    /\ UNCHANGED <<post, ingest, policies, backlog, cmd, profiles, short, docker, others>>
\* stop() joins the thread, and only then are the agent's objects destroyed.
JoinThread ==
    /\ agent.life = "stopping"
    /\ cmd.pc = "exited"
    /\ agent' = [agent EXCEPT !.life = "down"]
    /\ applied' = {}
    /\ UNCHANGED <<post, ingest, policies, backlog, cmd, profiles, short, docker, others>>

\* The agent is killed, or aborts because serverLoop uses the descriptor that
\* stop() has just set to -1: its memory and its connections are gone.
Crash ==
    /\ agent.life # "down"
    /\ agent' = [agent EXCEPT !.life = "down", !.listening = FALSE]
    /\ Reply(Pending \union (IF cmd.pc \in Working THEN {cmd.req.id} ELSE {}),
             "broken")
    /\ backlog' = <<>>
    /\ cmd' = [cmd EXCEPT !.pc = "exited"]
    /\ applied' = {}
    /\ post' = [post EXCEPT !.pc = "idle"]
    /\ UNCHANGED <<policies, profiles, short, docker, others>>

\* initServer: when the socket cannot be had the agent runs without it.
StartAgent ==
    /\ agent.life = "down"
    /\ agent.starts < MaxStarts
    /\ \E listening \in BOOLEAN :
          /\ agent' = [life |-> "up", listening |-> listening,
                       starts |-> agent.starts + 1]
          /\ cmd' = [cmd EXCEPT !.pc = IF listening THEN "select" ELSE "exited"]
    /\ UNCHANGED <<post, ingest, policies, backlog, applied, profiles, short, docker, others>>

\* Docker restarts a container for reasons of its own.
DockerRestart(c) ==
    /\ docker' = [docker EXCEPT ![c].runs = docker[c].set]
    /\ UNCHANGED <<post, ingest, policies, agent, backlog, cmd, applied, profiles, short,
                   others>>

-----------------------------------------------------------------------------

Init ==
    /\ \E c \in Containers :
          /\ post = [pc |-> "idle", c |-> c, window |-> 0, attempt |-> 0, call |-> 0]
          /\ cmd = [pc |-> "exited", req |-> [id |-> 0, c |-> c, type |-> "NETWORK"]]
    /\ ingest = <<>>
    /\ policies = <<>>
    /\ agent = [life |-> "down", listening |-> FALSE, starts |-> 0]
    /\ backlog = <<>>
    /\ applied = {}
    /\ profiles = {}
    /\ short = {}
    /\ docker = [c \in Containers |-> [set |-> NoPolicy, runs |-> NoPolicy]]
    /\ others = 0

EventLoop == SendAttempt \/ PostAnswered \/ PostTimesOut \/ RetryPost

Handler(i) == Triage(i) \/ StorePolicy(i) \/ CallAgent(i) \/ CallReturns(i)

\* The steps of the command thread that end by themselves (the request to
\* Docker's socket has a timeout), and those that wait for a client's bytes or
\* for a docker command, without one.
Prompt == AcceptClient \/ ApplyPolicy \/ LookUpContainer \/ RecordPolicy \/ ThreadExits
Waiting == {"recv", "update", "restart"}

CommandThread == Prompt \/ RecvRequest \/ UpdateContainer \/ RestartContainer

Next ==
    \/ EventLoop
    \/ \E i \in DOMAIN ingest : Handler(i)
    \/ CommandThread
    \/ \E c \in Containers : PostWindow(c) \/ OtherPolicy(c) \/ DockerRestart(c)
    \/ SelectFails \/ StopServer \/ JoinThread \/ Crash \/ StartAgent

Spec == Init /\ [][Next]_vars

\* The threads run and the timeouts of a POST and of a request to Docker pass;
\* nothing is assumed of the server, of the clients of the command thread or of
\* docker's commands.
Fairness ==
    /\ WF_vars(EventLoop)
    /\ WF_vars(Prompt)
    /\ WF_vars(JoinThread)

FairSpec == Spec /\ Fairness

-----------------------------------------------------------------------------

\* The locals of the three threads, the repositories and the files keep their
\* shapes.
TypeOK ==
    /\ post \in Post
    /\ ingest \in Seq(Ingest)
    /\ policies \in Seq(Ids)
    /\ agent \in [life : {"up", "stopping", "down"}, listening : BOOLEAN,
                  starts : 0 .. MaxStarts]
    /\ backlog \in Seq(Request)
    /\ cmd \in Cmd
    /\ applied \in SUBSET [id : Ids, type : {"SECCOMP", "NETWORK"}]
    /\ profiles \in SUBSET Ids
    /\ short \in SUBSET profiles
    /\ docker \in [Containers -> [set : Ids, runs : Ids]]
    /\ others \in 0 .. MaxOthers

Stored(id) == \E n \in DOMAIN policies : policies[n] = id

\* No container is constrained without the server knowing: the profile it
\* runs with, however often calls were repeated, cut off by a restart of the
\* agent or overtaken, is one the server stored for this very container
\* before, and its file is there (ingestWindow, apply).
EnforcedWasOrdered ==
    \A c \in Containers :
        docker[c].runs # NoPolicy =>
            /\ docker[c].runs \in DOMAIN ingest
            /\ ingest[docker[c].runs].c = c
            /\ Stored(docker[c].runs)
            /\ docker[c].runs \in profiles

\* What an APPLIED to the server, or a seccomp entry of appliedPolicies_, is
\* worth: Docker may have refused and the text may be cut short, but the
\* profile's file was created, also after the agent that answered is gone
\* (handleClient, apply, writeSeccompProfile).
AppliedMeansFile ==
    /\ \A i \in DOMAIN ingest : ingest[i].reply = "APPLIED" => i \in profiles
    /\ \A a \in applied : a.type = "SECCOMP" => a.id \in profiles

\* However late the answers, one window causes no more policies, and so no
\* more restarts of its container, than the POST has attempts
\* (postJsonWithRetry, ingestWindow).
PoliciesPerWindow ==
    \A w \in 1 .. MaxWindows :
        Cardinality({n \in DOMAIN policies : ingest[policies[n]].window = w})
            <= Attempts

\* When the agent's objects are destroyed no handler is running on them
\* (AgentServer::stop, ~Agent).
NoWorkAfterStop == agent.life = "down" => cmd.pc \notin Working

\* The event loop is never lost to a server that does not answer
\* (postJson's timeout, postJsonWithRetry).
PostReturns == post.pc # "idle" ~> post.pc = "idle"

\* "Use select with timeout for graceful shutdown": a stop() that never comes
\* back is waiting for a client that sends nothing or for one docker command
\* that never ends, and for nothing else (serverLoop, handleClient, stop).
StopReturns ==
    <>[](agent.life = "stopping") => \E b \in Waiting : <>[](cmd.pc = b)

=============================================================================
