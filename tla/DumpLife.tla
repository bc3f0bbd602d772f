------------------------------ MODULE DumpLife ------------------------------
(***************************************************************************)
(* What the agent promises about long dumps, without threads, buffers or    *)
(* files: a dump is started by a request, ends, and is then reported before *)
(* anything else ends.  A request for a container that is already being     *)
(* dumped extends that dump; a request may arrive while an earlier dump of  *)
(* the same container is being reported.  A container that is not dumped     *)
(* may be about to leave the agent's table; a dump that is started too late  *)
(* to stop that leaves with it and is never reported.  An agent that has     *)
(* stopped ends and reports nothing any more.                                *)
(***************************************************************************)
EXTENDS Naturals

CONSTANTS Dumpable,   \* the containers that can be dumped
          Nobody      \* no container

VARIABLES alive,      \* the agent has not stopped
          running,    \* the containers with a dump under way
          reporting,  \* the container whose dump has ended and is unreported
          leaving,    \* the container about to leave the table
          starts,     \* requests that started or extended a dump
          reports     \* completion notices

dumpVars == <<alive, running, reporting, leaving, starts, reports>>

Init ==
    /\ alive = TRUE
    /\ running = {}
    /\ reporting = Nobody
    /\ leaving = Nobody
    /\ starts = [c \in Dumpable |-> 0]
    /\ reports = [c \in Dumpable |-> 0]

Start(c) ==
    /\ running' = running \union {c}
    /\ starts' = [starts EXCEPT ![c] = @ + 1]
    /\ UNCHANGED <<alive, reporting, leaving, reports>>

End(c) ==
    /\ alive
    /\ c \in running
    /\ reporting = Nobody
    /\ running' = running \ {c}
    /\ reporting' = c
    /\ UNCHANGED <<alive, leaving, starts, reports>>

Report(c) ==
    /\ alive
    /\ reporting = c
    /\ reporting' = Nobody
    /\ reports' = [reports EXCEPT ![c] = @ + 1]
    /\ UNCHANGED <<alive, running, leaving, starts>>

\* The container is chosen to leave: no dump of it is under way.
Choose(c) ==
    /\ alive
    /\ c \notin running
    /\ leaving = Nobody /\ reporting = Nobody
    /\ leaving' = c
    /\ UNCHANGED <<alive, running, reporting, starts, reports>>

\* It leaves, and a dump started since then is lost.
Leave(c) ==
    /\ alive
    /\ leaving = c
    /\ leaving' = Nobody
    /\ running' = running \ {c}
    /\ UNCHANGED <<alive, reporting, starts, reports>>

\* The agent stops; a report it had not sent is lost.
Stop ==
    /\ alive
    /\ alive' = FALSE
    /\ reporting' = Nobody
    /\ leaving' = Nobody
    /\ UNCHANGED <<running, starts, reports>>

Next ==
    \/ Stop
    \/ \E c \in Dumpable : Start(c) \/ End(c) \/ Report(c)
                           \/ Choose(c) \/ Leave(c)

Spec == Init /\ [][Next]_dumpVars

=============================================================================
